------------------------- MODULE HelperChannelProofs -------------------------
(***************************************************************************)
(* Proofs about HelperChannel, for any number of sessions, lines, line     *)
(* lengths and spurious errors, and any chunking.  Of the children:        *)
(* endChildProcess and the queue of 'exit' and 'error' steps never let two *)
(* helpers live at once (ChildInv).  Of the parser: what a helper writes   *)
(* is a run of whole lines (Running), and the parser is in step with it    *)
(* (Synced) unless a chunk of an earlier session came in between, and then *)
(* again from the next newline on (Resync, ParserInv).                     *)
(***************************************************************************)
EXTENDS HelperChannel, SequenceTheorems, FiniteSetTheorems, TLAPS

Steps == Sessions \X {"exit", "error"}

\* The variables of the processes; the parser and the pipes play no part.
ProcsOK ==
  /\ helper \in 0..MaxSessions /\ spawned \in 0..MaxSessions
  /\ child \in [Sessions -> {"none", "alive", "failed", "gone"}]
  /\ queue \in Seq(Steps)
  /\ ending \in 0..MaxSessions /\ pc \in {"idle", "SIGTERM", "SIGKILL"}
  /\ settled \in BOOLEAN

\* A child that lives is the running session's, or the one that is being ended and
\* that the watch has not seen go.
AliveIsKnown ==
  \A s \in Sessions : child[s] = "alive" => helper = s \/ (Waiting(s) /\ ~settled)

\* What the watch and the queue believe is so: the child they speak of is gone.
SettledIsGone == settled => \A s \in Sessions : Waiting(s) => child[s] = "gone"

ExitIsGone ==
  \A k \in 1..Len(queue) : queue[k][2] = "exit" => child[queue[k][1]] = "gone"

UnspawnedIsNone == \A s \in Sessions : s > spawned => child[s] = "none"

ChildInv ==
  /\ ProcsOK /\ OneChildAtATime
  /\ AliveIsKnown /\ SettledIsGone /\ ExitIsGone /\ UnspawnedIsNone

-----------------------------------------------------------------------------
\* What the two ends of the queue do to it.
LEMMA QueueGrows ==
  ASSUME ProcsOK, NEW s \in Sessions, NEW e \in {"exit", "error"}
  PROVE  /\ Append(queue, <<s, e>>) \in Seq(Steps)
         /\ Len(Append(queue, <<s, e>>)) = Len(queue) + 1
         /\ \A k \in 1..Len(queue) : Append(queue, <<s, e>>)[k] = queue[k]
         /\ Append(queue, <<s, e>>)[Len(queue) + 1] = <<s, e>>
         /\ Len(queue) \in Nat
<1>1. <<s, e>> \in Steps /\ queue \in Seq(Steps)
  BY DEF Steps, ProcsOK
<1>2. QED
  BY <1>1, AppendProperties, LenProperties

LEMMA QueueShrinks ==
  ASSUME ProcsOK, queue # <<>>
  PROVE  /\ Tail(queue) \in Seq(Steps)
         /\ Head(queue) = queue[1] /\ 1 \in 1..Len(queue)
         /\ Head(queue)[1] \in Sessions
         /\ Len(Tail(queue)) = Len(queue) - 1 /\ Len(queue) \in Nat
         /\ \A k \in 1..Len(Tail(queue)) : Tail(queue)[k] = queue[k + 1]
<1>1. queue \in Seq(Steps)
  BY DEF ProcsOK
<1>2. /\ Head(queue) = queue[1] /\ 1 \in 1..Len(queue) /\ Head(queue) \in Steps
      /\ Tail(queue) \in Seq(Steps) /\ Len(Tail(queue)) = Len(queue) - 1
      /\ \A k \in 1..Len(Tail(queue)) : Tail(queue)[k] = queue[k + 1]
  BY <1>1, HeadTailProperties, EmptySeq
<1>3. QED
  BY <1>1, <1>2, LenProperties DEF Steps

\* A child that goes stays gone, and its own end is the only thing that changes.
LEMMA Ends ==
  ASSUME ChildInv, NEW s \in Sessions, child[s] \in {"alive", "failed"},
         child' = [child EXCEPT ![s] = "gone"],
         settled' = (settled \/ Waiting(s)),
         NEW e \in {"exit", "error"}, queue' = Append(queue, <<s, e>>),
         UNCHANGED <<helper, spawned, ending, pc>>
  PROVE  ChildInv'
<1> USE DEF ChildInv
<1>1. ProcsOK'
  BY QueueGrows DEF ProcsOK, Waiting
<1>2. AliveIsKnown'
  BY DEF AliveIsKnown, Waiting, ProcsOK
<1>3. SettledIsGone'
  BY DEF SettledIsGone, Waiting, ProcsOK
<1>4. ExitIsGone'
  <2>1. ASSUME NEW k \in 1..Len(queue'), queue'[k][2] = "exit"
        PROVE  child'[queue'[k][1]] = "gone"
    <3>1. CASE k \in 1..Len(queue)
      <4>1. queue'[k] = queue[k] /\ queue[k] \in Steps
        BY <3>1, QueueGrows, ElementOfSeq DEF ProcsOK
      <4>2. child[queue[k][1]] = "gone" /\ queue[k][1] \in Sessions
        BY <2>1, <3>1, <4>1 DEF ExitIsGone, Steps
      <4>3. QED
        BY <4>1, <4>2 DEF ProcsOK
    <3>2. CASE k = Len(queue) + 1
      <4>1. queue'[k] = <<s, e>>
        BY <3>2, QueueGrows
      <4>2. QED
        BY <4>1 DEF ProcsOK
    <3>3. QED
      BY <2>1, <3>1, <3>2, QueueGrows
  <2>2. QED
    BY <2>1 DEF ExitIsGone
<1>5. UnspawnedIsNone'
  BY DEF UnspawnedIsNone, ProcsOK
<1>6. OneChildAtATime'
  BY DEF OneChildAtATime, ProcsOK
<1>7. QED
  BY <1>1, <1>2, <1>3, <1>4, <1>5, <1>6

\* Every step keeps the children known.
LEMMA ChildStep ==
  ASSUME ChildInv, [Next]_vars
  PROVE  ChildInv'
<1> USE ChannelAssumption DEF ChildInv
<1>1. CASE SpawnSession
  <2>1. /\ spawned + 1 \in Sessions /\ spawned' = spawned + 1 /\ helper' = spawned + 1
        /\ pc = "idle" /\ helper = 0 /\ UNCHANGED <<queue, ending, pc, settled>>
    BY <1>1 DEF SpawnSession, ProcsOK, Sessions
  <2>2. PICK c \in {"alive", "failed"} : child' = [child EXCEPT ![spawned + 1] = c]
    BY <1>1 DEF SpawnSession
  <2>3. child[spawned + 1] = "none"
    BY <2>1 DEF UnspawnedIsNone, ProcsOK
  <2>4. \A s \in Sessions : child[s] # "alive"
    BY <2>1 DEF AliveIsKnown, Waiting, Sessions
  <2>5. ProcsOK'
    BY <2>1, <2>2 DEF ProcsOK, Sessions
  <2>6. AliveIsKnown' /\ SettledIsGone' /\ UnspawnedIsNone' /\ OneChildAtATime'
    BY <2>1, <2>2, <2>4
       DEF AliveIsKnown, SettledIsGone, UnspawnedIsNone, OneChildAtATime, Waiting, ProcsOK, Sessions
  <2>7. ExitIsGone'
    <3>1. ASSUME NEW k \in 1..Len(queue), queue[k][2] = "exit"
          PROVE  child'[queue[k][1]] = "gone"
      <4>1. queue[k][1] \in Sessions /\ child[queue[k][1]] = "gone"
        BY <3>1, ElementOfSeq DEF ExitIsGone, ProcsOK, Steps
      <4>2. QED
        BY <2>2, <2>3, <4>1 DEF ProcsOK
    <3>2. QED
      BY <2>1, <3>1 DEF ExitIsGone
  <2>8. QED
    BY <2>5, <2>6, <2>7
<1>2. CASE EndSession
  <2>1. /\ pc = "idle" /\ helper \in Sessions /\ helper' = 0
        /\ ending' = helper /\ pc' = "SIGTERM" /\ settled' = (child[helper] = "gone")
        /\ UNCHANGED <<spawned, child, queue>>
    BY <1>2 DEF EndSession, EndChildProcess, HasExited, ProcsOK, Sessions
  <2>2. ProcsOK'
    BY <2>1 DEF ProcsOK, Sessions
  <2>3. AliveIsKnown' /\ SettledIsGone'
    BY <2>1 DEF AliveIsKnown, SettledIsGone, Waiting
  <2>4. QED
    BY <2>1, <2>2, <2>3 DEF ExitIsGone, UnspawnedIsNone, OneChildAtATime
<1>3. CASE Dequeue
  <2>1. /\ pc = "idle" /\ queue # <<>> /\ queue' = Tail(queue)
        /\ UNCHANGED <<spawned, child>>
    BY <1>3 DEF Dequeue
  <2>2. ExitIsGone'
    <3>1. ASSUME NEW k \in 1..Len(Tail(queue)), Tail(queue)[k][2] = "exit"
          PROVE  child[Tail(queue)[k][1]] = "gone"
      <4>1. Tail(queue)[k] = queue[k + 1] /\ k + 1 \in 1..Len(queue)
        BY <2>1, QueueShrinks
      <4>2. QED
        BY <3>1, <4>1 DEF ExitIsGone
    <3>2. QED
      BY <2>1, <3>1 DEF ExitIsGone
  <2>3. CASE Head(queue)[2] = "error"
    <3>1. /\ Head(queue)[1] \in Sessions /\ ending' = Head(queue)[1] /\ pc' = "SIGTERM"
          /\ settled' = (child[Head(queue)[1]] = "gone") /\ helper' = helper
      BY <1>3, <2>1, <2>3, QueueShrinks DEF Dequeue, EndChildProcess, HasExited
    <3>2. ProcsOK'
      BY <2>1, <3>1, QueueShrinks DEF ProcsOK, Sessions
    <3>3. AliveIsKnown' /\ SettledIsGone' /\ UnspawnedIsNone' /\ OneChildAtATime'
      BY <2>1, <3>1 DEF AliveIsKnown, SettledIsGone, UnspawnedIsNone, OneChildAtATime, Waiting
    <3>4. QED
      BY <2>2, <3>2, <3>3
  <2>4. CASE Head(queue)[2] # "error"
    <3>1. /\ helper' = IF helper = Head(queue)[1] THEN 0 ELSE helper
          /\ UNCHANGED <<ending, pc, settled>>
      BY <1>3, <2>4 DEF Dequeue
    <3>2. Head(queue)[2] = "exit"
      BY <2>1, <2>4, QueueShrinks, ElementOfSeq DEF ProcsOK, Steps
    <3>3. child[Head(queue)[1]] = "gone"
      BY <2>1, <3>2, QueueShrinks DEF ExitIsGone
    <3>4. ProcsOK'
      BY <2>1, <3>1, QueueShrinks DEF ProcsOK
    <3>5. AliveIsKnown' /\ SettledIsGone' /\ UnspawnedIsNone' /\ OneChildAtATime'
      BY <2>1, <3>1, <3>3 DEF AliveIsKnown, SettledIsGone, UnspawnedIsNone, OneChildAtATime, Waiting
    <3>6. QED
      BY <2>2, <3>4, <3>5
  <2>5. QED
    BY <2>3, <2>4
<1>4. CASE SigkillDue
  BY <1>4 DEF SigkillDue, ProcsOK, AliveIsKnown, SettledIsGone, ExitIsGone, UnspawnedIsNone,
              OneChildAtATime, Waiting
<1>5. CASE EndReturns
  <2>1. /\ pc # "idle" /\ settled /\ pc' = "idle" /\ settled' = FALSE /\ ending' = 0
        /\ helper' = IF helper = ending THEN 0 ELSE helper
        /\ UNCHANGED <<spawned, child, queue>>
    BY <1>5 DEF EndReturns
  <2>2. ProcsOK'
    <3>1. helper' \in 0..MaxSessions /\ ending' \in 0..MaxSessions
      BY <2>1 DEF ProcsOK
    <3>2. QED
      BY <2>1, <3>1 DEF ProcsOK
  <2>3. AliveIsKnown' /\ SettledIsGone'
    BY <2>1 DEF AliveIsKnown, SettledIsGone, Waiting
  <2>4. QED
    BY <2>1, <2>2, <2>3 DEF ExitIsGone, UnspawnedIsNone, OneChildAtATime
<1>6. ASSUME NEW s \in Sessions, WriteLine(s) \/ Data(s) PROVE ChildInv'
  <2>1. UNCHANGED procs
    BY <1>6 DEF WriteLine, Data
  <2>2. QED
    BY <2>1 DEF procs, ProcsOK, AliveIsKnown, SettledIsGone, ExitIsGone, UnspawnedIsNone,
                Waiting, OneChildAtATime
<1>7. ASSUME NEW s \in Sessions, Die(s) PROVE ChildInv'
  BY <1>7, Ends DEF Die
<1>8. ASSUME NEW s \in Sessions, SpawnFailed(s) PROVE ChildInv'
  BY <1>8, Ends DEF SpawnFailed
<1>9. ASSUME NEW s \in Sessions, ErrorEvent(s) PROVE ChildInv'
  <2>1. /\ queue' = Append(queue, <<s, "error">>)
        /\ UNCHANGED <<helper, spawned, child, ending, pc, settled>>
    BY <1>9 DEF ErrorEvent
  <2>2. ProcsOK'
    BY <2>1, QueueGrows DEF ProcsOK
  <2>3. AliveIsKnown' /\ SettledIsGone' /\ UnspawnedIsNone' /\ OneChildAtATime'
    BY <2>1 DEF AliveIsKnown, SettledIsGone, UnspawnedIsNone, OneChildAtATime, Waiting
  <2>4. ASSUME NEW k \in 1..Len(queue'), queue'[k][2] = "exit"
        PROVE  child[queue'[k][1]] = "gone"
    <3>1. k # Len(queue) + 1
      BY <2>1, <2>4, QueueGrows
    <3>2. k \in 1..Len(queue) /\ queue'[k] = queue[k]
      BY <2>1, <3>1, QueueGrows
    <3>3. QED
      BY <2>4, <3>2 DEF ExitIsGone
  <2>5. QED
    BY <2>1, <2>2, <2>3, <2>4 DEF ExitIsGone
<1>10. CASE UNCHANGED vars
  BY <1>10 DEF vars, procs, ProcsOK, AliveIsKnown, SettledIsGone, ExitIsGone,
               UnspawnedIsNone, OneChildAtATime, Waiting
<1>11. QED
  BY <1>1, <1>2, <1>3, <1>4, <1>5, <1>6, <1>7, <1>8, <1>9, <1>10 DEF Next

LEMMA ChildInit ==
  ASSUME Init
  PROVE  ChildInv
<1>1. queue \in Seq(Steps) /\ Len(queue) = 0
  BY EmptySeq DEF Init
<1>2. ProcsOK
  <2>1. 0 \in 0..MaxSessions /\ child \in [Sessions -> {"none", "alive", "failed", "gone"}]
    BY ChannelAssumption DEF Init
  <2>2. QED
    BY <1>1, <2>1 DEF Init, ProcsOK
<1>3. AliveIsKnown /\ SettledIsGone /\ UnspawnedIsNone /\ OneChildAtATime
  BY DEF Init, AliveIsKnown, SettledIsGone, UnspawnedIsNone, OneChildAtATime
<1>4. ExitIsGone
  BY <1>1 DEF ExitIsGone
<1>5. QED
  BY <1>2, <1>3, <1>4 DEF ChildInv

\* One helper at a time (HelperChannel.OneChildAtATime): whatever the order of deaths,
\* late 'exit' steps, spurious errors, timeouts and failed spawns, for any number of
\* sessions, the next helper is spawned only when the last one is gone.
THEOREM SpecOneChildAtATime == Spec => []OneChildAtATime
<1>1. Init => ChildInv
  BY ChildInit
<1>2. ChildInv => OneChildAtATime
  BY DEF ChildInv
<1>3. QED
  BY <1>1, <1>2, ChildStep, PTL DEF Spec

-----------------------------------------------------------------------------
(***************************************************************************)
(* The parser.  What a text is made of, place by place.                    *)
(***************************************************************************)

\* From place m on, a text is a stretch of what one helper writes: line after line,
\* each from its first character to its newline, but for the ends of the stretch.
Running(t, m) ==
  /\ \A i, j \in m..Len(t) :
       i <= j /\ j - i < t[j].at => t[i] = At(t[j], t[j].at - (j - i))
  /\ \A j \in m..Len(t) : j - m >= t[j].at => IsNewline(t[j - t[j].at])

\* What the parser has of the next line of a stream p: the whole of it so far, or else
\* only that it is too long.
Synced(p, live, b, o) ==
  IF p = <<>> THEN live => b = <<>> /\ ~o
  ELSE /\ ~o => Len(b) = p[1].at - 1 /\ \A k \in 1..Len(b) : b[k] = At(p[1], k)
       /\ o => p[1].at > 1 /\ p[1].len > MaxLine

LEMMA CharFields ==
  ASSUME NEW c \in Chars
  PROVE  /\ c.len \in Nat \ {0} /\ c.at \in Nat \ {0} /\ c.at <= c.len + 1
         /\ At(c, c.at) = c
         /\ \A k \in 1..(c.len + 1) :
              /\ At(c, k) \in Chars /\ At(c, k).at = k /\ At(c, k).len = c.len
              /\ \A j : At(At(c, k), j) = At(c, j)
<1>1. c \in [from : Sessions, line : 1..MaxLines, len : Lengths, at : Nat]
      /\ c.at \in 1..(c.len + 1) /\ c.len \in Lengths
  BY DEF Chars
<1>2. c.len \in Nat \ {0} /\ c.at \in Nat \ {0} /\ c.at <= c.len + 1
  <2>1. c.len \in Nat \ {0}
    BY <1>1, ChannelAssumption
  <2>2. QED
    BY <1>1, <2>1
<1>3. At(c, c.at) = c
  BY <1>1 DEF At
<1>4. ASSUME NEW k \in 1..(c.len + 1)
      PROVE  /\ At(c, k) \in Chars /\ At(c, k).at = k /\ At(c, k).len = c.len
             /\ \A j : At(At(c, k), j) = At(c, j)
  <2>1. At(c, k) \in [from : Sessions, line : 1..MaxLines, len : Lengths, at : Nat]
        /\ At(c, k).at = k /\ At(c, k).len = c.len
    BY <1>1, <1>2, <1>4 DEF At
  <2>2. \A j : At(At(c, k), j) = At(c, j)
    BY <1>1 DEF At
  <2>3. QED
    BY <1>4, <2>1, <2>2 DEF Chars
<1>5. QED
  BY <1>2, <1>3, <1>4

LEMMA MaxIs ==
  ASSUME NEW S, S \subseteq Int, NEW x \in S, \A y \in S : y <= x
  PROVE  Max(S) = x
<1>1. Max(S) \in S /\ \A y \in S : Max(S) >= y
  <2>1. \E z \in S : \A y \in S : z >= y
    OBVIOUS
  <2>2. QED
    BY <2>1 DEF Max
<1>2. Max(S) \in Int /\ x \in Int /\ Max(S) <= x /\ Max(S) >= x
  BY <1>1
<1>3. QED
  BY <1>2

\* Inside one line there is no other newline.
LEMMA NoneWithin ==
  ASSUME NEW t \in Seq(Chars), NEW m \in Nat \ {0}, Running(t, m),
         NEW i \in m..Len(t), NEW j \in m..(i - 1), i - j < t[i].at
  PROVE  ~IsNewline(t[j])
<1>1. t[i] \in Chars /\ j \in m..Len(t) /\ j <= i /\ i \in Nat /\ j \in Nat /\ j < i
  BY ElementOfSeq, LenProperties
<1>2. t[j] = At(t[i], t[i].at - (i - j))
  BY <1>1 DEF Running
<1>3. t[i].at - (i - j) \in 1..(t[i].len + 1) /\ t[i].at - (i - j) < t[i].len + 1
  BY <1>1, CharFields
<1>4. t[j].at = t[i].at - (i - j) /\ t[j].len = t[i].len
  BY <1>1, <1>2, <1>3, CharFields
<1>5. QED
  BY <1>3, <1>4 DEF IsNewline

\* The newline before a line that is not the first of its stretch.
LEMMA BeforeLine ==
  ASSUME NEW t \in Seq(Chars), NEW m \in Nat \ {0}, Running(t, m),
         NEW i \in m..Len(t), i - t[i].at >= m
  PROVE  Before(t, i) = i - t[i].at
<1> DEFINE b == i - t[i].at
           S == {0} \cup {j \in Newlines(t) : j < i}
<1>1. t[i] \in Chars /\ t[i].at \in Nat \ {0} /\ Len(t) \in Nat /\ i \in Nat
  BY ElementOfSeq, LenProperties, CharFields
<1>2. b \in m..(i - 1) /\ IsNewline(t[b]) /\ b \in 1..Len(t) /\ i - m >= t[i].at
  BY <1>1 DEF Running
<1>3. b \in S /\ S \subseteq Int
  BY <1>1, <1>2 DEF Newlines
<1>4. ASSUME NEW j \in S PROVE j <= b
  <2>1. SUFFICES ASSUME j > b PROVE FALSE
    BY <1>2, <1>3
  <2>2. j \in m..(i - 1) /\ i - j < t[i].at /\ IsNewline(t[j])
    BY <1>1, <1>2, <2>1 DEF Newlines
  <2>3. QED
    BY <2>2, NoneWithin
<1>5. Max(S) = b
  BY <1>3, <1>4, MaxIs
<1>6. QED
  BY <1>5 DEF Before

\* The first line of a text.
LEMMA BeforeFirst ==
  ASSUME NEW t \in Seq(Chars), NEW m \in Nat \ {0}, Running(t, m),
         \A j \in 1..(m - 1) : j <= Len(t) => ~IsNewline(t[j]),
         NEW i \in m..Len(t), t[i].at > i - m
  PROVE  /\ \A j \in 1..(i - 1) : ~IsNewline(t[j])
         /\ Before(t, i) = 0
<1>1. t[i] \in Chars /\ t[i].at \in Nat \ {0} /\ Len(t) \in Nat /\ i \in Nat
  BY ElementOfSeq, LenProperties, CharFields
<1>2. ASSUME NEW j \in 1..(i - 1) PROVE ~IsNewline(t[j])
  <2>1. CASE j < m
    BY <1>1, <2>1
  <2>2. CASE j >= m
    <3>1. j \in m..(i - 1) /\ i - j < t[i].at
      BY <1>1, <2>2
    <3>2. QED
      BY <3>1, NoneWithin
  <2>3. QED
    BY <2>1, <2>2
<1>3. {0} \cup {j \in Newlines(t) : j < i} = {0}
  BY <1>1, <1>2 DEF Newlines
<1>4. Max({0}) = 0
  <2>1. {0} \subseteq Int /\ 0 \in {0} /\ \A y \in {0} : y <= 0
    OBVIOUS
  <2>2. QED
    BY <2>1, MaxIs
<1>5. QED
  BY <1>2, <1>3, <1>4 DEF Before

\* A line that begins after place b, seen from its place a, which is place i of the text.
LEMMA Backwards ==
  ASSUME NEW i \in Int, NEW b \in Int, NEW a \in Int, NEW k \in Int, b = i - a,
         NEW m \in Int, NEW L \in Int, b >= m - 1, i <= L, k >= 1, k < a
  PROVE  /\ b + k \in m..L /\ b + k <= i
         /\ i - (b + k) < a /\ a - (i - (b + k)) = k
OBVIOUS

\* A line that is in the text from its first character parses, and as itself.
LEMMA LineRead ==
  ASSUME NEW t \in Seq(Chars), NEW m \in Nat \ {0}, Running(t, m),
         NEW i \in m..Len(t), IsNewline(t[i]),
         Before(t, i) = i - t[i].at, Before(t, i) >= m - 1
  PROVE  /\ Len(Raw(t, i)) = t[i].len /\ Raw(t, i) # <<>> /\ Parses(Raw(t, i))
         /\ Raw(t, i)[1] = At(t[i], 1)
<1> DEFINE r == Raw(t, i)
           b == i - t[i].at
<1>1. /\ t[i] \in Chars /\ t[i].at \in Nat \ {0} /\ t[i].len \in Nat \ {0}
      /\ t[i].at = t[i].len + 1 /\ Len(t) \in Nat /\ i \in Nat /\ b \in Nat
  BY ElementOfSeq, LenProperties, CharFields DEF IsNewline
<1>2. r = SubSeq(t, b + 1, i - 1) /\ b + 1 \in Int /\ i - 1 \in Int
  BY <1>1 DEF Raw
<1>3. \A k \in (b + 1)..(i - 1) : t[k] \in Chars
  BY <1>1, ElementOfSeq
<1> HIDE DEF b, r
<1>4. /\ r \in Seq(Chars)
      /\ Len(r) = IF b + 1 <= i - 1 THEN (i - 1) - (b + 1) + 1 ELSE 0
      /\ \A k \in 1..((i - 1) - (b + 1) + 1) : r[k] = t[(b + 1) + k - 1]
  BY <1>2, <1>3, SubSeqProperties
<1>4a. b = i - t[i].at /\ b >= m - 1
  BY DEF b
<1>4b. Len(r) = t[i].len
  BY <1>1, <1>4, <1>4a
<1>5. \A k \in 1..t[i].len : r[k] = t[b + k]
  <2>1. \A k \in 1..t[i].len : k \in 1..((i - 1) - (b + 1) + 1) /\ (b + 1) + k - 1 = b + k
    BY <1>1, <1>4a
  <2>2. QED
    BY <1>4, <2>1
<1>6. ASSUME NEW k \in 1..t[i].len PROVE r[k] = At(t[i], k)
  <2>1. b + k \in m..Len(t) /\ b + k <= i /\ i - (b + k) < t[i].at
        /\ t[i].at - (i - (b + k)) = k
    <3> DEFINE a == t[i].at
               L == Len(t)
    <3>1. /\ a \in Int /\ b = i - a /\ b \in Int /\ i \in Int /\ k \in Int /\ k >= 1
          /\ m \in Int /\ L \in Int /\ b >= m - 1 /\ i <= L
      BY <1>1, <1>4a
    <3>2. k < a
      BY <1>1
    <3> HIDE DEF a, L
    <3>3. /\ b + k \in m..L /\ b + k <= i
          /\ i - (b + k) < a /\ a - (i - (b + k)) = k
      BY <3>1, <3>2, Backwards
    <3>4. QED
      BY <3>3 DEF a, L
  <2>2. QED
    BY <1>5, <2>1 DEF Running
<1>7. r # <<>> /\ r[1] = At(t[i], 1) /\ 1 \in 1..(t[i].len + 1)
  BY <1>1, <1>4, <1>4b, <1>6
<1>8. r[1].len = t[i].len /\ \A k : At(r[1], k) = At(t[i], k)
  BY <1>1, <1>7, CharFields
<1>9. Parses(r)
  BY <1>4b, <1>6, <1>8 DEF Parses
<1>10. QED
  BY <1>4b, <1>7, <1>9 DEF r

\* Where the rest of a text begins, and that there is no newline in it.
LEMMA RestIs ==
  ASSUME NEW t \in Seq(Chars), NEW m \in 1..Len(t), Running(t, m),
         \A j \in 1..(m - 1) : ~IsNewline(t[j])
  PROVE  \E z \in 0..Len(t) :
           /\ z = 0 <=> Newlines(t) = {}
           /\ z # 0 => z >= m /\ IsNewline(t[z])
           /\ \A j \in (z + 1)..Len(t) : ~IsNewline(t[j])
           /\ Rest(t) \in Seq(Chars) /\ Len(Rest(t)) = Len(t) - z
           /\ \A k \in 1..(Len(t) - z) : Rest(t)[k] = t[z + k]
<1> DEFINE L == Len(t)
           S == {0} \cup {j \in Newlines(t) : j < L + 1}
<1>1. L \in Nat /\ m \in Nat \ {0} /\ L \in m..Len(t) /\ t[L] \in Chars /\ t[L].at \in Nat \ {0}
  BY ElementOfSeq, LenProperties, CharFields
<1>2. ASSUME NEW z \in 0..L, z # 0 => z >= m /\ IsNewline(t[z]),
             \A j \in (z + 1)..L : ~IsNewline(t[j])
      PROVE  /\ z = 0 <=> Newlines(t) = {}
             /\ Rest(t) \in Seq(Chars) /\ Len(Rest(t)) = L - z
             /\ \A k \in 1..(L - z) : Rest(t)[k] = t[z + k]
  <2>1. z \in S /\ S \subseteq Int /\ \A y \in S : y <= z
    BY <1>1, <1>2 DEF Newlines
  <2>2. Before(t, L + 1) = z
    <3>1. Max(S) = z
      BY <2>1, MaxIs
    <3>2. QED
      BY <3>1 DEF Before
  <2>3. Rest(t) = SubSeq(t, z + 1, L) /\ \A k \in (z + 1)..L : t[k] \in Chars
    BY <1>1, <2>2, ElementOfSeq DEF Rest, Raw
  <2>4. QED
    BY <1>1, <1>2, <2>3, SubSeqProperties DEF Newlines
<1>3. CASE IsNewline(t[L])
  <2>1. \A j \in (L + 1)..L : ~IsNewline(t[j])
    BY <1>1
  <2>2. QED
    BY <1>1, <1>2, <1>3, <2>1
<1>4. CASE ~IsNewline(t[L]) /\ L - t[L].at >= m
  <2> DEFINE z == L - t[L].at
  <2>1. z \in 0..L /\ z >= m /\ IsNewline(t[z])
    BY <1>1, <1>4 DEF Running
  <2>2. ASSUME NEW j \in (z + 1)..L PROVE ~IsNewline(t[j])
    <3>1. CASE j = L
      BY <1>4, <3>1
    <3>2. CASE j # L
      <4>1. j \in m..(L - 1) /\ L - j < t[L].at
        BY <1>1, <1>4, <3>2
      <4>2. QED
        BY <1>1, <4>1, NoneWithin
    <3>3. QED
      BY <3>1, <3>2
  <2>3. QED
    BY <1>2, <2>1, <2>2
<1>5. CASE ~IsNewline(t[L]) /\ t[L].at > L - m
  <2>1. \A j \in 1..(L - 1) : ~IsNewline(t[j])
    BY <1>1, <1>5, BeforeFirst
  <2>2. \A j \in (0 + 1)..L : ~IsNewline(t[j])
    BY <1>1, <1>5, <2>1
  <2>3. QED
    BY <1>1, <1>2, <2>2
<1>6. IsNewline(t[L]) \/ (~IsNewline(t[L]) /\ (L - t[L].at >= m \/ t[L].at > L - m))
  BY <1>1
<1>7. QED
  BY <1>3, <1>4, <1>5, <1>6

\* What a chunk makes of the buffer: a text that runs on from the chunk's start.
LEMMA TextIs ==
  ASSUME NEW p \in Seq(Chars), Running(p, 1), NEW n \in 1..Len(p),
         NEW b \in Seq(Chars), Newlines(b) = {},
         NEW t, t = b \o SubSeq(p, 1, n)
  PROVE  /\ t \in Seq(Chars) /\ Len(t) = Len(b) + n
         /\ \A k \in 1..Len(b) : t[k] = b[k] /\ ~IsNewline(t[k])
         /\ \A k \in 1..n : t[Len(b) + k] = p[k]
         /\ Running(t, Len(b) + 1)
<1>1. Len(b) \in Nat /\ Len(p) \in Nat /\ n \in Nat \ {0} /\ n <= Len(p)
  BY LenProperties
<1>2. /\ SubSeq(p, 1, n) \in Seq(Chars) /\ Len(SubSeq(p, 1, n)) = n
      /\ \A k \in 1..n : SubSeq(p, 1, n)[k] = p[k]
  <2>1. \A k \in 1..n : p[k] \in Chars
    BY <1>1, ElementOfSeq
  <2>2. /\ SubSeq(p, 1, n) \in Seq(Chars)
        /\ Len(SubSeq(p, 1, n)) = IF 1 <= n THEN n - 1 + 1 ELSE 0
        /\ \A k \in 1..(n - 1 + 1) : SubSeq(p, 1, n)[k] = p[1 + k - 1]
    BY <1>1, <2>1, SubSeqProperties
  <2>3. \A k \in 1..n : k \in 1..(n - 1 + 1) /\ 1 + k - 1 = k
    BY <1>1
  <2>4. QED
    BY <1>1, <2>2, <2>3
<1>3. /\ t \in Seq(Chars) /\ Len(t) = Len(b) + n
      /\ \A k \in 1..(Len(b) + n) :
           t[k] = IF k <= Len(b) THEN b[k] ELSE SubSeq(p, 1, n)[k - Len(b)]
  BY <1>2, ConcatProperties
<1>4. \A k \in 1..Len(b) : t[k] = b[k] /\ ~IsNewline(t[k])
  <2>1. SUFFICES ASSUME NEW k \in 1..Len(b) PROVE t[k] = b[k] /\ ~IsNewline(t[k])
    OBVIOUS
  <2>2. ~IsNewline(b[k])
    BY DEF Newlines
  <2>3. t[k] = b[k]
    BY <1>1, <1>3
  <2>4. QED
    BY <2>2, <2>3
<1>5. ASSUME NEW k \in 1..n PROVE t[Len(b) + k] = p[k]
  <2>1. Len(b) + k \in 1..(Len(b) + n) /\ ~(Len(b) + k <= Len(b)) /\ (Len(b) + k) - Len(b) = k
    BY <1>1
  <2>2. QED
    BY <1>2, <1>3, <2>1
<1>6. \A j \in (Len(b) + 1)..Len(t) : t[j] = p[j - Len(b)] /\ j - Len(b) \in 1..Len(p)
  <2>1. SUFFICES ASSUME NEW j \in (Len(b) + 1)..Len(t)
                 PROVE  t[j] = p[j - Len(b)] /\ j - Len(b) \in 1..Len(p)
    OBVIOUS
  <2>2. j - Len(b) \in 1..n /\ Len(b) + (j - Len(b)) = j /\ j - Len(b) \in 1..Len(p)
    BY <1>1, <1>3
  <2>3. QED
    BY <1>5, <2>2
<1>7. ASSUME NEW i \in (Len(b) + 1)..Len(t), NEW j \in (Len(b) + 1)..Len(t),
             i <= j, j - i < t[j].at
      PROVE  t[i] = At(t[j], t[j].at - (j - i))
  <2>1. /\ i - Len(b) <= j - Len(b) /\ (j - Len(b)) - (i - Len(b)) = j - i
    BY <1>1, <1>7
  <2>2. QED
    BY <1>6, <1>7, <2>1 DEF Running
<1>8. ASSUME NEW j \in (Len(b) + 1)..Len(t), j - (Len(b) + 1) >= t[j].at
      PROVE  IsNewline(t[j - t[j].at])
  <2>1. t[j] = p[j - Len(b)] /\ j - Len(b) \in 1..Len(p) /\ t[j] \in Chars
    BY <1>6, ElementOfSeq
  <2>2. t[j].at \in Nat \ {0} /\ j \in Int
    BY <2>1, CharFields
  <2>3. /\ (j - Len(b)) - 1 >= t[j].at
        /\ j - t[j].at \in (Len(b) + 1)..Len(t)
        /\ (j - t[j].at) - Len(b) = (j - Len(b)) - t[j].at
    BY <1>1, <1>8, <2>2
  <2>4. IsNewline(p[(j - Len(b)) - t[j].at])
    BY <2>1, <2>3 DEF Running
  <2>5. QED
    BY <1>6, <2>3, <2>4
<1>9. QED
  BY <1>3, <1>4, <1>5, <1>7, <1>8 DEF Running

\* The next character of a stream after a chunk whose last newline is at z: it
\* is of the line that the rest of the chunk began.
LEMMA NextChar ==
  ASSUME NEW p \in Seq(Chars), Running(p, 1), NEW n \in 1..(Len(p) - 1),
         NEW z \in 0..n, z # 0 => IsNewline(p[z]),
         \A j \in (z + 1)..n : ~IsNewline(p[j])
  PROVE  /\ p[n + 1] \in Chars /\ p[n + 1].at > n - z
         /\ z # 0 => p[n + 1].at = (n - z) + 1
         /\ \A k \in (z + 1)..n : p[k] = At(p[n + 1], p[n + 1].at - ((n + 1) - k))
<1> DEFINE c == p[n + 1]
<1>1. /\ c \in Chars /\ c.at \in Nat \ {0} /\ c.len \in Nat \ {0} /\ c.at <= c.len + 1
      /\ n + 1 \in 1..Len(p) /\ Len(p) \in Nat /\ n \in Nat
  <2>1. Len(p) \in Nat /\ n + 1 \in 1..Len(p)
    BY LenProperties
  <2>2. QED
    BY <2>1, ElementOfSeq, CharFields
<1>2. c.at > n - z
  <2>1. SUFFICES ASSUME c.at <= n - z PROVE FALSE
    BY <1>1
  <2>2. (n + 1) - 1 >= c.at /\ (n + 1) - c.at \in (z + 1)..n
    BY <1>1, <2>1
  <2>3. IsNewline(p[(n + 1) - c.at])
    BY <1>1, <2>2 DEF Running
  <2>4. QED
    BY <2>2, <2>3
<1>3. ASSUME NEW k \in (z + 1)..n PROVE p[k] = At(c, c.at - ((n + 1) - k))
  <2>1. k \in 1..Len(p) /\ k <= n + 1 /\ (n + 1) - k < c.at
    BY <1>1, <1>2
  <2>2. QED
    BY <1>1, <2>1 DEF Running
<1>4. ASSUME z # 0 PROVE c.at = (n - z) + 1
  <2>1. SUFFICES ASSUME c.at > (n - z) + 1 PROVE FALSE
    BY <1>1, <1>2
  <2>2. z \in 1..Len(p) /\ z <= n + 1 /\ (n + 1) - z < c.at
    BY <1>1, <1>4, <2>1
  <2>3. p[z] = At(c, c.at - ((n + 1) - z))
    BY <1>1, <2>2 DEF Running
  <2>4. c.at - ((n + 1) - z) \in 1..(c.len + 1) /\ c.at - ((n + 1) - z) < c.len + 1
    BY <1>1, <2>2
  <2>5. p[z].at = c.at - ((n + 1) - z) /\ p[z].len = c.len
    BY <1>1, <2>3, <2>4, CharFields
  <2>6. QED
    BY <1>4, <2>4, <2>5 DEF IsNewline
<1>5. QED
  BY <1>1, <1>2, <1>3, <1>4

\* push ends in step with the stream it was given a chunk of, if it was in step before,
\* and also if it was not but the chunk has a newline.
LEMMA Resync ==
  ASSUME NEW p \in Seq(Chars), NEW n \in 1..Len(p), NEW b \in Seq(Chars), NEW t,
         NEW live \in BOOLEAN, NEW o \in BOOLEAN, NEW oo \in BOOLEAN
  PROVE  /\ Running(p, 1) /\ Newlines(b) = {} /\ t = b \o SubSeq(p, 1, n)
         /\ live => IsNewline(p[Len(p)])
         /\ oo <=> Len(Rest(t)) > MaxLine \/ (o /\ Newlines(t) = {})
         /\ Newlines(t) # {} \/ Synced(p, live, b, o)
         => Synced(SubSeq(p, n + 1, Len(p)), live, Kept(t), oo)
<1>0. SUFFICES ASSUME Running(p, 1), Newlines(b) = {}, t = b \o SubSeq(p, 1, n),
                      live => IsNewline(p[Len(p)]),
                      oo <=> Len(Rest(t)) > MaxLine \/ (o /\ Newlines(t) = {}),
                      Newlines(t) # {} \/ Synced(p, live, b, o)
               PROVE  Synced(SubSeq(p, n + 1, Len(p)), live, Kept(t), oo)
  OBVIOUS
<1> DEFINE q == SubSeq(p, n + 1, Len(p))
           m == Len(b) + 1
           c == p[n + 1]
           InStep == Synced(q, live, Kept(t), oo)
<1>p. Running(p, 1) /\ Newlines(b) = {} /\ t = b \o SubSeq(p, 1, n)
  BY <1>0
<1>1. /\ t \in Seq(Chars) /\ Running(t, m)
      /\ \A k \in 1..Len(b) : t[k] = b[k] /\ ~IsNewline(t[k])
      /\ \A k \in 1..n : t[Len(b) + k] = p[k]
  <2>0. t \in Seq(Chars)
    BY <1>p, TextIs
  <2>1. Running(t, Len(b) + 1)
    BY <1>p, TextIs
  <2>2. \A k \in 1..Len(b) : t[k] = b[k] /\ ~IsNewline(t[k])
    BY <1>p, TextIs
  <2>3. \A k \in 1..n : t[Len(b) + k] = p[k]
    BY <1>p, TextIs
  <2>4. QED
    BY <2>0, <2>1, <2>2, <2>3
<1>a. Len(t) = Len(b) + n
  BY <1>p, TextIs
<1>n. /\ Len(t) = Len(b) + n /\ Len(b) \in Nat /\ Len(p) \in Nat /\ n \in Nat \ {0} /\ n <= Len(p)
      /\ m \in 1..Len(t) /\ m \in Nat \ {0} /\ MaxLine \in Nat /\ m = Len(b) + 1
  <2>1. Len(b) \in Nat /\ Len(p) \in Nat /\ n \in Nat \ {0} /\ n <= Len(p)
    BY LenProperties
  <2>2. QED
    BY <1>a, <2>1, ChannelAssumption
<1>2. PICK z \in 0..Len(t) :
           /\ z = 0 <=> Newlines(t) = {}
           /\ z # 0 => z >= m /\ IsNewline(t[z])
           /\ \A j \in (z + 1)..Len(t) : ~IsNewline(t[j])
           /\ Rest(t) \in Seq(Chars) /\ Len(Rest(t)) = Len(t) - z
           /\ \A k \in 1..(Len(t) - z) : Rest(t)[k] = t[z + k]
  <2>1. \A j \in 1..(m - 1) : ~IsNewline(t[j])
    <3>1. m - 1 = Len(b)
      BY <1>n
    <3>2. QED
      BY <1>1, <3>1
  <2>2. m \in 1..Len(t) /\ t \in Seq(Chars) /\ Running(t, m)
    BY <1>1, <1>n
  <2> HIDE DEF m
  <2>3. QED
    BY <2>1, <2>2, RestIs
<1>z. /\ z \in Nat /\ z <= Len(t) /\ z # 0 => z >= m
      /\ Len(Rest(t)) = Len(t) - z /\ Len(Rest(t)) = (Len(b) + n) - z
  BY <1>2, <1>n
<1>r. \A k \in 1..Len(Rest(t)) : Rest(t)[k] = t[z + k]
  BY <1>2
<1>3. ASSUME n = Len(p) PROVE InStep
  <2>1. q = <<>>
    BY <1>n, <1>3, SubSeqEmpty
  <2>2. ASSUME live PROVE Kept(t) = <<>> /\ ~oo
    <3>1. IsNewline(t[Len(t)])
      <4>1. n \in 1..n
        BY <1>n
      <4>2. t[Len(b) + n] = p[n]
        BY <1>1, <4>1
      <4>3. QED
        BY <1>0, <1>a, <1>3, <2>2, <4>2
    <3>2. z = Len(t)
      <4>1. z < Len(t) => Len(t) \in (z + 1)..Len(t)
        BY <1>n, <1>z
      <4>2. ~(z < Len(t))
        BY <1>2, <3>1, <4>1
      <4>3. QED
        BY <1>n, <1>z, <4>2
    <3>3. Len(Rest(t)) = 0 /\ z # 0 /\ ~(Len(Rest(t)) > MaxLine)
      BY <1>n, <1>z, <3>2
    <3>4. Rest(t) = <<>> /\ Newlines(t) # {}
      BY <1>2, <3>3, EmptySeq
    <3>5. QED
      BY <1>0, <3>3, <3>4 DEF Kept
  <2>3. QED
    BY <2>1, <2>2 DEF Synced
<1>4. ASSUME n # Len(p) PROVE InStep
  <2>n. n \in 1..(Len(p) - 1) /\ n + 1 \in 1..Len(p) /\ n + 1 <= Len(p)
    BY <1>n, <1>4
  <2>1. q # <<>> /\ q[1] = c
    <3>1. \A k \in (n + 1)..Len(p) : p[k] \in Chars
      BY <1>n, ElementOfSeq
    <3>2. /\ Len(q) = IF n + 1 <= Len(p) THEN Len(p) - (n + 1) + 1 ELSE 0
          /\ \A k \in 1..(Len(p) - (n + 1) + 1) : q[k] = p[(n + 1) + k - 1]
      BY <1>n, <3>1, SubSeqProperties
    <3>3. /\ Len(p) - (n + 1) + 1 >= 1 /\ 1 \in 1..(Len(p) - (n + 1) + 1)
          /\ (n + 1) + 1 - 1 = n + 1
      BY <1>n, <2>n
    <3>4. Len(q) # 0 /\ q[1] = p[n + 1]
      BY <2>n, <3>2, <3>3
    <3>5. q # <<>>
      BY <3>4, EmptySeq
    <3>6. QED
      BY <3>4, <3>5
  <2> HIDE DEF q, c, m
  <2>o. ASSUME oo, c.at > 1, c.len > MaxLine
        PROVE  InStep
    BY <2>1, <2>o DEF Synced
  \* The next line is in the rest from its start.
  <2> DEFINE Begun == Len(Rest(t)) = c.at - 1 /\ \A k \in 1..Len(Rest(t)) : Rest(t)[k] = At(c, k)
  <2>2. ASSUME Begun, c \in Chars, z # 0 \/ ~o
        PROVE  InStep
    <3>1. c.at \in Nat \ {0} /\ c.len \in Nat \ {0} /\ c.at <= c.len + 1
      BY <2>2, CharFields
    <3>2. oo <=> Len(Rest(t)) > MaxLine
      BY <1>0, <1>2, <2>2
    <3>3. CASE oo
      <4>1. Len(Rest(t)) > MaxLine /\ Len(Rest(t)) = c.at - 1
        BY <2>2, <3>2, <3>3
      <4>2. c.at > 1 /\ c.len > MaxLine
        BY <1>n, <3>1, <4>1
      <4>3. QED
        BY <2>o, <3>3, <4>2
    <3>4. CASE ~oo
      <4>1. Kept(t) = Rest(t)
        BY <3>2, <3>4 DEF Kept
      <4>2. QED
        BY <2>1, <2>2, <3>4, <4>1 DEF Synced
    <3>5. QED
      BY <3>3, <3>4
  <2> HIDE DEF InStep
  <2>3. ASSUME z # 0 PROVE InStep
    <3> DEFINE y == z - Len(b)
    <3>1. /\ y \in 1..n /\ Len(b) + y = z /\ Len(t) - z = n - y /\ y \in 0..n /\ y # 0
      BY <1>n, <1>z, <2>3
    <3>2. IsNewline(p[y])
      BY <1>1, <1>2, <2>3, <3>1
    <3> HIDE DEF y
    <3>3. ASSUME NEW j \in (y + 1)..n PROVE ~IsNewline(p[j])
      <4>1. Len(b) + j \in (z + 1)..Len(t) /\ j \in 1..n
        BY <1>n, <3>1
      <4>2. t[Len(b) + j] = p[j]
        BY <1>1, <4>1
      <4>3. QED
        BY <1>2, <4>1, <4>2
    <3>4. /\ c \in Chars /\ c.at = (n - y) + 1
          /\ \A k \in (y + 1)..n : p[k] = At(c, c.at - ((n + 1) - k))
      BY <1>0, <2>n, <3>1, <3>2, <3>3, NextChar DEF c
    <3>5. c.at = (n - y) + 1
      BY <3>4
    <3>6. Len(Rest(t)) = n - y /\ Len(Rest(t)) = c.at - 1 /\ n - y \in Nat
      <4>1. Len(Rest(t)) = n - y
        BY <1>z, <3>1
      <4>2. (n - y) + 1 - 1 = n - y /\ n - y \in Nat
        BY <1>n, <3>1
      <4>3. QED
        BY <3>5, <4>1, <4>2
    <3>6a. c \in Chars
      BY <3>4
    <3>7. ASSUME NEW k \in 1..Len(Rest(t)) PROVE Rest(t)[k] = At(c, k)
      <4>1. /\ y + k \in (y + 1)..n /\ y + k \in 1..n /\ Len(b) + (y + k) = z + k
        <5>1. k \in 1..(n - y)
          BY <3>6
        <5>2. QED
          BY <1>n, <3>1, <5>1
      <4>2. c.at - ((n + 1) - (y + k)) = k
        <5>1. (n + 1) - (y + k) = c.at - k
          BY <1>n, <3>1, <3>5, <3>6
        <5>2. c.at - (c.at - k) = k
          BY <1>n, <3>1, <3>5, <3>6
        <5>3. QED
          BY <5>1, <5>2
      <4>3. Rest(t)[k] = t[z + k]
        BY <1>r
      <4>4. t[Len(b) + (y + k)] = p[y + k]
        BY <1>1, <4>1
      <4>5. p[y + k] = At(c, c.at - ((n + 1) - (y + k)))
        BY <3>4, <4>1
      <4>6. QED
        BY <4>1, <4>2, <4>3, <4>4, <4>5
    <3>8. Begun
      BY <3>6, <3>7
    <3> HIDE DEF Begun
    <3>9. QED
      BY <2>2, <2>3, <3>6a, <3>8
  <2>4. ASSUME z = 0 PROVE InStep
    <3>1. Newlines(t) = {} /\ Synced(p, live, b, o)
      BY <1>0, <1>2, <2>4
    <3>1a. p # <<>>
      BY <1>n, EmptySeq
    <3>2. ASSUME NEW j \in (0 + 1)..n PROVE ~IsNewline(p[j])
      <4>1. Len(b) + j \in 1..Len(t) /\ j \in 1..n
        BY <1>n
      <4>2. t[Len(b) + j] = p[j]
        BY <1>1, <4>1
      <4>3. QED
        BY <3>1, <4>1, <4>2 DEF Newlines
    <3>3. /\ c \in Chars /\ c.at > n - 0
          /\ \A k \in (0 + 1)..n : p[k] = At(c, c.at - ((n + 1) - k))
      <4>1. 0 \in 0..n
        BY <1>n
      <4>2. QED
        BY <1>0, <2>n, <3>2, <4>1, NextChar DEF c
    <3>4. c.at > n /\ c.at \in Nat \ {0} /\ c.len \in Nat \ {0} /\ c.at <= c.len + 1
      <4>1. c.at \in Nat \ {0} /\ c.len \in Nat \ {0} /\ c.at <= c.len + 1 /\ c.at > n - 0
        BY <3>3, CharFields
      <4>2. QED
        BY <1>n, <4>1
    <3>5. /\ c.at - n \in 1..(c.len + 1) /\ c.at - ((n + 1) - 1) = c.at - n
          /\ 1 \in (0 + 1)..n
      BY <1>n, <3>4
    <3>6. p[1] = At(c, c.at - n)
      BY <3>3, <3>5
    <3>7. /\ p[1].at = c.at - n /\ p[1].len = c.len
          /\ \A k : At(p[1], k) = At(c, k)
      <4>1. c \in Chars
        BY <3>3
      <4>2. QED
        BY <3>5, <3>6, <4>1, CharFields
    <3>7n. p[1].at = c.at - n /\ p[1].len = c.len
      BY <3>7
    <3>8. ASSUME o PROVE InStep
      <4>1. p[1].len > MaxLine /\ oo
        BY <1>0, <3>1, <3>1a, <3>8 DEF Synced
      <4>2. c.at > 1 /\ c.len > MaxLine
        BY <1>n, <3>4, <3>7n, <4>1
      <4>3. QED
        BY <2>o, <4>1, <4>2
    <3>9. ASSUME ~o PROVE InStep
      <4>1. Len(b) = p[1].at - 1 /\ \A k \in 1..Len(b) : b[k] = At(p[1], k)
        BY <3>1, <3>1a, <3>9 DEF Synced
      <4>n. Len(b) = p[1].at - 1
        BY <4>1
      <4>2. Len(Rest(t)) = c.at - 1 /\ Len(Rest(t)) = Len(b) + n /\ Len(b) = (c.at - n) - 1
        BY <1>n, <1>z, <2>4, <3>4, <3>7n, <4>n
      <4>3. ASSUME NEW k \in 1..Len(Rest(t)) PROVE Rest(t)[k] = At(c, k)
        <5>n. k \in Nat \ {0} /\ k <= Len(b) + n /\ z + k = k
          BY <1>n, <2>4, <4>2
        <5>1. Rest(t)[k] = t[k]
          BY <1>r, <5>n
        <5>2. CASE k <= Len(b)
          <6>1. k \in 1..Len(b)
            BY <1>n, <5>n, <5>2
          <6>2. t[k] = b[k] /\ b[k] = At(p[1], k)
            BY <1>1, <4>1, <6>1
          <6>3. QED
            BY <3>7, <5>1, <6>2
        <5>3. CASE k > Len(b)
          <6> DEFINE j == k - Len(b)
          <6>1. j \in 1..n /\ j \in (0 + 1)..n /\ Len(b) + j = k
            BY <1>n, <5>n, <5>3
          <6>2. c.at - ((n + 1) - j) = k
            <7>1. (n + 1) - j = c.at - k
              <8>1. c.at \in Int /\ n \in Int /\ k \in Int /\ Len(b) \in Int
                    /\ c.at = Len(b) + n + 1
                BY <1>n, <3>4, <4>2, <5>n
              <8>2. (n + 1) - (k - Len(b)) = (Len(b) + n + 1) - k
                BY <8>1
              <8>3. QED
                BY <8>1, <8>2
            <7>2. c.at - (c.at - k) = k
              BY <3>4, <5>n
            <7>3. QED
              BY <7>1, <7>2
          <6> HIDE DEF j
          <6>3. t[k] = p[j]
            BY <1>1, <6>1
          <6>4. p[j] = At(c, c.at - ((n + 1) - j))
            BY <3>3, <6>1
          <6>5. QED
            BY <5>1, <6>2, <6>3, <6>4
        <5>4. QED
          BY <1>n, <5>n, <5>2, <5>3
      <4>4. Begun
        BY <4>2, <4>3
      <4>5. c \in Chars
        BY <3>3
      <4> HIDE DEF Begun
      <4>6. QED
        BY <2>2, <3>9, <4>4, <4>5
    <3>10. QED
      BY <3>8, <3>9
  <2>5. QED
    BY <2>3, <2>4
<1>5. InStep
  BY <1>3, <1>4
<1>6. QED
  BY <1>5

\* A line whose first character is in the chunk, after another line or at the start of a
\* text in step, is handed over as itself unless it is too long.
LEMMA Reads ==
  ASSUME NEW t \in Seq(Chars), NEW m \in Nat \ {0}, Running(t, m),
         NEW i \in m..Len(t), IsNewline(t[i]),
         Before(t, i) = i - t[i].at, Before(t, i) >= m - 1,
         ~(overlong /\ Before(t, i) = 0)
  PROVE  /\ Accepts(t, i) <=> t[i].len <= MaxLine
         /\ Raw(t, i)[1] = At(t[i], 1)
<1>1. /\ Len(Raw(t, i)) = t[i].len /\ Raw(t, i) # <<>> /\ Parses(Raw(t, i))
      /\ Raw(t, i)[1] = At(t[i], 1)
  BY LineRead
<1>2. QED
  BY <1>1 DEF Accepts

\* The text in step, when nothing was dropped: it starts with the start of a line.
LEMMA WholeText ==
  ASSUME NEW p \in Seq(Chars), NEW n \in 1..Len(p), NEW b \in Seq(Chars), NEW live, NEW t
  PROVE  /\ Running(p, 1) /\ Newlines(b) = {} /\ t = b \o SubSeq(p, 1, n)
         /\ Synced(p, live, b, FALSE)
         => Running(t, 1) /\ \A i \in 1..Len(t) : t[i].at <= i
<1>0. SUFFICES ASSUME Running(p, 1), Newlines(b) = {}, t = b \o SubSeq(p, 1, n),
                      Synced(p, live, b, FALSE)
               PROVE  Running(t, 1) /\ \A i \in 1..Len(t) : t[i].at <= i
  OBVIOUS
<1> DEFINE c == p[1]
           m == Len(b) + 1
<1>p. Running(p, 1) /\ Newlines(b) = {} /\ t = b \o SubSeq(p, 1, n)
  BY <1>0
<1>1. /\ t \in Seq(Chars) /\ Running(t, m)
      /\ \A k \in 1..Len(b) : t[k] = b[k]
      /\ \A k \in 1..n : t[Len(b) + k] = p[k]
      /\ Len(t) = Len(b) + n
  <2>0. t \in Seq(Chars) /\ Len(t) = Len(b) + n
    BY <1>p, TextIs
  <2>1. Running(t, Len(b) + 1)
    BY <1>p, TextIs
  <2>2. \A k \in 1..Len(b) : t[k] = b[k]
    BY <1>p, TextIs
  <2>3. \A k \in 1..n : t[Len(b) + k] = p[k]
    BY <1>p, TextIs
  <2>4. QED
    BY <2>0, <2>1, <2>2, <2>3
<1>n. /\ Len(t) = Len(b) + n /\ Len(b) \in Nat /\ n \in Nat \ {0} /\ m \in 1..Len(t)
      /\ m = Len(b) + 1 /\ m \in Nat /\ Len(t) \in Nat
  <2>1. Len(b) \in Nat /\ n \in Nat \ {0}
    BY LenProperties
  <2>2. Len(t) = Len(b) + n
    BY <1>1
  <2>3. QED
    BY <2>1, <2>2
<1>c. /\ c \in Chars /\ c.at \in Nat \ {0} /\ c.len \in Nat \ {0} /\ c.at <= c.len + 1
      /\ p # <<>>
  <2>1. 1 \in 1..Len(p)
    BY LenProperties
  <2>2. p # <<>>
    BY <2>1, EmptySeq
  <2>3. QED
    BY <2>1, <2>2, ElementOfSeq, CharFields
<1>2. Len(b) = c.at - 1 /\ \A k \in 1..Len(b) : b[k] = At(c, k)
  BY <1>0, <1>c DEF Synced
<1>2n. m = c.at
  <2>1. Len(b) = c.at - 1
    BY <1>2
  <2>2. QED
    BY <1>n, <1>c, <2>1
<1>3. t[m] = c
  <2>1. 1 \in 1..n
    BY <1>n
  <2>2. QED
    BY <1>1, <2>1
<1> HIDE DEF c, m
\* Every place of the buffer holds that character of the first line.
<1>4. ASSUME NEW k \in 1..(m - 1) PROVE t[k] = At(c, k) /\ t[k].at = k
  <2>1. k \in 1..Len(b) /\ k \in 1..(c.len + 1)
    BY <1>n, <1>c, <1>2n
  <2>2. t[k] = At(c, k)
    BY <1>1, <1>2, <2>1
  <2>3. QED
    BY <1>c, <2>1, <2>2, CharFields
\* So do those of the chunk, as far as the line goes.
<1>5. ASSUME NEW j \in m..Len(t), t[j].at > j - m
      PROVE  t[j].at = j /\ \A k : At(t[j], k) = At(c, k)
  <2>1. t[j] \in Chars /\ t[j].at \in Nat \ {0} /\ t[j].len \in Nat \ {0} /\ t[j].at <= t[j].len + 1
    <3>1. j \in 1..Len(t) /\ t \in Seq(Chars)
      BY <1>1, <1>n
    <3>2. QED
      BY <3>1, ElementOfSeq, CharFields
  <2>2. m \in m..Len(t) /\ m <= j /\ j - m < t[j].at
    BY <1>n, <1>5, <2>1
  <2>3. c = At(t[j], t[j].at - (j - m))
    BY <1>1, <1>3, <2>2 DEF Running
  <2>4. t[j].at - (j - m) \in 1..(t[j].len + 1)
    BY <1>n, <2>1, <2>2
  <2>5. c.at = t[j].at - (j - m) /\ \A k : At(c, k) = At(t[j], k)
    BY <2>1, <2>3, <2>4, CharFields
  <2>6. c.at = t[j].at - (j - m)
    BY <2>5
  <2>7. t[j].at = j
    <3>1. t[j].at = c.at + (j - m)
      BY <1>n, <1>c, <2>1, <2>6
    <3>2. m + (j - m) = j
      BY <1>n
    <3>3. QED
      BY <1>2n, <3>1, <3>2
  <2>8. QED
    BY <2>5, <2>7
<1>6. ASSUME NEW i \in 1..Len(t), NEW j \in 1..Len(t), i <= j, j - i < t[j].at
      PROVE  t[i] = At(t[j], t[j].at - (j - i))
  <2>n. i \in Nat /\ j \in Nat /\ i <= j /\ j - i < t[j].at /\ i >= 1
    BY <1>6
  <2>1. CASE i >= m
    <3>1. i \in m..Len(t) /\ j \in m..Len(t)
      BY <1>n, <2>n, <2>1
    <3>2. QED
      BY <1>1, <2>n, <3>1 DEF Running
  <2>2. CASE i < m /\ j < m
    <3>1. i \in 1..(m - 1) /\ j \in 1..(m - 1) /\ j \in 1..(c.len + 1)
      BY <1>n, <1>c, <1>2n, <2>n, <2>2
    <3>2. t[i] = At(c, i) /\ t[j] = At(c, j) /\ t[j].at = j
      BY <1>4, <3>1
    <3>3. At(t[j], i) = At(c, i)
      BY <1>c, <3>1, <3>2, CharFields
    <3>4. j - (j - i) = i
      BY <2>n
    <3>5. QED
      BY <3>2, <3>3, <3>4
  <2>3. CASE i < m /\ j >= m
    <3>1. i \in 1..(m - 1) /\ j \in m..Len(t)
      BY <1>n, <2>n, <2>3
    <3>2. t[j].at > j - m
      <4>1. t[j].at \in Nat
        <5>1. t[j] \in Chars
          BY <1>1, ElementOfSeq
        <5>2. QED
          BY <5>1, CharFields
      <4>2. QED
        BY <1>n, <2>n, <2>3, <4>1
    <3>3. t[j].at = j /\ At(t[j], i) = At(c, i)
      BY <1>5, <3>1, <3>2
    <3>4. t[i] = At(c, i)
      BY <1>4, <3>1
    <3>5. j - (j - i) = i
      BY <2>n
    <3>6. QED
      BY <3>3, <3>4, <3>5
  <2>4. QED
    BY <1>n, <2>n, <2>1, <2>2, <2>3
<1>7. ASSUME NEW j \in 1..Len(t)
      PROVE  t[j].at <= j /\ (j - 1 >= t[j].at => IsNewline(t[j - t[j].at]))
  <2>n. t[j].at \in Nat \ {0} /\ j \in Nat /\ j >= 1 /\ j <= Len(t)
    <3>1. t[j] \in Chars
      BY <1>1, ElementOfSeq
    <3>2. QED
      BY <1>n, <3>1, CharFields
  <2>1. CASE j < m
    <3>1. j \in 1..(m - 1)
      BY <1>n, <2>n, <2>1
    <3>2. t[j].at = j
      BY <1>4, <3>1
    <3>3. QED
      BY <2>n, <3>2
  <2>2. CASE j >= m /\ t[j].at > j - m
    <3>1. j \in m..Len(t)
      BY <1>n, <2>n, <2>2
    <3>2. t[j].at = j
      BY <1>5, <2>2, <3>1
    <3>3. QED
      BY <2>n, <3>2
  <2>3. CASE j >= m /\ t[j].at <= j - m
    <3>1. j \in m..Len(t) /\ j - m >= t[j].at /\ t[j].at <= j
      BY <1>n, <2>n, <2>3
    <3>2. IsNewline(t[j - t[j].at])
      BY <1>1, <3>1 DEF Running
    <3>3. QED
      BY <3>1, <3>2
  <2>4. QED
    BY <1>n, <2>n, <2>1, <2>2, <2>3
<1>8. Running(t, 1)
  BY <1>6, <1>7 DEF Running
<1>9. QED
  BY <1>7, <1>8

\* The line that ends at i is handed over as itself, unless it is too long.
ReadRight(t, i) ==
  /\ Accepts(t, i) <=> t[i].len <= MaxLine
  /\ Accepts(t, i) => Raw(t, i)[1] = At(t[i], 1)

\* In step, that goes for every line that ends in the chunk.
LEMMA InStepReads ==
  ASSUME NEW p \in Seq(Chars), NEW n \in 1..Len(p), NEW live, NEW t, NEW i \in Newlines(t),
         buffer \in Seq(Chars), overlong \in BOOLEAN
  PROVE  /\ Running(p, 1) /\ Newlines(buffer) = {} /\ t = buffer \o SubSeq(p, 1, n)
         /\ Synced(p, live, buffer, overlong)
         => ReadRight(t, i)
<1>0. SUFFICES ASSUME Running(p, 1), Newlines(buffer) = {}, t = buffer \o SubSeq(p, 1, n),
                      Synced(p, live, buffer, overlong)
               PROVE  /\ Accepts(t, i) <=> t[i].len <= MaxLine
                      /\ Accepts(t, i) => Raw(t, i)[1] = At(t[i], 1)
  BY DEF ReadRight
<1> DEFINE m == Len(buffer) + 1
<1>p. Running(p, 1) /\ Newlines(buffer) = {} /\ t = buffer \o SubSeq(p, 1, n)
  BY <1>0
<1>1. /\ t \in Seq(Chars) /\ Running(t, m)
      /\ \A k \in 1..Len(buffer) : ~IsNewline(t[k])
      /\ \A k \in 1..n : t[Len(buffer) + k] = p[k]
      /\ Len(t) = Len(buffer) + n
  <2>0. t \in Seq(Chars) /\ Len(t) = Len(buffer) + n
    BY <1>p, TextIs
  <2>1. Running(t, Len(buffer) + 1)
    BY <1>p, TextIs
  <2>2. \A k \in 1..Len(buffer) : ~IsNewline(t[k])
    BY <1>p, TextIs
  <2>3. \A k \in 1..n : t[Len(buffer) + k] = p[k]
    BY <1>p, TextIs
  <2>4. QED
    BY <2>0, <2>1, <2>2, <2>3
<1>n. /\ Len(t) = Len(buffer) + n /\ Len(buffer) \in Nat /\ n \in Nat \ {0} /\ m \in 1..Len(t)
      /\ m = Len(buffer) + 1 /\ m \in Nat \ {0} /\ Len(t) \in Nat /\ MaxLine \in Nat
  <2>1. Len(buffer) \in Nat /\ n \in Nat \ {0}
    BY LenProperties
  <2>2. Len(t) = Len(buffer) + n
    BY <1>1
  <2>3. QED
    BY <2>1, <2>2, ChannelAssumption
<1>i. IsNewline(t[i]) /\ i \in 1..Len(t) /\ t[i] \in Chars
  BY <1>1, ElementOfSeq DEF Newlines
<1>j. /\ t[i].at \in Nat \ {0} /\ t[i].len \in Nat \ {0} /\ t[i].at = t[i].len + 1 /\ i \in Nat
      /\ i >= 1 /\ i <= Len(t)
  BY <1>n, <1>i, CharFields DEF IsNewline
<1>2. CASE ~overlong
  <2>1. Synced(p, live, buffer, FALSE)
    BY <1>0, <1>2 DEF Synced
  <2>2. Running(t, 1) /\ t[i].at <= i
    BY <1>p, <1>i, <2>1, WholeText
  <2>3. Before(t, i) = i - t[i].at
    <3>1. CASE t[i].at = i
      <4>1. /\ i \in 1..Len(t) /\ t[i].at > i - 1 /\ i - t[i].at = 0 /\ 1 \in Nat \ {0}
            /\ \A j \in 1..(1 - 1) : ~IsNewline(t[j])
        BY <1>j, <3>1
      <4>2. Before(t, i) = 0
        BY <1>1, <2>2, <4>1, BeforeFirst
      <4>3. QED
        BY <4>1, <4>2
    <3>2. CASE t[i].at < i
      <4>1. i \in 1..Len(t) /\ i - t[i].at >= 1 /\ 1 \in Nat \ {0}
        BY <1>j, <3>2
      <4>2. QED
        BY <1>1, <2>2, <4>1, BeforeLine
    <3>3. QED
      BY <1>j, <2>2, <3>1, <3>2
  <2>4. Before(t, i) >= 1 - 1 /\ 1 \in Nat \ {0}
    BY <1>j, <2>2, <2>3
  <2>5. QED
    BY <1>1, <1>2, <1>i, <2>2, <2>3, <2>4, Reads
<1>3. CASE overlong
  <2>1. i \in m..Len(t)
    <3>1. i \notin 1..Len(buffer)
      BY <1>1, <1>i
    <3>2. QED
      BY <1>n, <1>j, <3>1
  <2>2. CASE i - t[i].at >= m
    <3>1. Before(t, i) = i - t[i].at
      BY <1>1, <1>n, <2>1, <2>2, BeforeLine
    <3>2. Before(t, i) >= m - 1 /\ Before(t, i) # 0
      BY <1>n, <1>j, <2>2, <3>1
    <3>3. QED
      BY <1>1, <1>n, <1>i, <2>1, <3>1, <3>2, Reads
  <2>3. CASE i - t[i].at < m
    <3> DEFINE c == p[1]
    <3>1. c.at > 1 /\ c.len > MaxLine /\ t[m] = c
      <4>1. p # <<>> /\ 1 \in 1..n
        BY <1>n, EmptySeq, LenProperties
      <4>2. QED
        BY <1>0, <1>1, <1>3, <4>1 DEF Synced
    <3>2. t[i].at > i - m /\ m \in m..Len(t) /\ m <= i /\ i - m < t[i].at
      BY <1>n, <1>j, <2>1, <2>3
    <3>3. c = At(t[i], t[i].at - (i - m))
      BY <1>1, <2>1, <3>1, <3>2 DEF Running
    <3>4. t[i].at - (i - m) \in 1..(t[i].len + 1)
      BY <1>n, <1>j, <3>2
    <3>5. t[i].len > MaxLine
      BY <1>i, <3>1, <3>3, <3>4, CharFields
    <3>6. Before(t, i) = 0
      <4>1. \A j \in 1..(m - 1) : ~IsNewline(t[j])
        BY <1>1, <1>n
      <4>2. QED
        BY <1>1, <1>n, <2>1, <3>2, <4>1, BeforeFirst
    <3>7. ~Accepts(t, i)
      BY <1>3, <3>6 DEF Accepts
    <3>8. ~(t[i].len <= MaxLine)
      BY <1>n, <1>j, <3>5
    <3>9. QED
      BY <3>7, <3>8
  <2>4. QED
    BY <1>n, <1>j, <2>2, <2>3
<1>4. QED
  BY <1>2, <1>3

\* So push returns the lines that are due, and nothing else.
LEMMA InStepFrames ==
  ASSUME NEW t, \A i \in Newlines(t) : ReadRight(t, i)
  PROVE  /\ Missed(t) = {}
         /\ Frames(t) = [i \in Due(t) |-> At(t[i], 1)]
<1>1. {j \in Newlines(t) : Accepts(t, j)} = Due(t)
  BY DEF Due, ReadRight
<1>2. Frames(t) = [i \in Due(t) |-> Raw(t, i)[1]]
  BY <1>1 DEF Frames
<1>3. \A i \in Due(t) : Accepts(t, i) /\ Raw(t, i)[1] = At(t[i], 1)
  BY DEF Due, ReadRight
<1>4. Frames(t) = [i \in Due(t) |-> At(t[i], 1)]
  BY <1>2, <1>3
<1>5. Missed(t) = {}
  BY <1>2, <1>3 DEF Missed
<1>6. QED
  BY <1>4, <1>5

\* Out of step, the first line that ends in the chunk may be missed, and no other.
LEMMA OneMissed ==
  ASSUME NEW p \in Seq(Chars), NEW n \in 1..Len(p), NEW t, buffer \in Seq(Chars)
  PROVE  Running(p, 1) /\ Newlines(buffer) = {} /\ t = buffer \o SubSeq(p, 1, n)
         => \/ Missed(t) = {} /\ Cardinality(Missed(t)) = 0
            \/ Newlines(t) # {} /\ Cardinality(Missed(t)) = 1
<1>0. SUFFICES ASSUME Running(p, 1), Newlines(buffer) = {}, t = buffer \o SubSeq(p, 1, n)
               PROVE  \/ Missed(t) = {} /\ Cardinality(Missed(t)) = 0
                      \/ Newlines(t) # {} /\ Cardinality(Missed(t)) = 1
  OBVIOUS
<1> DEFINE m == Len(buffer) + 1
<1>1. /\ t \in Seq(Chars) /\ Running(t, m)
      /\ \A k \in 1..Len(buffer) : ~IsNewline(t[k])
      /\ Len(t) = Len(buffer) + n
  <2>0. t \in Seq(Chars) /\ Len(t) = Len(buffer) + n
    BY <1>0, TextIs
  <2>1. Running(t, Len(buffer) + 1)
    BY <1>0, TextIs
  <2>2. \A k \in 1..Len(buffer) : ~IsNewline(t[k])
    BY <1>0, TextIs
  <2>3. QED
    BY <2>0, <2>1, <2>2
<1>n. Len(buffer) \in Nat /\ n \in Nat \ {0} /\ m = Len(buffer) + 1 /\ m \in Nat \ {0}
  BY LenProperties
<1> HIDE DEF m
<1>2. ASSUME NEW i \in Missed(t)
      PROVE  /\ i \in m..Len(t) /\ IsNewline(t[i]) /\ i \in Newlines(t)
             /\ t[i].at > i - m
  <2>1. i \in Newlines(t) /\ i \in Due(t) /\ i \in 1..Len(t) /\ IsNewline(t[i]) /\ i \in Nat
    BY <1>1, LenProperties DEF Missed, Due, Newlines
  <2>2. i \in m..Len(t)
    <3>1. i \notin 1..Len(buffer)
      BY <1>1, <2>1
    <3>2. QED
      BY <1>n, <2>1, <3>1
  <2>3. t[i].at \in Nat
    BY <1>1, <2>1, ElementOfSeq, CharFields
  <2>4. ASSUME i - t[i].at >= m PROVE FALSE
    <3>1. Before(t, i) = i - t[i].at
      BY <1>1, <1>n, <2>2, <2>4, BeforeLine
    <3>2. Before(t, i) >= m - 1 /\ Before(t, i) # 0
      BY <1>n, <2>1, <2>3, <2>4, <3>1
    <3>3. (Accepts(t, i) <=> t[i].len <= MaxLine) /\ Raw(t, i)[1] = At(t[i], 1)
      BY <1>1, <1>n, <2>1, <2>2, <3>1, <3>2, Reads
    <3>4. Accepts(t, i)
      BY <2>1, <3>3 DEF Due
    <3>5. Frames(t)[i] = Raw(t, i)[1]
      BY <2>1, <3>4 DEF Frames
    <3>6. QED
      BY <3>3, <3>4, <3>5 DEF Missed
  <2>5. t[i].at > i - m
    BY <1>n, <2>1, <2>3, <2>4
  <2>6. QED
    BY <2>1, <2>2, <2>5
<1>3. ASSUME NEW i \in Missed(t), NEW j \in Missed(t), i < j PROVE FALSE
  <2>1. /\ i \in m..Len(t) /\ IsNewline(t[i])
        /\ j \in m..Len(t) /\ t[j].at > j - m /\ t[j] \in Chars
    <3>1. /\ i \in m..Len(t) /\ IsNewline(t[i])
          /\ j \in m..Len(t) /\ t[j].at > j - m
      BY <1>2
    <3>2. j \in 1..Len(t)
      BY <1>n, <3>1
    <3>3. QED
      BY <1>1, <3>1, <3>2, ElementOfSeq
  <2>2. t[j].at \in Nat
    BY <2>1, CharFields
  <2>3. i \in m..(j - 1) /\ j - i < t[j].at
    BY <1>3, <1>n, <2>1, <2>2
  <2>4. QED
    BY <1>1, <1>n, <2>1, <2>3, NoneWithin
<1>4. \A i \in Missed(t) : i \in Int
  BY <1>2
<1>5. CASE Missed(t) = {}
  BY <1>5, FS_EmptySet
<1>6. CASE Missed(t) # {}
  <2>1. PICK i \in Missed(t) : TRUE
    BY <1>6
  <2>2. Missed(t) = {i}
    <3>1. ASSUME NEW j \in Missed(t) PROVE j = i
      <4>1. ~(i < j) /\ ~(j < i)
        BY <1>3
      <4>2. QED
        BY <1>4, <4>1
    <3>2. QED
      BY <3>1
  <2>3. Cardinality(Missed(t)) = 1
    BY <2>2, FS_Singleton
  <2>4. QED
    BY <1>2, <2>1, <2>3
<1>7. QED
  BY <1>5, <1>6

-----------------------------------------------------------------------------
(***************************************************************************)
(* The parser, shared by the sessions, and the helpers that write to it.   *)
(***************************************************************************)

\* What session s has written and nobody read: it ends in the middle of a line only
\* when s has died.
StreamOK(s) ==
  /\ Running(pipe[s], 1)
  /\ child[s] = "alive" /\ pipe[s] # <<>> => IsNewline(pipe[s][Len(pipe[s])])
  /\ child[s] = "none" => pipe[s] = <<>>

ChanOK ==
  /\ pipe \in [Sessions -> Seq(Chars)]
  /\ buffer \in Seq(Chars) /\ Len(buffer) <= MaxLine /\ Newlines(buffer) = {}
  /\ overlong \in BOOLEAN
  /\ written \in 0..MaxLines /\ late \in Nat /\ lost \in Nat
  /\ errors \in 0..MaxErrors /\ chatty \in BOOLEAN

InSync == Synced(pipe[spawned], child[spawned] = "alive", buffer, overlong)

\* A late chunk may cost the line that is on its way, no other, and then the parser is
\* in step again.
LossOK ==
  /\ lost <= late
  /\ spawned # 0 /\ ~InSync => lost < late

ParserInv == ChildInv /\ ChanOK /\ (\A s \in Sessions : StreamOK(s)) /\ LossOK

\* A stream grows by a line, or by the start of one.
LEMMA Grows ==
  ASSUME NEW p \in Seq(Chars), NEW c \in Chars, NEW q \in Seq(Chars), q # <<>>,
         Len(q) <= c.len + 1, \A j \in 1..Len(q) : q[j] = At(c, j),
         p # <<>> => IsNewline(p[Len(p)]), NEW r, r = p \o q
  PROVE  /\ r \in Seq(Chars) /\ r # <<>> /\ Len(r) > 0
         /\ r[Len(r)] = q[Len(q)]
         /\ IF p = <<>> THEN r[1] = At(c, 1) ELSE r[1] = p[1]
         /\ Running(p, 1) => Running(r, 1)
<1> DEFINE P == Len(p)
           Q == Len(q)
<1>1. P \in Nat /\ Q \in Nat /\ Q > 0 /\ (p # <<>> => P > 0) /\ (p = <<>> => P = 0)
  BY LenProperties, EmptySeq
<1>2. r \in Seq(Chars) /\ Len(r) = P + Q
  BY ConcatProperties
<1>3. \A i \in 1..P : r[i] = p[i]
  BY <1>2, ConcatProperties
<1>4. ASSUME NEW i \in (P + 1)..(P + Q) PROVE r[i] = q[i - P] /\ i - P \in 1..Q
  <2>1. i \in 1..(P + Q) /\ i > P
    BY <1>1
  <2>2. r[i] = q[i - P]
    BY <2>1, ConcatProperties
  <2>3. QED
    BY <1>1, <2>2
<1>5. ASSUME NEW i \in (P + 1)..(P + Q)
      PROVE  r[i] = At(c, i - P) /\ r[i].at = i - P /\ i - P \in 1..(c.len + 1)
  <2>1. r[i] = At(c, i - P) /\ i - P \in 1..Q
    BY <1>4
  <2>2. i - P \in 1..(c.len + 1)
    BY <1>1, <2>1, CharFields
  <2>3. At(c, i - P).at = i - P
    BY <2>2, CharFields
  <2>4. QED
    BY <2>1, <2>2, <2>3
<1>6. r # <<>> /\ Len(r) > 0 /\ r[Len(r)] = q[Len(q)]
  <2>1. P + Q \in (P + 1)..(P + Q) /\ (P + Q) - P = Q
    BY <1>1
  <2>2. r[P + Q] = q[(P + Q) - P]
    BY <2>1, <1>4
  <2>3. QED
    BY <1>1, <1>2, <2>1, <2>2, EmptySeq
<1>7. IF p = <<>> THEN r[1] = At(c, 1) ELSE r[1] = p[1]
  <2>1. CASE p = <<>>
    <3>1. 1 \in (P + 1)..(P + Q) /\ 1 - P = 1
      BY <1>1, <2>1
    <3>2. r[1] = At(c, 1 - P)
      BY <1>5, <3>1
    <3>3. QED
      BY <2>1, <3>1, <3>2
  <2>2. CASE p # <<>>
    BY <1>1, <1>3, <2>2
  <2>3. QED
    BY <2>1, <2>2
<1>8. ASSUME Running(p, 1) PROVE Running(r, 1)
  <2>1. ASSUME NEW i \in 1..Len(r), NEW j \in 1..Len(r), i <= j, j - i < r[j].at
        PROVE  r[i] = At(r[j], r[j].at - (j - i))
    <3>1. CASE j <= P
      <4>1. i \in 1..P /\ j \in 1..P
        BY <1>1, <2>1, <3>1
      <4>2. r[i] = p[i] /\ r[j] = p[j]
        BY <1>3, <4>1
      <4>3. QED
        BY <1>8, <2>1, <4>1, <4>2 DEF Running
    <3>2. CASE j > P
      <4>1. j \in (P + 1)..(P + Q)
        BY <1>1, <1>2, <3>2
      <4>2. r[j] = At(c, j - P) /\ r[j].at = j - P /\ j - P \in 1..(c.len + 1)
        BY <1>5, <4>1
      <4>3. i \in (P + 1)..(P + Q) /\ r[j].at - (j - i) = i - P
        BY <1>1, <1>2, <2>1, <4>1, <4>2
      <4>4. r[i] = At(c, i - P)
        BY <1>5, <4>3
      <4>5. At(r[j], i - P) = At(c, i - P)
        BY <4>2, CharFields
      <4>6. QED
        BY <4>3, <4>4, <4>5
    <3>3. QED
      BY <1>1, <1>2, <3>1, <3>2
  <2>2. ASSUME NEW j \in 1..Len(r), j - 1 >= r[j].at
        PROVE  IsNewline(r[j - r[j].at])
    <3>1. CASE j <= P
      <4>1. j \in 1..P
        BY <1>1, <3>1
      <4>2. r[j] = p[j] /\ p[j] \in Chars
        BY <1>3, <4>1, ElementOfSeq
      <4>3. IsNewline(p[j - p[j].at])
        BY <1>8, <2>2, <4>1, <4>2 DEF Running
      <4>4. p[j].at \in Nat \ {0}
        BY <4>2, CharFields
      <4>5. j - p[j].at \in 1..P
        BY <1>1, <2>2, <4>1, <4>2, <4>4
      <4>6. QED
        BY <1>3, <4>2, <4>3, <4>5
    <3>2. CASE j > P
      <4>1. j \in (P + 1)..(P + Q)
        BY <1>1, <1>2, <3>2
      <4>2. r[j].at = j - P
        BY <1>5, <4>1
      <4>3. j - r[j].at = P /\ P \in 1..P
        BY <1>1, <2>2, <4>1, <4>2
      <4>4. IsNewline(p[P])
        BY <1>1, <4>3
      <4>5. r[P] = p[P]
        BY <1>3, <4>3
      <4>6. QED
        BY <4>3, <4>4, <4>5
    <3>3. j <= P \/ j > P
      BY <1>1, <1>2
    <3>4. QED
      BY <3>1, <3>2, <3>3
  <2>3. QED
    BY <2>1, <2>2 DEF Running
<1>9. QED
  BY <1>2, <1>6, <1>7, <1>8

\* A stream without what was read of it.
LEMMA Shrinks ==
  ASSUME NEW p \in Seq(Chars), NEW n \in 1..Len(p), NEW q, q = SubSeq(p, n + 1, Len(p))
  PROVE  /\ q \in Seq(Chars)
         /\ q # <<>> => q[Len(q)] = p[Len(p)]
         /\ Running(p, 1) => Running(q, 1)
<1>1. Len(p) \in Nat /\ n \in Nat \ {0} /\ n <= Len(p)
  BY LenProperties
<1>2. q \in Seq(Chars) /\ Len(q) = Len(p) - n
  <2>1. \A k \in (n + 1)..Len(p) : p[k] \in Chars
    BY <1>1, ElementOfSeq
  <2>2. QED
    BY <1>1, <2>1, SubSeqProperties
<1>3. ASSUME NEW k \in 1..Len(q) PROVE q[k] = p[n + k] /\ n + k \in 1..Len(p) /\ q[k] \in Chars
  <2>1. q[k] = p[(n + 1) + k - 1]
    BY <1>1, <1>2, SubSeqProperties
  <2>2. (n + 1) + k - 1 = n + k /\ n + k \in 1..Len(p)
    BY <1>1, <1>2
  <2>3. QED
    BY <2>1, <2>2, <1>2, ElementOfSeq
<1>4. ASSUME q # <<>> PROVE q[Len(q)] = p[Len(p)]
  <2>1. Len(q) \in 1..Len(q) /\ n + Len(q) = Len(p)
    BY <1>1, <1>2, <1>4, EmptySeq, LenProperties
  <2>2. QED
    BY <1>3, <2>1
<1>5. ASSUME Running(p, 1) PROVE Running(q, 1)
  <2>1. ASSUME NEW i \in 1..Len(q), NEW j \in 1..Len(q), i <= j, j - i < q[j].at
        PROVE  q[i] = At(q[j], q[j].at - (j - i))
    <3>1. q[i] = p[n + i] /\ q[j] = p[n + j] /\ n + i \in 1..Len(p) /\ n + j \in 1..Len(p)
      BY <1>3
    <3>2. n + i <= n + j /\ (n + j) - (n + i) = j - i
      BY <1>1, <2>1
    <3>3. QED
      BY <1>5, <2>1, <3>1, <3>2 DEF Running
  <2>2. ASSUME NEW j \in 1..Len(q), j - 1 >= q[j].at PROVE IsNewline(q[j - q[j].at])
    <3>1. q[j] = p[n + j] /\ n + j \in 1..Len(p) /\ q[j] \in Chars
      BY <1>3
    <3>2. q[j].at \in Nat \ {0}
      BY <3>1, CharFields
    <3>3. (n + j) - 1 >= q[j].at /\ j - q[j].at \in 1..Len(q)
          /\ n + (j - q[j].at) = (n + j) - q[j].at
      BY <1>1, <1>2, <2>2, <3>2
    <3>4. IsNewline(p[(n + j) - q[j].at])
      BY <1>5, <3>1, <3>3 DEF Running
    <3>5. q[j - q[j].at] = p[n + (j - q[j].at)]
      BY <1>3, <3>3
    <3>6. QED
      BY <3>3, <3>4, <3>5
  <2>3. QED
    BY <2>1, <2>2 DEF Running
<1>6. QED
  BY <1>2, <1>4, <1>5

\* The lines that the helpers write.
LEMMA Line ==
  ASSUME NEW s \in Sessions, NEW l \in 1..MaxLines, NEW len \in Lengths,
         NEW k \in 1..(len + 1), NEW q,
         (q = LineText(s, l, len) /\ k = len + 1) \/ q = SubSeq(LineText(s, l, len), 1, k)
  PROVE  /\ Char(s, l, len, 1) \in Chars /\ Char(s, l, len, 1).len = len
         /\ Char(s, l, len, 1).at = 1
         /\ q \in Seq(Chars) /\ q # <<>> /\ Len(q) = k
         /\ \A j \in 1..k : q[j] = At(Char(s, l, len, 1), j)
<1> DEFINE t == LineText(s, l, len)
<1>1. len \in Nat \ {0} /\ k \in Nat \ {0} /\ k <= len + 1
  BY ChannelAssumption
<1>2. ASSUME NEW i \in 1..(len + 1)
      PROVE  Char(s, l, len, i) \in Chars /\ Char(s, l, len, i) = At(Char(s, l, len, 1), i)
  <2>1. Char(s, l, len, i) \in [from : Sessions, line : 1..MaxLines, len : Lengths, at : Nat]
    BY <1>1 DEF Char
  <2>2. Char(s, l, len, i).at = i /\ Char(s, l, len, i).len = len
    BY DEF Char
  <2>3. Char(s, l, len, i) = At(Char(s, l, len, 1), i)
    BY DEF Char, At
  <2>4. QED
    BY <2>1, <2>2, <2>3 DEF Chars
<1>3. /\ Char(s, l, len, 1) \in Chars /\ Char(s, l, len, 1).len = len
      /\ Char(s, l, len, 1).at = 1
  <2>1. 1 \in 1..(len + 1)
    BY <1>1
  <2>2. QED
    BY <1>2, <2>1 DEF Char
<1>4. t \in Seq(Chars) /\ Len(t) = len + 1 /\ \A j \in 1..(len + 1) : t[j] = Char(s, l, len, j)
  <2>1. t \in [1..(len + 1) -> Chars]
    BY <1>2 DEF LineText
  <2>2. t \in Seq(Chars)
    BY <1>1, <2>1, SeqDef
  <2>3. DOMAIN t = 1..(len + 1)
    BY <2>1
  <2>4. Len(t) = len + 1
    BY <1>1, <2>2, <2>3, LenProperties
  <2>5. QED
    BY <2>2, <2>4 DEF LineText
<1>5. q \in Seq(Chars) /\ Len(q) = k /\ \A j \in 1..k : q[j] = t[j]
  <2>1. CASE q = t /\ k = len + 1
    BY <1>4, <2>1
  <2>2. CASE q = SubSeq(t, 1, k)
    <3>1. \A j \in 1..k : t[j] \in Chars
      BY <1>1, <1>4, ElementOfSeq
    <3>2. q \in Seq(Chars) /\ Len(q) = k
      BY <1>1, <1>4, <2>2, <3>1, SubSeqProperties
    <3>3. ASSUME NEW j \in 1..k PROVE q[j] = t[j]
      <4>1. q[j] = t[1 + j - 1] /\ 1 + j - 1 = j
        BY <1>1, <1>4, <2>2, SubSeqProperties
      <4>2. QED
        BY <4>1
    <3>4. QED
      BY <3>2, <3>3
  <2>3. QED
    BY <2>1, <2>2
<1>6. q # <<>>
  BY <1>1, <1>5, EmptySeq
<1>7. ASSUME NEW j \in 1..k PROVE q[j] = At(Char(s, l, len, 1), j)
  <2>1. j \in 1..(len + 1)
    BY <1>1
  <2>2. QED
    BY <1>2, <1>4, <1>5, <2>1
<1>8. QED
  BY <1>3, <1>5, <1>6, <1>7

-----------------------------------------------------------------------------
\* The parser's bounds after any chunk of any session.
LEMMA Leftover ==
  ASSUME NEW p \in Seq(Chars), NEW n \in 1..Len(p), NEW b \in Seq(Chars), NEW t
  PROVE  Running(p, 1) /\ Newlines(b) = {} /\ t = b \o SubSeq(p, 1, n)
         => Kept(t) \in Seq(Chars) /\ Len(Kept(t)) <= MaxLine /\ Newlines(Kept(t)) = {}
<1>0. SUFFICES ASSUME Running(p, 1), Newlines(b) = {}, t = b \o SubSeq(p, 1, n)
               PROVE  /\ Kept(t) \in Seq(Chars) /\ Len(Kept(t)) <= MaxLine
                      /\ Newlines(Kept(t)) = {}
  OBVIOUS
<1> DEFINE m == Len(b) + 1
           k == Rest(t)
<1>1. /\ t \in Seq(Chars) /\ Running(t, m) /\ Len(t) = Len(b) + n
      /\ \A j \in 1..Len(b) : ~IsNewline(t[j])
  <2>1. t \in Seq(Chars) /\ Len(t) = Len(b) + n
    BY <1>0, TextIs
  <2>2. Running(t, m)
    BY <1>0, TextIs
  <2>3. \A j \in 1..Len(b) : ~IsNewline(t[j])
    BY <1>0, TextIs
  <2>4. QED
    BY <2>1, <2>2, <2>3
<1>2. Len(b) \in Nat /\ n \in Nat \ {0} /\ m \in 1..Len(t) /\ m - 1 = Len(b) /\ Len(t) \in Nat
  BY <1>1, LenProperties
<1>3. \A j \in 1..(m - 1) : ~IsNewline(t[j])
  BY <1>1, <1>2
<1> HIDE DEF m
<1>4. PICK z \in 0..Len(t) :
        /\ \A j \in (z + 1)..Len(t) : ~IsNewline(t[j])
        /\ k \in Seq(Chars) /\ Len(k) = Len(t) - z
        /\ \A j \in 1..(Len(t) - z) : k[j] = t[z + j]
  BY <1>1, <1>2, <1>3, RestIs
<1>5. ASSUME NEW j \in 1..Len(k) PROVE ~IsNewline(k[j])
  <2>1. z + j \in (z + 1)..Len(t) /\ j \in 1..(Len(t) - z)
    BY <1>2, <1>4
  <2>2. QED
    BY <1>4, <2>1
<1>6. Newlines(k) = {}
  BY <1>5 DEF Newlines
<1>7. Kept(t) = IF Len(k) > MaxLine THEN <<>> ELSE k
  BY DEF Kept
<1>8. <<>> \in Seq(Chars) /\ Len(<<>>) = 0 /\ Newlines(<<>>) = {} /\ Len(k) \in Nat
  BY <1>4, EmptySeq, LenProperties DEF Newlines
<1> HIDE DEF k
<1>9. MaxLine \in Nat
  BY ChannelAssumption
<1>10. CASE Len(k) > MaxLine
  BY <1>7, <1>8, <1>9, <1>10
<1>11. CASE ~(Len(k) > MaxLine)
  BY <1>4, <1>6, <1>7, <1>8, <1>9, <1>11
<1>12. QED
  BY <1>10, <1>11

\* A chunk of the running session: the parser misses nothing when it is in step, and at
\* most one line when it is not, after which it is.
LEMMA OwnChunk ==
  ASSUME ParserInv, spawned \in Sessions, NEW n \in 1..Len(pipe[spawned]), NEW t
  PROVE  /\ t = Text(spawned, n)
         /\ pipe' = [pipe EXCEPT ![spawned] = SubSeq(@, n + 1, Len(@))]
         /\ buffer' = Kept(t) /\ overlong' = StillOverlong(t)
         /\ lost' = lost + Cardinality(Missed(t)) /\ late' = late
         /\ spawned' = spawned /\ child' = child
         => LossOK' /\ lost' \in Nat
<1>0. SUFFICES ASSUME t = Text(spawned, n),
                      pipe' = [pipe EXCEPT ![spawned] = SubSeq(@, n + 1, Len(@))],
                      buffer' = Kept(t), overlong' = StillOverlong(t),
                      lost' = lost + Cardinality(Missed(t)), late' = late,
                      spawned' = spawned, child' = child
               PROVE  LossOK' /\ lost' \in Nat
  OBVIOUS
<1> DEFINE p == pipe[spawned]
           q == SubSeq(p, n + 1, Len(p))
           live == child[spawned] = "alive"
<1>1. /\ p \in Seq(Chars) /\ buffer \in Seq(Chars) /\ Newlines(buffer) = {}
      /\ overlong \in BOOLEAN /\ late \in Nat /\ lost \in Nat /\ lost <= late
      /\ ~InSync => lost < late
  <2>1. pipe \in [Sessions -> Seq(Chars)]
    BY DEF ParserInv, ChanOK
  <2>2. spawned # 0
    BY DEF Sessions
  <2>3. QED
    BY <2>1, <2>2 DEF ParserInv, ChanOK, LossOK
<1>2. Running(p, 1) /\ (live /\ p # <<>> => IsNewline(p[Len(p)]))
  BY DEF ParserInv, StreamOK
<1>3. p # <<>>
  BY <1>1, EmptySeq
<1>4. t = buffer \o SubSeq(p, 1, n)
  BY <1>0 DEF Text
<1>5. pipe'[spawned'] = q /\ (child'[spawned'] = "alive") = live
  BY <1>0 DEF ParserInv, ChanOK
<1>6. InSync' = Synced(q, live, Kept(t), StillOverlong(t))
  BY <1>0, <1>5 DEF InSync
<1> DEFINE oo == StillOverlong(t)
<1>7. /\ live \in BOOLEAN /\ oo \in BOOLEAN
      /\ oo <=> Len(Rest(t)) > MaxLine \/ (overlong /\ Newlines(t) = {})
      /\ live => IsNewline(p[Len(p)])
      /\ InSync <=> Synced(p, live, buffer, overlong)
      /\ InSync' <=> Synced(q, live, Kept(t), oo)
      /\ n \in 1..Len(p)
  BY <1>2, <1>3, <1>6 DEF StillOverlong, InSync
<1> HIDE DEF p, live, oo
<1>8. ASSUME Newlines(t) # {} \/ Synced(p, live, buffer, overlong) PROVE InSync'
  <2>1. Synced(q, live, Kept(t), oo)
    BY <1>1, <1>2, <1>4, <1>7, <1>8, Resync
  <2>2. QED
    BY <1>7, <2>1
<1>9. CASE InSync
  <2>1. Synced(p, live, buffer, overlong)
    BY <1>7, <1>9
  <2>2. \A i \in Newlines(t) : ReadRight(t, i)
    BY <1>1, <1>2, <1>4, <1>7, <2>1, InStepReads
  <2>3. Missed(t) = {}
    BY <2>2, InStepFrames
  <2>4. Cardinality(Missed(t)) = 0
    BY <2>3, FS_EmptySet
  <2>5. lost' = lost
    BY <1>0, <1>1, <2>4
  <2>6. InSync'
    BY <1>8, <2>1
  <2>7. QED
    BY <1>0, <1>1, <2>5, <2>6 DEF LossOK
<1>10. CASE ~InSync
  <2>1. \/ Missed(t) = {} /\ Cardinality(Missed(t)) = 0
        \/ Newlines(t) # {} /\ Cardinality(Missed(t)) = 1
    BY <1>1, <1>2, <1>4, <1>7, OneMissed
  <2>2. CASE Cardinality(Missed(t)) = 0
    <3>1. lost' = lost /\ lost < late
      BY <1>0, <1>1, <1>10, <2>2
    <3>2. QED
      BY <1>0, <1>1, <3>1 DEF LossOK
  <2>3. CASE Newlines(t) # {} /\ Cardinality(Missed(t)) = 1
    <3>1. lost' = lost + 1 /\ lost < late
      BY <1>0, <1>1, <1>10, <2>3
    <3>2. lost' <= late' /\ lost' \in Nat
      BY <1>0, <1>1, <3>1
    <3>3. InSync'
      BY <1>8, <2>3
    <3>4. QED
      BY <3>2, <3>3 DEF LossOK
  <2>4. QED
    BY <2>1, <2>2, <2>3
<1>11. QED
  BY <1>9, <1>10

\* A chunk, of any session.
LEMMA DataStep ==
  ASSUME ParserInv, ChildInv', NEW s \in Sessions, Data(s)
  PROVE  ParserInv'
<1>1. PICK n \in 1..Len(pipe[s]) :
        /\ pipe' = [pipe EXCEPT ![s] = SubSeq(@, n + 1, Len(@))]
        /\ buffer' = Kept(Text(s, n)) /\ overlong' = StillOverlong(Text(s, n))
        /\ IF s = spawned THEN lost' = lost + Cardinality(Missed(Text(s, n))) /\ UNCHANGED late
                          ELSE late' = late + 1 /\ UNCHANGED lost
        /\ UNCHANGED <<written, procs>>
  BY DEF Data
<1> DEFINE p == pipe[s]
           q == SubSeq(p, n + 1, Len(p))
           t == Text(s, n)
<1>2. /\ pipe \in [Sessions -> Seq(Chars)] /\ p \in Seq(Chars) /\ buffer \in Seq(Chars)
      /\ Newlines(buffer) = {} /\ Running(p, 1) /\ p # <<>>
  <2>1. /\ pipe \in [Sessions -> Seq(Chars)] /\ p \in Seq(Chars) /\ buffer \in Seq(Chars)
        /\ Newlines(buffer) = {} /\ Running(p, 1)
    BY DEF ParserInv, ChanOK, StreamOK
  <2>2. QED
    BY <2>1, EmptySeq
<1>3. /\ q \in Seq(Chars) /\ (q # <<>> => q[Len(q)] = p[Len(p)]) /\ Running(q, 1)
  <2>1. q = SubSeq(p, n + 1, Len(p)) /\ n \in 1..Len(p)
    OBVIOUS
  <2> HIDE DEF p, q
  <2>2. q \in Seq(Chars)
    BY <1>2, <2>1, Shrinks
  <2>3. ASSUME q # <<>> PROVE q[Len(q)] = p[Len(p)]
    BY <1>2, <2>1, <2>3, Shrinks
  <2>4. Running(q, 1)
    <3>1. p \in Seq(Chars) /\ Running(p, 1)
      BY <1>2
    <3>2. QED
      BY <2>1, <3>1, Shrinks
  <2>5. QED
    BY <2>2, <2>3, <2>4
<1>4. /\ Kept(t) \in Seq(Chars) /\ Len(Kept(t)) <= MaxLine /\ Newlines(Kept(t)) = {}
  <2>1. t = buffer \o SubSeq(p, 1, n)
    BY DEF Text
  <2>2. QED
    BY <1>2, <2>1, Leftover
<1>5. pipe'[s] = q /\ \A r \in Sessions \ {s} : pipe'[r] = pipe[r]
  BY <1>1, <1>2
<1>6. child' = child /\ spawned' = spawned /\ errors' = errors /\ chatty' = chatty
      /\ written' = written
  BY <1>1 DEF procs
<1>7. \A r \in Sessions : StreamOK(r)'
  <2>1. ASSUME NEW r \in Sessions, r # s PROVE StreamOK(r)'
    BY <1>5, <1>6, <2>1 DEF ParserInv, StreamOK
  <2>2. StreamOK(s)'
    <3>1. Running(pipe'[s], 1)
      BY <1>3, <1>5
    <3>2. child[s] # "none" /\ (child[s] = "alive" => IsNewline(p[Len(p)]))
      BY <1>2 DEF ParserInv, StreamOK
    <3>3. child'[s] = "alive" /\ pipe'[s] # <<>> => IsNewline(pipe'[s][Len(pipe'[s])])
      BY <1>3, <1>5, <1>6, <3>2
    <3>4. QED
      BY <1>6, <3>1, <3>2, <3>3 DEF StreamOK
  <2>3. QED
    BY <2>1, <2>2
<1>8. LossOK' /\ late' \in Nat /\ lost' \in Nat
  <2>1. CASE s = spawned
    <3>1. /\ t = Text(spawned, n)
          /\ pipe' = [pipe EXCEPT ![spawned] = SubSeq(@, n + 1, Len(@))]
          /\ buffer' = Kept(t) /\ overlong' = StillOverlong(t)
          /\ lost' = lost + Cardinality(Missed(t)) /\ late' = late
      BY <1>1, <2>1
    <3>2. spawned \in Sessions /\ n \in 1..Len(pipe[spawned]) /\ late \in Nat
      BY <1>1, <2>1 DEF ParserInv, ChanOK
    <3>3. LossOK' /\ lost' \in Nat
      BY <1>6, <3>1, <3>2, OwnChunk
    <3>4. QED
      BY <3>1, <3>2, <3>3
  <2>2. CASE s # spawned
    <3>1. late' = late + 1 /\ lost' = lost
      BY <1>1, <2>2
    <3>2. late \in Nat /\ lost \in Nat /\ lost <= late
      BY DEF ParserInv, ChanOK, LossOK
    <3>3. lost' < late' /\ late' \in Nat /\ lost' \in Nat
      BY <3>1, <3>2
    <3>4. QED
      BY <3>2, <3>3 DEF LossOK
  <2>3. QED
    BY <2>1, <2>2
<1>9. ChanOK'
  <2>1. pipe' \in [Sessions -> Seq(Chars)]
    BY <1>1, <1>2, <1>3
  <2>2. overlong' \in BOOLEAN
    BY <1>1 DEF StillOverlong
  <2>3. QED
    BY <1>1, <1>4, <1>6, <1>8, <2>1, <2>2 DEF ParserInv, ChanOK
<1>10. QED
  BY <1>7, <1>8, <1>9 DEF ParserInv

\* Whether the parser is in step does not depend on what the helper writes after that.
LEMMA SyncGrows ==
  ASSUME NEW p, NEW r, NEW c \in Chars, c.at = 1,
         NEW b \in Seq(Chars), NEW o, NEW live,
         r # <<>>, IF p = <<>> THEN r[1] = At(c, 1) ELSE r[1] = p[1]
  PROVE  Synced(p, TRUE, b, o) => Synced(r, live, b, o)
<1> SUFFICES ASSUME Synced(p, TRUE, b, o) PROVE Synced(r, live, b, o)
  OBVIOUS
<1>1. CASE p = <<>>
  <2>1. b = <<>> /\ ~o /\ r[1] = c
    <3>1. At(c, 1) = c
      BY CharFields
    <3>2. QED
      BY <1>1, <3>1 DEF Synced
  <2>2. Len(b) = 0 /\ r[1].at = 1
    BY <2>1, EmptySeq
  <2>3. Len(b) = r[1].at - 1 /\ \A k \in 1..Len(b) : b[k] = At(r[1], k)
    BY <2>2
  <2>4. QED
    BY <2>1, <2>3 DEF Synced
<1>2. CASE p # <<>>
  BY <1>2 DEF Synced
<1>3. QED
  BY <1>1, <1>2

\* A helper writes: a line, or what it had got to when it died.
LEMMA Writes ==
  ASSUME ParserInv, NEW s \in Sessions, NEW len \in Lengths, NEW k \in 1..(len + 1), NEW q
  PROVE  /\ child[s] = "alive" /\ MayWrite /\ ChildInv'
         /\ \/ q = LineText(s, written + 1, len) /\ k = len + 1
            \/ q = SubSeq(LineText(s, written + 1, len), 1, k)
         /\ (child' = child /\ k = len + 1) \/ child' = [child EXCEPT ![s] = "gone"]
         /\ pipe' = [pipe EXCEPT ![s] = @ \o q] /\ written' = written + 1
         /\ UNCHANGED <<buffer, overlong, late, lost, spawned, errors, chatty>>
         => ParserInv'
<1>0. SUFFICES ASSUME child[s] = "alive", MayWrite, ChildInv',
                      \/ q = LineText(s, written + 1, len) /\ k = len + 1
                      \/ q = SubSeq(LineText(s, written + 1, len), 1, k),
                      (child' = child /\ k = len + 1) \/ child' = [child EXCEPT ![s] = "gone"],
                      pipe' = [pipe EXCEPT ![s] = @ \o q], written' = written + 1,
                      UNCHANGED <<buffer, overlong, late, lost, spawned, errors, chatty>>
               PROVE  ParserInv'
  OBVIOUS
<1> DEFINE c == Char(s, written + 1, len, 1)
           p == pipe[s]
           r == p \o q
<1>1. written + 1 \in 1..MaxLines /\ written' \in 0..MaxLines
  BY <1>0, ChannelAssumption DEF ParserInv, ChanOK, MayWrite
<1>2. /\ c \in Chars /\ c.len = len /\ c.at = 1
      /\ q \in Seq(Chars) /\ q # <<>> /\ Len(q) = k
      /\ \A j \in 1..k : q[j] = At(c, j)
  BY <1>0, <1>1, Line
<1> HIDE DEF c
<1>3. /\ pipe \in [Sessions -> Seq(Chars)] /\ p \in Seq(Chars) /\ Running(p, 1)
      /\ p # <<>> => IsNewline(p[Len(p)])
  BY <1>0 DEF ParserInv, ChanOK, StreamOK
<1>4. Len(q) <= c.len + 1 /\ \A j \in 1..Len(q) : q[j] = At(c, j)
  <2>1. len \in Nat \ {0} /\ k <= len + 1
    BY ChannelAssumption
  <2>2. QED
    BY <1>2, <2>1
<1> HIDE DEF p, r
<1>5. r = p \o q
  BY DEF r
<1>6. /\ r \in Seq(Chars) /\ r # <<>> /\ r[Len(r)] = q[Len(q)]
      /\ IF p = <<>> THEN r[1] = At(c, 1) ELSE r[1] = p[1]
  BY <1>2, <1>3, <1>4, <1>5, Grows
<1>7. Running(r, 1)
  <2>1. p \in Seq(Chars) /\ Running(p, 1) /\ (p # <<>> => IsNewline(p[Len(p)]))
    BY <1>3
  <2>2. Running(p, 1) => Running(r, 1)
    BY <1>2, <1>4, <1>5, <2>1, Grows
  <2>3. QED
    BY <2>1, <2>2
<1>8. ASSUME k = len + 1 PROVE IsNewline(r[Len(r)])
  <2>1. k \in 1..(c.len + 1) /\ k \in 1..k
    BY <1>2, <1>8, ChannelAssumption
  <2>2. q[k] = At(c, k) /\ At(c, k).at = k /\ At(c, k).len = c.len
    BY <1>2, <2>1, CharFields
  <2>3. QED
    BY <1>2, <1>6, <1>8, <2>2 DEF IsNewline
<1>9. pipe'[s] = r /\ \A t \in Sessions \ {s} : pipe'[t] = pipe[t]
  BY <1>0, <1>3 DEF r, p
<1>10. /\ \A t \in Sessions \ {s} : child'[t] = child[t]
       /\ (child'[s] = "alive" /\ k = len + 1) \/ child'[s] = "gone"
  BY <1>0 DEF ParserInv, ChildInv, ProcsOK
<1>11. \A t \in Sessions : StreamOK(t)'
  <2>1. ASSUME NEW t \in Sessions, t # s PROVE StreamOK(t)'
    <3>1. pipe'[t] = pipe[t] /\ child'[t] = child[t] /\ StreamOK(t)
      BY <1>9, <1>10, <2>1 DEF ParserInv
    <3>2. QED
      BY <3>1 DEF StreamOK
  <2>2. StreamOK(s)'
    <3>1. child'[s] # "none" /\ (child'[s] = "alive" => k = len + 1)
      BY <1>10
    <3>2. child'[s] = "alive" => IsNewline(pipe'[s][Len(pipe'[s])])
      BY <1>8, <1>9, <3>1
    <3>3. Running(pipe'[s], 1)
      BY <1>7, <1>9
    <3>4. QED
      BY <3>1, <3>2, <3>3 DEF StreamOK
  <2>3. QED
    BY <2>1, <2>2
<1>12. ChanOK'
  <2>1. pipe' \in [Sessions -> Seq(Chars)]
    BY <1>0, <1>3, <1>6 DEF r, p
  <2>2. QED
    BY <1>0, <1>1, <2>1 DEF ParserInv, ChanOK
<1>13. ASSUME spawned # 0, InSync PROVE InSync'
  <2>1. spawned \in Sessions
    BY <1>13 DEF ParserInv, ChildInv, ProcsOK, Sessions
  <2>2. CASE spawned # s
    <3>1. pipe'[spawned'] = pipe[spawned] /\ child'[spawned'] = child[spawned]
          /\ buffer' = buffer /\ overlong' = overlong
      BY <1>0, <1>9, <1>10, <2>1, <2>2
    <3>2. QED
      BY <1>13, <3>1 DEF InSync
  <2>3. CASE spawned = s
    <3>1. Synced(p, TRUE, buffer, overlong)
      BY <1>0, <1>13, <2>3 DEF InSync, p
    <3>2. buffer \in Seq(Chars) /\ c \in Chars /\ c.at = 1
      BY <1>2 DEF ParserInv, ChanOK
    <3> DEFINE live == child'[spawned'] = "alive"
    <3>3. InSync' <=> Synced(r, live, buffer, overlong)
      BY <1>0, <1>9, <2>3 DEF InSync
    <3> HIDE DEF live
    <3>4. Synced(r, live, buffer, overlong)
      BY <1>6, <3>1, <3>2, SyncGrows
    <3>5. QED
      BY <3>3, <3>4
  <2>4. QED
    BY <2>2, <2>3
<1>14. LossOK'
  BY <1>0, <1>13 DEF ParserInv, LossOK
<1>15. QED
  BY <1>0, <1>11, <1>12, <1>14 DEF ParserInv

\* The steps of the processes leave the streams and the parser alone; a child that is gone
\* asks less of its stream.
LEMMA Still ==
  ASSUME ParserInv, ChildInv', UNCHANGED <<chan, spawned, chatty>>, errors' \in 0..MaxErrors,
         \A s \in Sessions : /\ child'[s] = "alive" => child[s] = "alive"
                             /\ child'[s] = "none" => child[s] = "none"
  PROVE  ParserInv'
<1>1. /\ UNCHANGED <<pipe, buffer, overlong, written, late, lost, spawned, chatty>>
  BY DEF chan
<1>2. ASSUME NEW s \in Sessions PROVE StreamOK(s)'
  BY <1>1 DEF ParserInv, StreamOK
<1>3. ChanOK'
  BY <1>1 DEF ParserInv, ChanOK
<1>4. ASSUME spawned # 0, InSync PROVE InSync'
  <2>1. spawned \in Sessions
    BY <1>4 DEF ParserInv, ChildInv, ProcsOK, Sessions
  <2>2. child'[spawned'] = "alive" => child[spawned] = "alive"
    BY <1>1, <2>1
  <2>3. QED
    BY <1>1, <1>4, <2>2 DEF InSync, Synced
<1>5. LossOK'
  BY <1>1, <1>4 DEF ParserInv, LossOK
<1>6. QED
  BY <1>2, <1>3, <1>5 DEF ParserInv

\* Nothing of a new session is written yet, and its parser is new.
LEMMA Spawns ==
  ASSUME ParserInv, ChildInv', SpawnSession
  PROVE  ParserInv'
<1>1. /\ spawned' = spawned + 1 /\ spawned + 1 \in Sessions /\ pipe' = pipe
      /\ buffer' = <<>> /\ overlong' = FALSE /\ late' = 0 /\ lost' = 0
      /\ written' = written /\ errors' = errors /\ chatty' = chatty
  BY DEF SpawnSession, ParserInv, ChildInv, ProcsOK, Sessions
<1>2. child[spawned + 1] = "none" /\ pipe[spawned + 1] = <<>>
  <2>1. child[spawned + 1] = "none"
    BY <1>1 DEF ParserInv, ChildInv, ProcsOK, UnspawnedIsNone, Sessions
  <2>2. QED
    BY <1>1, <2>1 DEF ParserInv, StreamOK
<1>3. ASSUME NEW s \in Sessions PROVE StreamOK(s)'
  <2>1. CASE s = spawned + 1
    <3>1. pipe'[s] = <<>> /\ Running(pipe'[s], 1)
      BY <1>1, <1>2, <2>1 DEF ParserInv, StreamOK
    <3>2. QED
      BY <3>1 DEF StreamOK
  <2>2. CASE s # spawned + 1
    <3>1. child'[s] = child[s] /\ pipe'[s] = pipe[s] /\ StreamOK(s)
      BY <1>1, <2>2 DEF SpawnSession, ParserInv, ChildInv, ProcsOK
    <3>2. QED
      BY <3>1 DEF StreamOK
  <2>3. QED
    BY <2>1, <2>2
<1>4. <<>> \in Seq(Chars) /\ Len(<<>>) = 0 /\ Newlines(<<>>) = {} /\ 0 <= MaxLine
  BY EmptySeq, ChannelAssumption DEF Newlines
<1>5. ChanOK'
  <2>1. buffer' \in Seq(Chars) /\ Len(buffer') <= MaxLine /\ Newlines(buffer') = {}
    BY <1>1, <1>4
  <2>2. QED
    BY <1>1, <2>1 DEF ParserInv, ChanOK
<1>6. InSync'
  BY <1>1, <1>2 DEF InSync, Synced
<1>7. LossOK'
  BY <1>1, <1>6 DEF LossOK
<1>8. QED
  BY <1>3, <1>5, <1>7 DEF ParserInv

LEMMA ParserStep ==
  ASSUME ParserInv, [Next]_vars
  PROVE  ParserInv'
<1>0. ChildInv'
  BY ChildStep DEF ParserInv
<1>e. errors \in 0..MaxErrors /\ child \in [Sessions -> {"none", "alive", "failed", "gone"}]
  BY DEF ParserInv, ChildInv, ProcsOK, ChanOK
<1>1. CASE SpawnSession
  BY <1>0, <1>1, Spawns
<1>2. CASE EndSession \/ Dequeue \/ SigkillDue \/ EndReturns \/ UNCHANGED vars
  <2>1. UNCHANGED <<chan, spawned, child, errors, chatty>>
    BY <1>2 DEF EndSession, Dequeue, SigkillDue, EndReturns, vars, procs
  <2>2. QED
    BY <1>0, <1>e, <2>1, Still
<1>3. ASSUME NEW s \in Sessions, WriteLine(s) PROVE ParserInv'
  <2>1. PICK len \in Lengths : pipe' = [pipe EXCEPT ![s] = @ \o LineText(s, written + 1, len)]
    BY <1>3 DEF WriteLine
  <2>2. /\ child[s] = "alive" /\ MayWrite /\ written' = written + 1 /\ child' = child
        /\ UNCHANGED <<buffer, overlong, late, lost, spawned, errors, chatty>>
    BY <1>3 DEF WriteLine, procs
  <2>3. len + 1 \in 1..(len + 1)
    BY ChannelAssumption
  <2>4. QED
    BY <1>0, <2>1, <2>2, <2>3, Writes
<1>4. ASSUME NEW s \in Sessions, Data(s) PROVE ParserInv'
  BY <1>0, <1>4, DataStep
<1>5. ASSUME NEW s \in Sessions, Die(s) PROVE ParserInv'
  <2>1. /\ child[s] = "alive" /\ child' = [child EXCEPT ![s] = "gone"]
        /\ UNCHANGED <<buffer, overlong, late, lost, spawned, errors, chatty>>
    BY <1>5 DEF Die
  <2>2. CASE UNCHANGED <<written, pipe>>
    <3>1. UNCHANGED <<chan, spawned, errors, chatty>>
      BY <2>1, <2>2 DEF chan
    <3>2. QED
      BY <1>0, <1>e, <2>1, <3>1, Still
  <2>3. ASSUME NEW len \in Lengths, NEW k \in 1..len, MayWrite, written' = written + 1,
               pipe' = [pipe EXCEPT ![s] = @ \o SubSeq(LineText(s, written + 1, len), 1, k)]
        PROVE  ParserInv'
    <3>1. k \in 1..(len + 1)
      BY ChannelAssumption
    <3>2. QED
      BY <1>0, <2>1, <2>3, <3>1, Writes
  <2>4. QED
    BY <1>5, <2>2, <2>3 DEF Die
<1>6. ASSUME NEW s \in Sessions, SpawnFailed(s) PROVE ParserInv'
  <2>1. child[s] = "failed" /\ child' = [child EXCEPT ![s] = "gone"]
        /\ UNCHANGED <<chan, spawned, errors, chatty>>
    BY <1>6 DEF SpawnFailed
  <2>2. QED
    BY <1>0, <1>e, <2>1, Still
<1>7. ASSUME NEW s \in Sessions, ErrorEvent(s) PROVE ParserInv'
  <2>1. errors < MaxErrors /\ errors' = errors + 1
        /\ UNCHANGED <<chan, spawned, child, chatty>>
    BY <1>7 DEF ErrorEvent
  <2>2. errors' \in 0..MaxErrors
    BY <1>e, <2>1, ChannelAssumption
  <2>3. QED
    BY <1>0, <2>1, <2>2, Still
<1>8. QED
  BY <1>1, <1>2, <1>3, <1>4, <1>5, <1>6, <1>7 DEF Next

LEMMA ParserInit ==
  ASSUME Init
  PROVE  ParserInv
<1>1. ChildInv
  BY ChildInit
<1>2. <<>> \in Seq(Chars) /\ Len(<<>>) = 0 /\ Newlines(<<>>) = {}
      /\ 0 <= MaxLine /\ 0 \in 0..MaxLines /\ 0 \in 0..MaxErrors
  BY EmptySeq, ChannelAssumption DEF Newlines
<1>3. ChanOK
  <2>1. buffer \in Seq(Chars) /\ Len(buffer) <= MaxLine /\ Newlines(buffer) = {}
    BY <1>2 DEF Init
  <2>2. pipe \in [Sessions -> Seq(Chars)]
    BY <1>2 DEF Init
  <2>3. QED
    BY <1>2, <2>1, <2>2 DEF Init, ChanOK
<1>4. ASSUME NEW s \in Sessions PROVE StreamOK(s)
  <2>1. pipe[s] = <<>> /\ Len(pipe[s]) = 0
    BY <1>2 DEF Init
  <2>2. Running(pipe[s], 1)
    BY <2>1 DEF Running
  <2>3. QED
    BY <2>1, <2>2 DEF StreamOK
<1>5. LossOK
  BY DEF Init, LossOK
<1>6. QED
  BY <1>1, <1>3, <1>4, <1>5 DEF ParserInv

LEMMA SpecParserInv == Spec => []ParserInv
<1>1. Init => ParserInv
  BY ParserInit
<1>2. ParserInv /\ [Next]_vars => ParserInv'
  BY ParserStep
<1>3. QED
  BY <1>1, <1>2, PTL DEF Spec

\* The types, and the bound of the parser's buffer (HelperChannel.TypeOK): the helper's
\* output, however long its lines and however it is cut into chunks, never makes push keep
\* more than MAX_LINE_BYTES.
THEOREM SpecTypeOK == Spec => []TypeOK
<1>1. ParserInv => TypeOK
  BY DEF ParserInv, ChildInv, ProcsOK, ChanOK, Steps, TypeOK
<1>2. QED
  BY <1>1, SpecParserInv, PTL

\* push may be called with any chunking (HelperChannel.FramesExact): while no earlier
\* session's output came in between, the next chunk, whatever its length, hands over exactly
\* the lines of acceptable length that end in it, for lines of any length, over-long ones
\* before and between them included.
THEOREM SpecFramesExact == Spec => []FramesExact
<1>1. ParserInv => FramesExact
  <2> SUFFICES ASSUME ParserInv, spawned # 0, late = 0, NEW n \in 1..Len(pipe[spawned])
               PROVE  Frames(Text(spawned, n))
                        = [i \in Due(Text(spawned, n)) |-> At(Text(spawned, n)[i], 1)]
    BY DEF FramesExact
  <2> DEFINE p == pipe[spawned]
             t == Text(spawned, n)
             live == child[spawned] = "alive"
  <2>1. spawned \in Sessions
    BY DEF ParserInv, ChildInv, ProcsOK, Sessions
  <2>2. /\ p \in Seq(Chars) /\ Running(p, 1) /\ n \in 1..Len(p)
        /\ buffer \in Seq(Chars) /\ Newlines(buffer) = {} /\ overlong \in BOOLEAN
    BY <2>1 DEF ParserInv, ChanOK, StreamOK
  <2>3. InSync
    BY DEF ParserInv, ChanOK, LossOK
  <2>4. Synced(p, live, buffer, overlong) /\ t = buffer \o SubSeq(p, 1, n)
    BY <2>3 DEF InSync, Text
  <2> HIDE DEF p, t, live
  <2>5. \A i \in Newlines(t) : ReadRight(t, i)
    BY <2>2, <2>4, InStepReads
  <2>6. Frames(t) = [i \in Due(t) |-> At(t[i], 1)]
    BY <2>5, InStepFrames
  <2>7. QED
    BY <2>6 DEF t
<1>2. QED
  BY <1>1, SpecParserInv, PTL

\* The shared parser (HelperChannel.LateChunkCostsOneLine): each chunk of a replaced session
\* costs the running one at most one line, whatever the chunk holds and however the running
\* session's own output is cut.
THEOREM SpecLateChunkCostsOneLine == Spec => []LateChunkCostsOneLine
<1>1. ParserInv => LateChunkCostsOneLine
  BY DEF ParserInv, LossOK, LateChunkCostsOneLine
<1>2. QED
  BY <1>1, SpecParserInv, PTL

=============================================================================
