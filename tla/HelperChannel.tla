----------------------------- MODULE HelperChannel -----------------------------
(***************************************************************************)
(* The supervisor's end of its helpers' stdout and of their deaths: the    *)
(* line parser (SrtpHelperProtocol.ts), which is one field of the          *)
(* supervisor although sessions come and go, and endChildProcess           *)
(* (ChildProcessExit.ts), on whose return the lock and the next spawn      *)
(* depend.                                                                 *)
(*                                                                         *)
(* A line is a run of characters and a newline; a character knows which    *)
(* line it belongs to and where it stands in it, and JSON.parse succeeds   *)
(* on nothing but a whole line.  A chunk is any prefix of the pipe, and    *)
(* what a dead child wrote can still be delivered after its 'exit'.        *)
(* What a frame does is SrtpSupervisor's concern.                          *)
(***************************************************************************)
EXTENDS Naturals, Sequences, FiniteSetsExt

CONSTANTS MaxLine,      \* MAX_LINE_BYTES, in characters
          Lengths,      \* the lengths a line may have
          MaxSessions,  \* bound: helpers spawned
          MaxLines,     \* bound: lines the helpers write, together
          MaxErrors     \* bound: 'error' events that are not a death

ASSUME ChannelAssumption ==
  /\ MaxLine \in Nat \ {0} /\ Lengths \subseteq Nat \ {0}
  /\ MaxSessions \in Nat /\ MaxLines \in Nat /\ MaxErrors \in Nat

Sessions == 1..MaxSessions

VARIABLES
  helper,    \* this.helper: the session the supervisor runs, 0 when undefined
  spawned,   \* sessions spawned so far
  child,     \* per session: none, alive, failed (the spawn did, unreported), gone
             \* (the exit fields are set)
  pipe,      \* per session: characters written and not yet read
  buffer, overlong,   \* this.protocol
  queue,     \* 'exit' and 'error' steps of the supervisor's queue
  ending,    \* the session endChildProcess is at work on
  pc,        \* idle, or the signal whose effect it waits for
  settled,   \* its watch has seen the child go
  errors,
  chatty,    \* bound: the helpers write lines, or else 'error's come up
  written,   \* lines written, by all of them
  \* History, for stating properties only, since the last spawn.
  late,      \* chunks of earlier sessions the parser took
  lost       \* lines of the running session that were read and not handed over

chan == <<pipe, buffer, overlong, written, late, lost>>
procs == <<helper, spawned, child, queue, ending, pc, settled, errors, chatty>>
vars == <<chan, procs>>

-----------------------------------------------------------------------------
Char(s, l, len, at) == [from |-> s, line |-> l, len |-> len, at |-> at]
IsNewline(c) == c.at = c.len + 1

\* The k-th character of the line of c.
At(c, k) == [c EXCEPT !.at = k]

LineText(s, l, len) == [i \in 1..(len + 1) |-> Char(s, l, len, i)]

\* parseMessage succeeds.
Parses(raw) ==
  /\ Len(raw) = raw[1].len
  /\ \A i \in 1..Len(raw) : raw[i] = At(raw[1], i)

\* push, of this.buffer with the chunk appended: the newlines in it, and the place
\* of the last one before place i, 0 when there is none.
Newlines(text) == {i \in 1..Len(text) : IsNewline(text[i])}
Before(text, i) == Max({0} \cup {j \in Newlines(text) : j < i})

\* `raw` of the line that ends at i; in the loop it is parsed unless it is the tail of a
\* line already reported, over-long or empty.
Raw(text, i) == SubSeq(text, Before(text, i) + 1, i - 1)

Accepts(text, i) ==
  /\ ~(overlong /\ Before(text, i) = 0)
  /\ Raw(text, i) # <<>> /\ Len(Raw(text, i)) <= MaxLine /\ Parses(Raw(text, i))

\* The messages push returns, each by the place of its newline: its line, as the
\* character it starts with.  An `unparsed` one is only logged, and left out.
Frames(text) == [i \in {j \in Newlines(text) : Accepts(text, j)} |-> Raw(text, i)[1]]

\* What the loop leaves in the buffer.
Rest(text) == Raw(text, Len(text) + 1)

\* Mutant of Kept: the buffer of a line that never ends is kept.
KeptUnbounded(text) == Rest(text)

\* The closing check of push: a line that never ends is dropped.
Kept(text) == IF Len(Rest(text)) > MaxLine THEN <<>> ELSE Rest(text)

\* Mutant of StillOverlong: the end of the over-long line is not recognised as such.
StaysOverlong(text) == Len(Rest(text)) > MaxLine \/ overlong

StillOverlong(text) == Len(Rest(text)) > MaxLine \/ (overlong /\ Newlines(text) = {})

-----------------------------------------------------------------------------
MayWrite == written < MaxLines

\* A helper writes a line.
WriteLine(s) ==
  /\ child[s] = "alive" /\ chatty /\ MayWrite
  /\ written' = written + 1
  /\ \E len \in Lengths :
       pipe' = [pipe EXCEPT ![s] = @ \o LineText(s, written + 1, len)]
  /\ UNCHANGED <<buffer, overlong, late, lost, procs>>

\* The buffer with the next n characters of session s.
Text(s, n) == buffer \o SubSeq(pipe[s], 1, n)

\* The lines that end in a text and are not too long, by the places of their newlines.
Due(text) == {i \in Newlines(text) : text[i].len <= MaxLine}

\* Those of them that push does not return.
Missed(text) ==
  {i \in Due(text) : ~(Accepts(text, i) /\ Frames(text)[i] = At(text[i], 1))}

\* The stdout listener of session s: its chunk goes to whatever parser there is
\* now, and what comes out is s's.
Data(s) ==
  \E n \in 1..Len(pipe[s]) :
    LET text == Text(s, n) IN
      /\ pipe' = [pipe EXCEPT ![s] = SubSeq(@, n + 1, Len(@))]
      /\ buffer' = Kept(text) /\ overlong' = StillOverlong(text)
      /\ IF s = spawned THEN lost' = lost + Cardinality(Missed(text)) /\ UNCHANGED late
                        ELSE late' = late + 1 /\ UNCHANGED lost
      /\ UNCHANGED <<written, procs>>

-----------------------------------------------------------------------------
HasExited(s) == child[s] = "gone"

Waiting(s) == pc # "idle" /\ ending = s

\* The process ends, perhaps in the middle of a write.  Node sets the exit fields
\* and emits 'exit' in one turn.
Die(s) ==
  /\ child[s] = "alive"
  /\ child' = [child EXCEPT ![s] = "gone"]
  /\ \/ UNCHANGED <<written, pipe>>
     \/ /\ chatty /\ MayWrite
        /\ written' = written + 1
        /\ \E len \in Lengths : \E k \in 1..len :
             pipe' = [pipe EXCEPT ![s] = @ \o SubSeq(LineText(s, written + 1, len), 1, k)]
  /\ settled' = (settled \/ Waiting(s))
  /\ queue' = Append(queue, <<s, "exit">>)
  /\ UNCHANGED <<buffer, overlong, late, lost,
                 helper, spawned, ending, pc, errors, chatty>>

\* Mutant of SpawnFailed: only 'exit' settles a watch.
SpawnFailedUnwatched(s) ==
  /\ child[s] = "failed"
  /\ child' = [child EXCEPT ![s] = "gone"]
  /\ queue' = Append(queue, <<s, "error">>)
  /\ UNCHANGED <<chan, helper, spawned, ending, pc, settled, errors, chatty>>

\* A spawn that failed: the exit fields and 'error'; no 'exit' ever comes.
SpawnFailed(s) ==
  /\ child[s] = "failed"
  /\ child' = [child EXCEPT ![s] = "gone"]
  /\ settled' = (settled \/ Waiting(s))
  /\ queue' = Append(queue, <<s, "error">>)
  /\ UNCHANGED <<chan, helper, spawned, ending, pc, errors, chatty>>

\* Mutant of ErrorEvent: an 'error' counts as the death of the child.
ErrorEventSettles(s) ==
  /\ child[s] = "alive" /\ ~chatty /\ errors < MaxErrors
  /\ errors' = errors + 1
  /\ settled' = (settled \/ Waiting(s))
  /\ queue' = Append(queue, <<s, "error">>)
  /\ UNCHANGED <<chan, helper, spawned, child, ending, pc, chatty>>

\* 'error' on a child that is still there; the exit fields do not agree.
ErrorEvent(s) ==
  /\ child[s] = "alive" /\ ~chatty /\ errors < MaxErrors
  /\ errors' = errors + 1
  /\ queue' = Append(queue, <<s, "error">>)
  /\ UNCHANGED <<chan, helper, spawned, child, ending, pc, settled, chatty>>

-----------------------------------------------------------------------------
\* endChildProcess up to its first wait: SIGTERM, unless the child is gone.
EndChildProcess(s) ==
  /\ ending' = s /\ pc' = "SIGTERM"
  /\ settled' = HasExited(s)

\* sigkillAfterMs: SIGKILL, and a wait without a deadline.
SigkillDue ==
  /\ pc = "SIGTERM" /\ ~settled
  /\ pc' = "SIGKILL"
  /\ UNCHANGED <<chan, helper, spawned, child, queue, ending, settled, errors, chatty>>

\* endChildProcess returns; when it was called for an 'error', handleExit follows.
EndReturns ==
  /\ pc # "idle" /\ settled
  /\ pc' = "idle" /\ settled' = FALSE
  /\ helper' = IF helper = ending THEN 0 ELSE helper
  /\ ending' = 0
  /\ UNCHANGED <<chan, spawned, child, queue, errors, chatty>>

\* Mutant of SpawnSession: the parser of the last session stays.
SpawnSessionKeepsParser ==
  /\ pc = "idle" /\ helper = 0 /\ spawned < MaxSessions
  /\ spawned' = spawned + 1 /\ helper' = spawned + 1
  /\ \E c \in {"alive", "failed"} : child' = [child EXCEPT ![spawned + 1] = c]
  /\ late' = 0 /\ lost' = 0
  /\ UNCHANGED <<pipe, buffer, overlong, written, queue, ending, pc, settled, errors,
                 chatty>>

\* spawnSession: the session gets its listeners, the supervisor a new parser.
SpawnSession ==
  /\ pc = "idle" /\ helper = 0 /\ spawned < MaxSessions
  /\ spawned' = spawned + 1 /\ helper' = spawned + 1
  /\ \E c \in {"alive", "failed"} : child' = [child EXCEPT ![spawned + 1] = c]
  /\ buffer' = <<>> /\ overlong' = FALSE /\ late' = 0 /\ lost' = 0
  /\ UNCHANGED <<pipe, written, queue, ending, pc, settled, errors, chatty>>

\* endSession: a timeout or a floor reset; the session is detached first.
EndSession ==
  /\ pc = "idle" /\ helper # 0
  /\ EndChildProcess(helper)
  /\ helper' = 0
  /\ UNCHANGED <<chan, spawned, child, queue, errors, chatty>>

\* The next step of the queue: handleExit, or the end of a child that reported
\* an error.
Dequeue ==
  /\ pc = "idle" /\ queue # <<>>
  /\ queue' = Tail(queue)
  /\ LET s == Head(queue)[1] IN
       IF Head(queue)[2] = "error"
         THEN EndChildProcess(s) /\ UNCHANGED helper
         ELSE /\ helper' = IF helper = s THEN 0 ELSE helper
              /\ UNCHANGED <<ending, pc, settled>>
  /\ UNCHANGED <<chan, spawned, child, errors, chatty>>

-----------------------------------------------------------------------------
Init ==
  /\ helper = 0 /\ spawned = 0 /\ child = [s \in Sessions |-> "none"]
  /\ pipe = [s \in Sessions |-> <<>>] /\ buffer = <<>> /\ overlong = FALSE
  /\ queue = <<>> /\ ending = 0 /\ pc = "idle" /\ settled = FALSE /\ errors = 0
  /\ written = 0 /\ late = 0 /\ lost = 0
  /\ chatty \in BOOLEAN

Next ==
  \/ SpawnSession \/ EndSession \/ Dequeue \/ SigkillDue \/ EndReturns
  \/ \E s \in Sessions : WriteLine(s) \/ Data(s) \/ Die(s)
                         \/ SpawnFailed(s) \/ ErrorEvent(s)

\* The event loop gets to what is due, and SIGKILL works.
Fairness ==
  /\ WF_vars(SigkillDue) /\ WF_vars(EndReturns) /\ WF_vars(Dequeue)
  /\ \A s \in Sessions : /\ WF_vars(SpawnFailed(s))
                         /\ WF_vars(pc = "SIGKILL" /\ ending = s /\ Die(s))

Spec == Init /\ [][Next]_vars /\ Fairness

-----------------------------------------------------------------------------
Chars == {c \in [from : Sessions, line : 1..MaxLines, len : Lengths, at : Nat] :
            c.at \in 1..(c.len + 1)}

\* The types, with the parser's bound: what push leaves behind never exceeds a line.
TypeOK ==
  /\ helper \in 0..MaxSessions /\ spawned \in 0..MaxSessions
  /\ child \in [Sessions -> {"none", "alive", "failed", "gone"}]
  /\ pipe \in [Sessions -> Seq(Chars)]
  /\ buffer \in Seq(Chars) /\ Len(buffer) <= MaxLine /\ overlong \in BOOLEAN
  /\ queue \in Seq(Sessions \X {"exit", "error"})
  /\ ending \in 0..MaxSessions /\ pc \in {"idle", "SIGTERM", "SIGKILL"}
  /\ settled \in BOOLEAN /\ errors \in 0..MaxErrors
  /\ written \in 0..MaxLines /\ late \in Nat /\ lost \in Nat
  /\ chatty \in BOOLEAN

\* Whatever the chunks, and whatever over-long line came before, the next chunk
\* hands the running session's handler exactly the lines that end in it, in order,
\* as long as no earlier session's output came in between ("`push` may be called
\* with any chunking", SrtpHelperProtocol).
FramesExact ==
  spawned # 0 /\ late = 0 =>
    \A n \in 1..Len(pipe[spawned]) :
      LET text == Text(spawned, n) IN
        Frames(text) = [i \in Due(text) |-> At(text[i], 1)]

\* The parser is shared, so output of a replaced session lands in its successor's:
\* every such chunk costs the successor at most one line, over-long ones included.
LateChunkCostsOneLine == lost <= late

\* endChildProcess returns, and exit is believed, only when the child is gone: no
\* helper is spawned beside one that may still write to the stream ("Two writers to
\* one Kinesis Video stream is the failure this ordering exists to prevent").
OneChildAtATime ==
  \A s, t \in Sessions : child[s] = "alive" /\ child[t] = "alive" => s = t

\* endChildProcess comes back, after a failed spawn too, which no 'exit' announces
\* ("a wait with no deadline would sit there for the life of the process").
EndAlwaysReturns == pc # "idle" ~> pc = "idle"

=============================================================================
