---------------------------- MODULE KeyTrialProofs ----------------------------
(***************************************************************************)
(* Proofs about KeyTrial, for every (even) size of the sequence space and  *)
(* every pattern of loss and reordering: the tracker and libsrtp agree,    *)
(* the right key is kept, what is reported is authentic, and a packet is   *)
(* accepted once.                                                          *)
(***************************************************************************)
EXTENDS KeyTrial, TLAPS

-----------------------------------------------------------------------------
\* srtpdec holds the key the counters name, unless the session was reset since.
KeyIsHeld == lib # NoStream /\ keyCandidate # None => lib.seed = keyCandidate

\* The tracker beside libsrtp's stream: before the first packet both stand at the
\* seed, afterwards both have the same highest index.
InStep ==
  ~blind /\ lib # NoStream /\ pcS # "record" =>
    IF lib.index = None THEN highestSeq = None /\ roc = lib.seed
                        ELSE highestSeq # None /\ Index(roc, highestSeq) = lib.index

\* Between the verdict and the record libsrtp is one packet ahead: the tracker will
\* estimate that packet's true index, and then have caught up.
OneAhead ==
  pcS = "record" /\ ~blind =>
    /\ EstimatedIndex(LocalIndex, pkt % SeqMod) = pkt
    /\ lib # NoStream => lib.index = Higher(LocalIndex, pkt)

\* What was authenticated under which counter.
SeedIsSeen ==
  /\ lib # NoStream /\ lib.index # None => lib.seed \in rocsSeen
  /\ pcS = "record" => pkt \div SeqMod \in rocsSeen
  /\ (pcS = "record" \/ credit) /\ keyCandidate # None => keyCandidate \in rocsSeen

RocIsSeen ==
  /\ rocChanged => highestSeq # None
  /\ ~blind /\ (credit \/ highestSeq # None) => roc \in rocsSeen

\* A packet is at hand while the streaming thread works on it, and srtpdec holds a
\* stream while it is asked for a verdict.
AtWork ==
  /\ pcS \in {"in", "decode"} => pkt # None
  /\ pcS = "decode" => lib # NoStream
  /\ pcS = "record" => pkt \in Indexes

\* What arrives is no later than Late.
Timely == pcS # "idle" /\ pkt \in Indexes => cur # None /\ pkt + Late >= cur

\* Packets the helper must not accept again, as far back as a copy may arrive.
Spent == {i \in accepted \ raced : i + Late >= cur}

Covered(f, S) == \A i \in S : f # None /\ i <= f

\* libsrtp's window is gone, is about to go, or the tracker lost it from sight.
FloorAlone == blind \/ lib = NoStream \/ ~credit \/ pcT \in {"remove", "wipe"}

\* Each of them is in libsrtp's replay window or at or below the floor; at or below
\* the floor where the floor stands alone.
Refused ==
  /\ Covered(highestIndex, accepted \ raced)
  /\ FloorAlone => Covered(floor, Spent)
  /\ lib # NoStream => Covered(floor, Spent \ lib.seen)
  /\ pcS = "record" => Covered(floor, Spent \cap {pkt})
  /\ pcS = "record" /\ lib # NoStream => pkt \in lib.seen

TrialInv ==
  /\ KeyIsHeld /\ InStep /\ OneAhead /\ SeedIsSeen /\ RocIsSeen
  /\ AtWork /\ Timely /\ Refused

-----------------------------------------------------------------------------
\* Division with remainder.
LEMMA DivMod ==
  ASSUME NEW a \in Nat, NEW d \in Nat \ {0}
  PROVE  a = (a \div d) * d + (a % d)
OBVIOUS

\* An index is its counter and its sequence number ...
LEMMA Split ==
  ASSUME NEW i \in Estimates
  PROVE  /\ i \div SeqMod \in Rocs /\ i % SeqMod \in 0..(SeqMod - 1)
         /\ Index(i \div SeqMod, i % SeqMod) = i
<1>1. SeqMod \in Nat \ {0} /\ RocMax \in Nat
  BY TrialAssumption DEF RocMax
<1>2. i \in Nat /\ i < SeqMod * (RocMax + 1)
  BY <1>1 DEF Estimates
<1>3. i \div SeqMod \in Nat /\ i % SeqMod \in 0..(SeqMod - 1)
  BY <1>1, <1>2
<1>4. i \div SeqMod < RocMax + 1
  BY <1>1, <1>2
<1>5. i = (i \div SeqMod) * SeqMod + (i % SeqMod)
  BY <1>1, <1>2, DivMod
<1>6. i \div SeqMod \in Rocs
  BY <1>1, <1>3, <1>4 DEF Rocs
<1>7. Index(i \div SeqMod, i % SeqMod) = i
  BY <1>5 DEF Index
<1>8. QED
  BY <1>3, <1>6, <1>7

\* ... and a counter and a sequence number are an index.
LEMMA Join ==
  ASSUME NEW r \in Rocs, NEW s \in 0..(SeqMod - 1)
  PROVE  /\ Index(r, s) \in Estimates
         /\ Index(r, s) \div SeqMod = r /\ Index(r, s) % SeqMod = s
<1>1. SeqMod \in Nat \ {0} /\ RocMax \in Nat
  BY TrialAssumption DEF RocMax
<1>2. r * SeqMod \in Nat /\ r * SeqMod <= RocMax * SeqMod
  BY <1>1 DEF Rocs
<1>3. SeqMod * (RocMax + 1) = RocMax * SeqMod + SeqMod
  BY <1>1
<1>4. Index(r, s) \in Estimates
  BY <1>1, <1>2, <1>3 DEF Index, Estimates
<1>5. Index(r, s) \div SeqMod = r
  BY <1>1 DEF Rocs, Index
<1>6. Index(r, s) % SeqMod = s
  BY <1>1 DEF Rocs, Index
<1>7. QED
  BY <1>4, <1>5, <1>6

LEMMA IndexesEstimated == Indexes \subseteq Estimates
<1>1. SeqMod \in Nat \ {0} /\ MaxIndex \in Nat
  BY TrialAssumption
<1>2. MaxIndex < SeqMod * (RocMax + 1)
  BY <1>1 DEF RocMax
<1>3. QED
  BY <1>1, <1>2 DEF Indexes, Estimates, RocMax

LEMMA Mids == Midpoint \in Nat /\ Midpoint < SeqMod /\ 0 < Midpoint /\ 2 * Midpoint = SeqMod
BY TrialAssumption DEF Midpoint

\* An estimate stays within the counters, at both ends (the wrap of r - 1 and r + 1).
LEMMA EstimateType ==
  ASSUME NEW i \in Estimates, NEW s \in 0..(SeqMod - 1)
  PROVE  EstimatedIndex(i, s) \in Estimates
<1>1. SeqMod \in Nat \ {0} /\ RocMax \in Nat
  BY TrialAssumption DEF RocMax
<1>2. s \in Estimates
  <2>1. 0 \in Rocs
    BY <1>1 DEF Rocs
  <2>2. Index(0, s) = s
    BY <1>1 DEF Index
  <2>3. QED
    BY <2>1, <2>2, Join
<1>3. i \div SeqMod \in Rocs
  BY Split
<1>4. ASSUME NEW r \in Int PROVE r % (RocMax + 1) \in Rocs
  BY <1>1 DEF Rocs
<1>5. i \div SeqMod \in Int /\ (i \div SeqMod) - 1 \in Int /\ (i \div SeqMod) + 1 \in Int
  BY <1>1, <1>3 DEF Rocs
<1>6. QED
  BY <1>2, <1>3, <1>4, <1>5, Join DEF EstimatedIndex

\* A packet with the local index itself is estimated at it: what makes the first packet
\* of a stream, for which the tracker takes its own sequence number, come out right.
LEMMA EstimateSelf ==
  ASSUME NEW i \in Estimates
  PROVE  EstimatedIndex(i, i % SeqMod) = i
<1>1. SeqMod \in Nat \ {0} /\ i \in Nat
  BY TrialAssumption DEF Estimates
<1>2. CASE i <= Midpoint
  <2>1. i % SeqMod = i
    BY <1>1, <1>2, Mids
  <2>2. QED
    BY <1>2, <2>1 DEF EstimatedIndex
<1>3. CASE i > Midpoint
  <2>1. i % SeqMod \in Nat /\ Index(i \div SeqMod, i % SeqMod) = i
    BY <1>1, Split
  <2>2. QED
    BY <1>1, <1>3, <2>1, Mids DEF EstimatedIndex
<1>4. QED
  BY <1>1, <1>2, <1>3, Mids

-----------------------------------------------------------------------------
Flags ==
  /\ credit \in BOOLEAN /\ rocChanged \in BOOLEAN /\ arrived \in BOOLEAN
  /\ confirmed \in BOOLEAN /\ blind \in BOOLEAN

Places ==
  /\ cur \in Indexes \cup {None} /\ pkt \in Indexes \cup {None, Foreign}
  /\ pcS \in {"idle", "in", "decode", "record"}
  /\ pcT \in {"idle", "judge", "remove", "begin", "lost", "wipe"}
  /\ lastAuth \in {"never", "recent", "old"} /\ mode \in {"searching", "producing"}

Numbers ==
  /\ roc \in Rocs /\ highestSeq \in 0..(SeqMod - 1) \cup {None}
  /\ highestIndex \in Estimates \cup {None} /\ keyCandidate \in Rocs \cup {None}
  /\ candidate \in Rocs /\ floor \in Estimates \cup {None}

Seen ==
  /\ lib \in Streams \cup {NoStream}
  /\ rocsSeen \subseteq Rocs /\ accepted \subseteq Indexes /\ raced \subseteq Indexes

\* TypeOK by kinds of variable.
LEMMA TypeParts == TypeOK <=> Flags /\ Places /\ Numbers /\ Seen
BY DEF TypeOK, Flags, Places, Numbers, Seen

LEMMA Sizes ==
  /\ SeqMod \in Nat \ {0} /\ RocMax \in Nat /\ Rocs \subseteq Nat /\ 0 \in Rocs
  /\ Estimates \subseteq Nat /\ Indexes \subseteq Estimates
  /\ None \notin Nat /\ Foreign \notin Nat /\ None # Foreign
<1>1. SeqMod \in Nat \ {0} /\ RocMax \in Nat
  BY TrialAssumption DEF RocMax
<1>2. QED
  BY <1>1, IndexesEstimated DEF Rocs, Estimates, None, Foreign

LEMMA InitTypeOK == Init => TypeOK
<1> SUFFICES ASSUME Init PROVE TypeOK
  OBVIOUS
<1>2. floor \in Estimates \cup {None}
  BY Sizes, TrialAssumption DEF Init
<1>3. candidate \in Rocs
  BY <1>2, Sizes, Split DEF Init, Base
<1>1. Flags
  BY DEF Init, Flags
<1>4. Places /\ Seen
  BY DEF Init, Places, Seen
<1>5. Numbers
  BY <1>2, <1>3, Sizes DEF Init, Numbers
<1>6. QED
  BY <1>1, <1>4, <1>5, TypeParts

LEMMA HigherType ==
  ASSUME NEW S, NEW a \in S, NEW b \in S
  PROVE  Higher(a, b) \in S
BY DEF Higher

LEMMA BaseType ==
  ASSUME NEW f \in Estimates \cup {None}
  PROVE  Base(f) \in Rocs /\ Offers(f) \subseteq Rocs
<1>1. Base(f) \in Rocs
  BY Sizes, Split DEF Base
<1>2. QED
  BY <1>1, Sizes DEF Offers, Rocs

\* What Record computes with is in range.
LEMMA LocalType ==
  ASSUME Places, Numbers, pkt \in Indexes
  PROVE  /\ pkt \in Estimates /\ pkt % SeqMod \in 0..(SeqMod - 1)
         /\ pkt \div SeqMod \in Rocs
         /\ LocalIndex \in Estimates
         /\ EstimatedIndex(LocalIndex, pkt % SeqMod) \in Estimates
<1>1. pkt \in Estimates /\ pkt % SeqMod \in 0..(SeqMod - 1) /\ pkt \div SeqMod \in Rocs
  BY Sizes, Split
<1>2. LocalIndex \in Estimates
  <2>1. (IF highestSeq = None THEN pkt % SeqMod ELSE highestSeq) \in 0..(SeqMod - 1)
    BY <1>1 DEF Numbers
  <2>2. QED
    BY <2>1, Join DEF LocalIndex, Numbers
<1>3. QED
  BY <1>1, <1>2, EstimateType

-----------------------------------------------------------------------------
\* Type correctness, one lemma for each thread.
LEMMA StreamingTypeOK == ASSUME TypeOK, AtWork, Streaming PROVE TypeOK'
<1> USE DEF counters, history, port
<1>1. Flags /\ Places /\ Numbers /\ Seen
  BY TypeParts
<1>2. SUFFICES Flags' /\ Places' /\ Numbers' /\ Seen'
  BY TypeParts, PTL
<1>3. CASE Receive
  <2>1. Places'
    BY <1>1, <1>3 DEF Receive, Places
  <2>2. Numbers' /\ Seen'
    BY <1>1, <1>3 DEF Receive, Numbers, Seen
  <2>3. Flags'
    BY <1>1, <1>3 DEF Receive, Flags
  <2>4. QED
    BY <2>1, <2>2, <2>3
<1>4. CASE OtherSsrc
  <2>1. Places'
    BY <1>1, <1>4 DEF OtherSsrc, Places
  <2>2. Numbers' /\ Seen'
    BY <1>1, <1>4 DEF OtherSsrc, Numbers, Seen
  <2>3. Flags'
    BY <1>1, <1>4 DEF OtherSsrc, Flags
  <2>4. QED
    BY <2>1, <2>2, <2>3
<1>5. CASE RequestKey
  <2>1. Places'
    BY <1>1, <1>5 DEF RequestKey, Places
  <2>2. PICK key \in Rocs : candidate' = key /\ keyCandidate' = key /\ roc' = key
                            /\ lib' = [seed |-> key, index |-> None, seen |-> {}]
    BY <1>1, <1>5 DEF RequestKey, Numbers
  <2>3. Numbers' /\ Seen'
    BY <1>1, <1>5, <2>2 DEF RequestKey, Numbers, Seen, Streams
  <2>4. Flags'
    BY <1>1, <1>5 DEF RequestKey, Flags
  <2>5. QED
    BY <2>1, <2>3, <2>4
<1>6. CASE Decode
  <2>1. Flags'
    BY <1>1, <1>6 DEF Decode, Flags
  <2>2. Numbers'
    BY <1>1, <1>6 DEF Decode, Numbers
  <2>3. pkt # None /\ lib # NoStream
    BY <1>6 DEF Decode, AtWork
  <2>4. CASE pcS' = "record"
    <3>1. /\ pkt # Foreign /\ pkt' = pkt
          /\ lib' = [lib EXCEPT !.index = Higher(lib.index, pkt),
                                !.seen = Recent(lib.seen) \cup {pkt}]
          /\ rocsSeen' = rocsSeen \cup {pkt \div SeqMod}
      BY <1>6, <2>4 DEF Decode
    <3>2. pkt \in Indexes /\ pkt \in Estimates /\ lib \in Streams /\ pkt \div SeqMod \in Rocs
      BY <1>1, <2>3, <3>1, LocalType DEF Places, Seen
    <3>3. Higher(lib.index, pkt) \in Estimates \cup {None} /\ Recent(lib.seen) \subseteq Indexes
      BY <3>2 DEF Higher, Recent, Streams
    <3>4. lib' \in Streams
      BY <3>1, <3>2, <3>3 DEF Streams
    <3>5. Seen'
      BY <1>1, <1>6, <3>1, <3>2, <3>4 DEF Decode, Seen
    <3>6. Places'
      BY <1>1, <1>6, <2>4, <3>1 DEF Decode, Places
    <3>7. QED
      BY <2>1, <2>2, <3>5, <3>6
  <2>5. CASE pcS' # "record"
    <3>1. lib' = lib /\ rocsSeen' = rocsSeen /\ pcS' = "idle" /\ pkt' = None
      BY <1>6, <2>5 DEF Decode
    <3>2. Places' /\ Seen'
      BY <1>1, <1>6, <3>1 DEF Decode, Places, Seen
    <3>3. QED
      BY <2>1, <2>2, <3>2
  <2>6. QED
    BY <2>4, <2>5
<1>7. CASE Record
  <2> DEFINE index == EstimatedIndex(LocalIndex, pkt % SeqMod)
  <2>1. pkt \in Indexes
    BY <1>7 DEF Record, AtWork
  <2>2. index \in Estimates /\ LocalIndex \in Estimates
    BY <1>1, <2>1, LocalType
  <2>3. roc' \in Rocs /\ highestSeq' \in 0..(SeqMod - 1)
    <3>1. /\ roc' = IF index > LocalIndex THEN index \div SeqMod ELSE roc
          /\ highestSeq' = IF index > LocalIndex THEN index % SeqMod ELSE LocalIndex % SeqMod
      BY <1>7 DEF Record, Tracked
    <3>2. /\ index \div SeqMod \in Rocs /\ index % SeqMod \in 0..(SeqMod - 1)
          /\ LocalIndex % SeqMod \in 0..(SeqMod - 1)
      BY <2>2, Split
    <3>3. QED
      BY <1>1, <3>1, <3>2 DEF Numbers
  <2>4. highestIndex' \in Estimates \cup {None}
    <3>1. highestIndex' = highestIndex \/ highestIndex' = Higher(highestIndex, index)
      BY <1>7 DEF Record
    <3>2. QED
      BY <1>1, <2>2, <3>1 DEF Numbers, Higher
  <2>5. Numbers'
    BY <1>1, <1>7, <2>3, <2>4 DEF Record, Numbers
  <2>6. Places'
    BY <1>1, <1>7 DEF Record, Places
  <2>7. accepted' \subseteq Indexes /\ raced' \subseteq Indexes
    BY <1>1, <1>7, <2>1 DEF Record, Recent, Seen
  <2>8. Seen'
    BY <1>1, <1>7, <2>7 DEF Record, Seen
  <2>9. Flags'
    <3>1. credit' \in BOOLEAN
      BY <1>1, <1>7 DEF Record, Flags
    <3>2. rocChanged' \in BOOLEAN
      BY <1>7 DEF Record, Tracked
    <3>3. QED
      BY <1>1, <1>7, <3>1, <3>2 DEF Record, Flags
  <2>10. QED
    BY <2>5, <2>6, <2>8, <2>9
<1>8. QED
  BY <1>3, <1>4, <1>5, <1>6, <1>7 DEF Streaming

LEMMA SomeStream ==
  ASSUME NEW l \in Streams PROVE l # NoStream
<1>1. l.seed \in Rocs /\ NoStream.seed = None /\ None \notin Rocs
  BY Sizes DEF Streams, NoStream
<1>2. QED
  BY <1>1

LEMMA RaiseType ==
  ASSUME Numbers, NEW seed \in Rocs \cup {None}, Raise(seed)
  PROVE  floor' \in Estimates \cup {None} /\ candidate' \in Rocs
<1>1. floor' \in Estimates \cup {None}
  BY DEF Raise, Numbers, Higher
<1>2. QED
  BY <1>1, BaseType DEF Raise

LEMMA RebuildTypeOK ==
  ASSUME Flags, Numbers, Seen, NEW seed \in Rocs \cup {None}, Rebuild(seed)
  PROVE  Flags' /\ Numbers' /\ Seen'
<1> USE DEF counters, history, port
<1>1. floor' \in Estimates \cup {None} /\ candidate' \in Rocs
  BY RaiseType DEF Rebuild
<1>2. Numbers'
  BY <1>1 DEF Rebuild, Wipe, Numbers
<1>3. Seen'
  BY DEF Rebuild, Seen
<1>4. Flags'
  BY DEF Rebuild, Wipe, Flags
<1>5. QED
  BY <1>2, <1>3, <1>4

LEMMA LookTypeOK ==
  ASSUME Flags, Places, Numbers, Seen, Look,
         confirmed' \in BOOLEAN, pcT' \in {"idle", "judge", "lost"}
  PROVE  Flags' /\ Places' /\ Numbers' /\ Seen'
<1>1. candidate' \in Rocs
  BY DEF Look, Numbers
<1>2. Numbers' /\ Seen'
  BY <1>1 DEF Look, Numbers, Seen
<1>3. Places'
  BY DEF Look, Places
<1>4. Flags'
  BY DEF Look, Flags
<1>5. QED
  BY <1>2, <1>3, <1>4

LEMMA TickTypeOK == ASSUME TypeOK, Tick PROVE TypeOK'
<1> USE DEF counters, history, port
<1>1. Flags /\ Places /\ Numbers /\ Seen
  BY TypeParts
<1>2. SUFFICES Flags' /\ Places' /\ Numbers' /\ Seen'
  BY TypeParts, PTL
<1>3. CASE LookLost \/ LookJudge \/ LookConfirm \/ LookWrap
  <2>1. Look /\ pcT' \in {"idle", "judge", "lost"}
    BY <1>3 DEF LookLost, LookJudge, LookConfirm, LookWrap, Look
  <2>2. confirmed' \in BOOLEAN
    BY <1>1, <1>3 DEF LookLost, LookJudge, LookConfirm, LookWrap, Flags
  <2>3. QED
    BY <1>1, <2>1, <2>2, LookTypeOK
<1>4. CASE Step
  <2>1. candidate' \in Rocs
    BY <1>1, <1>4, BaseType DEF Step, Numbers
  <2>2. Numbers' /\ Seen'
    BY <1>1, <1>4, <2>1 DEF Step, Numbers, Seen
  <2>3. Places'
    BY <1>1, <1>4 DEF Step, Places
  <2>4. Flags'
    BY <1>1, <1>4 DEF Step, Flags
  <2>5. QED
    BY <2>2, <2>3, <2>4
<1>5. CASE RemoveKey
  <2>1. Numbers' /\ Seen'
    BY <1>1, <1>5 DEF RemoveKey, Numbers, Seen
  <2>2. Places'
    BY <1>1, <1>5 DEF RemoveKey, Places
  <2>3. Flags'
    BY <1>1, <1>5 DEF RemoveKey, Flags
  <2>4. QED
    BY <2>1, <2>2, <2>3
<1>6. CASE BeginTrial
  <2>1. Numbers' /\ Seen'
    BY <1>1, <1>6 DEF BeginTrial, Numbers, Seen
  <2>2. Places'
    BY <1>1, <1>6 DEF BeginTrial, Places
  <2>3. Flags'
    BY <1>1, <1>6 DEF BeginTrial, Flags
  <2>4. QED
    BY <2>1, <2>2, <2>3
<1>7. CASE LostInPlace
  <2>1. floor' \in Estimates \cup {None} /\ candidate' \in Rocs
    BY <1>1, <1>7, RaiseType DEF LostInPlace
  <2>2. Numbers' /\ Seen'
    BY <1>1, <1>7, <2>1 DEF LostInPlace, Numbers, Seen
  <2>3. Places'
    BY <1>1, <1>7 DEF LostInPlace, Places
  <2>4. Flags'
    BY <1>1, <1>7 DEF LostInPlace, Flags
  <2>5. QED
    BY <2>2, <2>3, <2>4
<1>8. CASE WipeInPlace
  <2>1. Numbers' /\ Seen'
    BY <1>1, <1>8 DEF WipeInPlace, Wipe, Numbers, Seen
  <2>2. Places'
    BY <1>1, <1>8 DEF WipeInPlace, Places
  <2>3. Flags'
    BY <1>1, <1>8 DEF WipeInPlace, Wipe, Flags
  <2>4. QED
    BY <2>1, <2>2, <2>3
<1>9. QED
  BY <1>3, <1>4, <1>5, <1>6, <1>7, <1>8 DEF Tick

LEMMA OthersTypeOK == ASSUME TypeOK, Silence \/ Grant \/ GiveUp PROVE TypeOK'
<1> USE DEF counters, history, port
<1>1. Flags /\ Places /\ Numbers /\ Seen
  BY TypeParts
<1>2. SUFFICES Flags' /\ Places' /\ Numbers' /\ Seen'
  BY TypeParts, PTL
<1>3. CASE Silence
  <2>1. Numbers' /\ Seen'
    BY <1>1, <1>3 DEF Silence, Numbers, Seen
  <2>2. Places'
    BY <1>1, <1>3 DEF Silence, Places
  <2>3. Flags'
    BY <1>1, <1>3 DEF Silence, Flags
  <2>4. QED
    BY <2>1, <2>2, <2>3
<1>4. CASE Grant
  <2>1. PICK seed \in Rocs \cup {None} : Rebuild(seed)
    BY <1>1, <1>4 DEF Grant, Numbers
  <2>2. Flags' /\ Numbers' /\ Seen'
    BY <1>1, <2>1, RebuildTypeOK
  <2>3. Places'
    BY <1>1, <1>4, <2>1 DEF Grant, Rebuild, Places
  <2>4. QED
    BY <2>2, <2>3
<1>5. CASE GiveUp
  <2>1. Flags' /\ Numbers' /\ Seen'
    BY <1>1, <1>5, RebuildTypeOK DEF GiveUp
  <2>2. Places'
    BY <1>1, <1>5 DEF GiveUp, Rebuild, Places
  <2>3. QED
    BY <2>1, <2>2
<1>6. QED
  BY <1>3, <1>4, <1>5

LEMMA StutterTypeOK == ASSUME TypeOK, UNCHANGED vars PROVE TypeOK'
BY DEF TypeOK, vars, counters, history, port

\* At work with a packet: AtWork is inductive once the types are known.
LEMMA AtWorkKept == ASSUME TypeOK, AtWork, [Next]_vars PROVE AtWork'
<1> USE DEF counters, history, port
<1>1. Places /\ Numbers
  BY TypeParts
<1>2. CASE Receive
  BY <1>1, <1>2, Sizes DEF Receive, AtWork
<1>3. CASE OtherSsrc
  BY <1>3 DEF OtherSsrc, AtWork
<1>4. CASE RequestKey
  <2>1. PICK key \in Rocs : lib' = [seed |-> key, index |-> None, seen |-> {}]
    BY <1>1, <1>4 DEF RequestKey, Numbers
  <2>2. lib' # NoStream
    BY <2>1, Sizes DEF NoStream
  <2>3. QED
    BY <1>4, <2>2 DEF RequestKey, AtWork
<1>5. CASE Decode
  <2>1. pcS' = "record" => pkt' = pkt /\ pkt # Foreign /\ pkt # None
    BY <1>5 DEF Decode, AtWork
  <2>2. pcS' \in {"record", "idle"}
    BY <1>5 DEF Decode
  <2>3. QED
    BY <1>1, <2>1, <2>2 DEF Places, AtWork
<1>6. CASE Record
  BY <1>6 DEF Record, AtWork
<1>7. CASE Tick
  <2>1. pcS' = pcS /\ pkt' = pkt /\ (pcS = "decode" => lib' = lib)
    BY <1>7 DEF Tick, LookLost, LookJudge, LookConfirm, LookWrap, Look, Step, RemoveKey,
                BeginTrial, LostInPlace, WipeInPlace
  <2>2. QED
    BY <2>1 DEF AtWork
<1>8. CASE Silence \/ Grant \/ GiveUp
  BY <1>8 DEF Silence, Grant, GiveUp, Rebuild, AtWork
<1>9. CASE UNCHANGED vars
  BY <1>9 DEF vars, AtWork
<1>10. QED
  BY <1>2, <1>3, <1>4, <1>5, <1>6, <1>7, <1>8, <1>9 DEF Next, Streaming

\* Every variable holds a value of its type, for every size of the sequence space,
\* whatever is lost, late or foreign.
THEOREM SpecTypeOK == Spec => []TypeOK
<1>1. Init => TypeOK /\ AtWork
  BY InitTypeOK DEF Init, AtWork
<1>2. TypeOK /\ AtWork /\ [Next]_vars => (TypeOK /\ AtWork)'
  BY StreamingTypeOK, TickTypeOK, OthersTypeOK, StutterTypeOK, AtWorkKept DEF Next
<1>3. QED
  BY <1>1, <1>2, PTL DEF Spec

-----------------------------------------------------------------------------
\* The steps that leave the tracker and srtpdec's stream alone.
Elsewhere ==
  \/ Receive \/ OtherSsrc \/ LookLost \/ LookJudge \/ LookConfirm \/ LookWrap
  \/ Step \/ BeginTrial \/ LostInPlace \/ Silence \/ UNCHANGED vars

Aside == UNCHANGED <<lib, roc, highestSeq, keyCandidate, credit, rocsSeen, blind>>

LEMMA ElsewhereIsAside ==
  ASSUME Elsewhere
  PROVE  /\ Aside
         /\ pcS' = "record" => pcS = "record" /\ pkt' = pkt
         /\ pcS = "record" => pcS' = "record"
         /\ rocChanged' => rocChanged
<1>1. CASE Receive \/ OtherSsrc \/ Silence \/ UNCHANGED vars
  BY <1>1 DEF Receive, OtherSsrc, Silence, vars, counters, history, port, Aside
<1>2. CASE LookLost \/ LookJudge \/ LookConfirm \/ LookWrap
  BY <1>2 DEF LookLost, LookJudge, LookConfirm, LookWrap, Look, Aside
<1>3. CASE Step \/ BeginTrial \/ LostInPlace
  BY <1>3 DEF Step, BeginTrial, LostInPlace, counters, history, port, Aside
<1>4. QED
  BY <1>1, <1>2, <1>3 DEF Elsewhere

\* What the others do to them.
Rebuilt == \E seed : Rebuild(seed)

LEMMA StepKinds ==
  ASSUME [Next]_vars
  PROVE  Elsewhere \/ RequestKey \/ Decode \/ Record \/ RemoveKey \/ WipeInPlace \/ Rebuilt
BY DEF Next, Streaming, Tick, Elsewhere, Grant, GiveUp, Rebuilt

\* A verdict, as an equation for each of its two outcomes.
Passed ==
  /\ pkt \in Indexes /\ Estimate = pkt /\ pkt \notin lib.seen
  /\ pkt' = pkt /\ pcS' = "record"
  /\ lib' # NoStream /\ lib'.seed = lib.seed /\ lib'.index = Higher(lib.index, pkt)
  /\ lib'.seen = Recent(lib.seen) \cup {pkt}
  /\ rocsSeen' = rocsSeen \cup {pkt \div SeqMod}

Dropped == pcS' = "idle" /\ pkt' = None /\ UNCHANGED <<lib, rocsSeen>>

LEMMA Verdict ==
  ASSUME TypeOK, AtWork, Decode
  PROVE  /\ lib \in Streams /\ pcS # "record" /\ (Passed \/ Dropped)
         /\ UNCHANGED <<cur, roc, highestSeq, highestIndex, keyCandidate, credit,
                        lastAuth, rocChanged, arrived, candidate, floor, confirmed,
                        mode, pcT, accepted, raced, blind>>
<1>1. pkt # None /\ lib # NoStream /\ pcS # "record"
  BY DEF Decode, AtWork
<1>2. lib \in Streams /\ pkt \in Indexes \cup {Foreign}
  BY <1>1, TypeParts DEF Seen, Places
<1>3. CASE pkt # Foreign /\ Estimate = pkt /\ pkt \notin lib.seen
  <2>1. /\ lib' = [lib EXCEPT !.index = Higher(lib.index, pkt),
                              !.seen = Recent(lib.seen) \cup {pkt}]
        /\ rocsSeen' = rocsSeen \cup {pkt \div SeqMod}
        /\ pcS' = "record" /\ pkt' = pkt
    BY <1>3 DEF Decode
  <2>2. /\ lib'.seed = lib.seed /\ lib'.index = Higher(lib.index, pkt)
        /\ lib'.seen = Recent(lib.seen) \cup {pkt}
    BY <1>2, <2>1 DEF Streams
  <2>3. lib' # NoStream
    BY <1>2, <2>2, Sizes DEF NoStream, Streams
  <2>4. Passed
    BY <1>2, <1>3, <2>1, <2>2, <2>3 DEF Passed
  <2>5. QED
    BY <1>1, <1>2, <2>4 DEF Decode, counters, port
<1>4. CASE ~(pkt # Foreign /\ Estimate = pkt /\ pkt \notin lib.seen)
  <2>1. Dropped
    BY <1>4 DEF Decode, Dropped
  <2>2. QED
    BY <1>1, <1>2, <2>1 DEF Decode, counters, port
<1>5. QED
  BY <1>3, <1>4

\* The key RequestKey hands out.
LEMMA Handed ==
  ASSUME TypeOK, RequestKey
  PROVE  \E key \in Rocs :
            /\ keyCandidate' = key /\ roc' = key /\ lib' # NoStream
            /\ lib'.seed = key /\ lib'.index = None /\ lib'.seen = {}
            /\ credit' => credit /\ keyCandidate = key /\ keyCandidate # None
            /\ credit /\ keyCandidate # None => credit' /\ keyCandidate = key
<1>1. DEFINE back == keyCandidate # None /\ credit
             key == IF back THEN keyCandidate ELSE candidate
<1>2. key \in Rocs
  BY TypeParts DEF Numbers
<1>3. /\ keyCandidate' = key /\ roc' = key /\ credit' = back
      /\ lib' = [seed |-> key, index |-> None, seen |-> {}]
  BY DEF RequestKey
<1>4. lib'.seed = key /\ lib'.index = None /\ lib'.seen = {}
  BY <1>3
<1>5. lib' # NoStream
  <2>1. NoStream.seed = None /\ None \notin Rocs
    BY Sizes DEF NoStream
  <2>2. QED
    BY <1>2, <1>4, <2>1, Zenon
<1>6. credit' <=> back
  BY <1>3, TypeParts DEF Flags
<1>7. back => key = keyCandidate
  OBVIOUS
<1>8. WITNESS key \in Rocs
<1>9. QED
  BY <1>3, <1>4, <1>5, <1>6, <1>7, Zenon

-----------------------------------------------------------------------------
\* Only RequestKey names a key, and it names the one it hands to srtpdec.
LEMMA KeyIsHeldKept ==
  ASSUME TypeOK, AtWork, KeyIsHeld, [Next]_vars PROVE KeyIsHeld'
<1>1. CASE Elsewhere
  BY <1>1, ElsewhereIsAside DEF Aside, KeyIsHeld
<1>2. CASE RequestKey
  BY <1>2, Handed DEF KeyIsHeld
<1>3. CASE Decode
  <2>1. lib \in Streams /\ (Passed \/ Dropped) /\ keyCandidate' = keyCandidate
    BY <1>3, Verdict
  <2>2. lib # NoStream /\ lib'.seed = lib.seed
    BY <2>1, SomeStream DEF Passed, Dropped
  <2>3. QED
    BY <2>1, <2>2 DEF KeyIsHeld
<1>4. CASE Record
  BY <1>4 DEF Record, KeyIsHeld
<1>5. CASE RemoveKey \/ WipeInPlace \/ Rebuilt
  BY <1>5 DEF RemoveKey, WipeInPlace, Wipe, Rebuilt, Rebuild, KeyIsHeld
<1>6. QED
  BY <1>1, <1>2, <1>3, <1>4, <1>5, StepKinds

\* The tracker's move, once its estimate is the packet's true index.
LEMMA Move ==
  ASSUME TypeOK, AtWork, OneAhead, ~blind, Record
  PROVE  /\ pkt \in Indexes /\ pkt \in Estimates /\ LocalIndex \in Estimates
         /\ EstimatedIndex(LocalIndex, pkt % SeqMod) = pkt
         /\ roc' \in Rocs /\ highestSeq' \in 0..(SeqMod - 1)
         /\ Index(roc', highestSeq') = Higher(LocalIndex, pkt)
         /\ roc' = IF pkt > LocalIndex THEN pkt \div SeqMod ELSE roc
<1>1. pkt \in Indexes /\ EstimatedIndex(LocalIndex, pkt % SeqMod) = pkt
  BY DEF Record, AtWork, OneAhead
<1>2. Numbers /\ Places
  BY TypeParts
<1>3. pkt \in Estimates /\ LocalIndex \in Estimates /\ pkt % SeqMod \in 0..(SeqMod - 1)
  BY <1>1, <1>2, LocalType
<1>4. /\ roc' = IF pkt > LocalIndex THEN pkt \div SeqMod ELSE roc
      /\ highestSeq' = IF pkt > LocalIndex THEN pkt % SeqMod ELSE LocalIndex % SeqMod
  BY <1>1 DEF Record, Tracked
<1>5. roc \in Rocs /\ LocalIndex \div SeqMod = roc
  <2> DEFINE s == IF highestSeq = None THEN pkt % SeqMod ELSE highestSeq
  <2>1. roc \in Rocs /\ s \in 0..(SeqMod - 1)
    BY <1>2, <1>3 DEF Numbers
  <2>2. Index(roc, s) \div SeqMod = roc
    BY <2>1, Join
  <2>3. QED
    BY <2>1, <2>2 DEF LocalIndex
<1>6. CASE pkt > LocalIndex
  <2>1. roc' = pkt \div SeqMod /\ highestSeq' = pkt % SeqMod
    BY <1>4, <1>6
  <2>2. Index(roc', highestSeq') = pkt /\ roc' \in Rocs /\ highestSeq' \in 0..(SeqMod - 1)
    BY <1>3, <2>1, Split
  <2>3. Higher(LocalIndex, pkt) = pkt
    BY <1>3, <1>6, Sizes DEF Higher
  <2>4. QED
    BY <1>1, <1>3, <1>4, <2>2, <2>3
<1>7. CASE ~(pkt > LocalIndex)
  <2>1. roc' = roc /\ highestSeq' = LocalIndex % SeqMod
    BY <1>4, <1>7
  <2>2. Index(roc', highestSeq') = LocalIndex /\ roc' \in Rocs /\ highestSeq' \in 0..(SeqMod - 1)
    BY <1>3, <1>5, <2>1, Split
  <2>3. Higher(LocalIndex, pkt) = LocalIndex
    BY <1>3, <1>7, Sizes DEF Higher
  <2>4. QED
    BY <1>1, <1>3, <1>4, <2>2, <2>3
<1>8. QED
  BY <1>6, <1>7

\* With a stream, a verdict leaves the tracker exactly one packet behind.
LEMMA InStepKept ==
  ASSUME TypeOK, AtWork, InStep, OneAhead, [Next]_vars PROVE InStep' /\ OneAhead'
<1>1. CASE Elsewhere
  <2>1. Aside /\ (pcS = "record" <=> pcS' = "record")
    BY <1>1, ElsewhereIsAside
  <2>2. InStep'
    BY <2>1 DEF Aside, InStep
  <2>3. pcS' = "record" => pkt' = pkt
    BY <1>1, ElsewhereIsAside
  <2>4. OneAhead'
    BY <2>1, <2>3 DEF Aside, OneAhead, LocalIndex
  <2>5. QED
    BY <2>2, <2>4
<1>2. CASE RequestKey
  <2>1. pcS' = "decode" /\ highestSeq' = None
    BY <1>2 DEF RequestKey
  <2>2. roc' = lib'.seed /\ lib'.index = None
    BY <1>2, Handed
  <2>3. QED
    BY <2>1, <2>2 DEF InStep, OneAhead
<1>3. CASE Decode
  <2>1. /\ lib \in Streams /\ pcS # "record" /\ (Passed \/ Dropped)
        /\ UNCHANGED <<roc, highestSeq, blind>>
    BY <1>3, Verdict
  <2>2. CASE Dropped
    BY <2>1, <2>2 DEF Dropped, InStep, OneAhead
  <2>3. CASE Passed
    <3>1. pkt' = pkt /\ LocalIndex' = LocalIndex /\ blind' = blind /\ pcS' = "record"
      BY <2>1, <2>3 DEF Passed, LocalIndex
    <3>7. InStep'
      BY <3>1 DEF InStep
    <3>2. SUFFICES ASSUME ~blind
                   PROVE  /\ EstimatedIndex(LocalIndex, pkt % SeqMod) = pkt
                          /\ Higher(lib.index, pkt) = Higher(LocalIndex, pkt)
      BY <2>3, <3>1, <3>7 DEF Passed, OneAhead
    <3>3. pkt \in Estimates /\ lib # NoStream /\ Estimate = pkt
      BY <2>1, <2>3, Sizes, SomeStream DEF Passed
    <3>4. CASE lib.index = None
      <4>1. LocalIndex = Index(lib.seed, pkt % SeqMod)
        BY <2>1, <3>2, <3>3, <3>4 DEF InStep, LocalIndex
      <4>2. LocalIndex = pkt
        BY <3>3, <3>4, <4>1 DEF Estimate
      <4>3. Higher(None, pkt) = pkt /\ Higher(pkt, pkt) = pkt
        BY <3>3, Sizes DEF Higher, None
      <4>4. QED
        BY <3>3, <3>4, <4>2, <4>3, EstimateSelf
    <3>5. CASE lib.index # None
      <4>1. LocalIndex = lib.index
        BY <2>1, <3>2, <3>3, <3>5 DEF InStep, LocalIndex
      <4>2. QED
        BY <3>3, <3>5, <4>1 DEF Estimate
    <3>6. QED
      BY <3>4, <3>5
  <2>4. QED
    BY <2>1, <2>2, <2>3
<1>4. CASE Record
  <2>1. pcS = "record" /\ pcS' = "idle" /\ lib' = lib /\ blind' = blind
    BY <1>4 DEF Record
  <2>2. OneAhead'
    BY <2>1 DEF OneAhead
  <2>3. ASSUME ~blind, lib # NoStream
        PROVE  lib.index # None /\ highestSeq' # None /\ Index(roc', highestSeq') = lib.index
    <3>1. lib.index = Higher(LocalIndex, pkt)
      BY <2>1, <2>3 DEF OneAhead
    <3>2. /\ highestSeq' \in 0..(SeqMod - 1) /\ Index(roc', highestSeq') = Higher(LocalIndex, pkt)
          /\ LocalIndex \in Estimates /\ pkt \in Estimates
      BY <1>4, <2>3, Move
    <3>3. QED
      BY <3>1, <3>2, Sizes, HigherType DEF None
  <2>4. QED
    BY <2>1, <2>2, <2>3 DEF InStep
<1>5. CASE RemoveKey
  BY <1>5 DEF RemoveKey, counters, history, port, InStep, OneAhead, LocalIndex
<1>6. CASE WipeInPlace
  <2>1. /\ blind' = (lib # NoStream \/ pcS = "record")
        /\ lib' = lib /\ pcS' = pcS
    BY <1>6 DEF WipeInPlace
  <2>2. QED
    BY <2>1 DEF InStep, OneAhead
<1>7. CASE Rebuilt
  BY <1>7 DEF Rebuilt, Rebuild, InStep, OneAhead
<1>8. QED
  BY <1>1, <1>2, <1>3, <1>4, <1>5, <1>6, <1>7, StepKinds

\* A verdict puts the packet's counter among the seen, and for the first packet of a
\* stream that is the seed.
LEMMA SeedIsSeenKept ==
  ASSUME TypeOK, AtWork, KeyIsHeld, SeedIsSeen, [Next]_vars PROVE SeedIsSeen'
<1>1. CASE Elsewhere
  <2>1. Aside /\ (pcS' = "record" => pcS = "record" /\ pkt' = pkt)
    BY <1>1, ElsewhereIsAside
  <2>2. QED
    BY <2>1 DEF Aside, SeedIsSeen
<1>2. CASE RequestKey
  <2>1. pcS' = "decode" /\ rocsSeen' = rocsSeen
    BY <1>2 DEF RequestKey
  <2>2. /\ lib'.index = None
        /\ credit' => credit /\ keyCandidate' = keyCandidate /\ keyCandidate # None
    BY <1>2, Handed
  <2>3. QED
    BY <2>1, <2>2 DEF SeedIsSeen
<1>3. CASE Decode
  <2>1. /\ lib \in Streams /\ lib # NoStream /\ (Passed \/ Dropped)
        /\ UNCHANGED <<keyCandidate, credit>>
    BY <1>3, Verdict, SomeStream
  <2>2. CASE Dropped
    BY <2>1, <2>2 DEF Dropped, SeedIsSeen
  <2>3. CASE Passed
    <3>1. lib.seed \in rocsSeen'
      <4>1. CASE lib.index = None
        <5>1. pkt = Index(lib.seed, pkt % SeqMod)
          BY <2>3, <4>1 DEF Passed, Estimate
        <5>2. pkt % SeqMod \in 0..(SeqMod - 1) /\ lib.seed \in Rocs
          BY <2>1, <2>3, LocalType, TypeParts DEF Passed, Streams
        <5>3. pkt \div SeqMod = lib.seed
          BY <5>1, <5>2, Join
        <5>4. QED
          BY <2>3, <5>3 DEF Passed
      <4>2. CASE lib.index # None
        BY <2>1, <2>3, <4>2 DEF Passed, SeedIsSeen
      <4>3. QED
        BY <4>1, <4>2
    <3>2. keyCandidate # None => keyCandidate = lib.seed
      BY <2>1 DEF KeyIsHeld
    <3>3. QED
      BY <2>1, <2>3, <3>1, <3>2 DEF Passed, SeedIsSeen
  <2>4. QED
    BY <2>1, <2>2, <2>3
<1>4. CASE Record
  BY <1>4 DEF Record, SeedIsSeen
<1>5. CASE RemoveKey
  BY <1>5 DEF RemoveKey, counters, history, port, SeedIsSeen
<1>6. CASE WipeInPlace
  BY <1>6 DEF WipeInPlace, Wipe, SeedIsSeen
<1>7. CASE Rebuilt
  BY <1>7 DEF Rebuilt, Rebuild, Wipe, history, SeedIsSeen
<1>8. QED
  BY <1>1, <1>2, <1>3, <1>4, <1>5, <1>6, <1>7, StepKinds

\* The tracker moves only to the counter of a packet that authenticated.
LEMMA RocIsSeenKept ==
  ASSUME TypeOK, AtWork, OneAhead, SeedIsSeen, RocIsSeen, [Next]_vars PROVE RocIsSeen'
<1>1. CASE Elsewhere
  <2>1. Aside /\ (rocChanged' => rocChanged)
    BY <1>1, ElsewhereIsAside
  <2>2. QED
    BY <2>1 DEF Aside, RocIsSeen
<1>2. CASE RequestKey
  <2>1. rocChanged' = FALSE /\ highestSeq' = None /\ rocsSeen' = rocsSeen
    BY <1>2 DEF RequestKey
  <2>2. credit' => credit /\ roc' = keyCandidate /\ keyCandidate # None
    BY <1>2, Handed
  <2>3. QED
    BY <2>1, <2>2 DEF SeedIsSeen, RocIsSeen
<1>3. CASE Decode
  <2>1. /\ UNCHANGED <<roc, highestSeq, rocChanged, credit, blind>>
        /\ rocsSeen \subseteq rocsSeen'
    BY <1>3, Verdict DEF Passed, Dropped
  <2>2. QED
    BY <2>1 DEF RocIsSeen
<1>4. CASE Record
  <2>1. pcS = "record" /\ pkt \in Indexes /\ rocsSeen' = rocsSeen /\ blind' = blind
    BY <1>4 DEF Record, AtWork
  <2>2. highestSeq' # None
    <3> DEFINE index == EstimatedIndex(LocalIndex, pkt % SeqMod)
    <3>1. index \in Estimates /\ LocalIndex \in Estimates
      BY <2>1, TypeParts, LocalType
    <3>2. highestSeq' = index % SeqMod \/ highestSeq' = LocalIndex % SeqMod
      BY <1>4 DEF Record, Tracked
    <3> HIDE DEF index
    <3>3. QED
      BY <3>1, <3>2, Split DEF None
  <2>3. ASSUME ~blind PROVE roc' \in rocsSeen
    <3>1. /\ LocalIndex \in Estimates /\ pkt \in Estimates
          /\ roc' = IF pkt > LocalIndex THEN pkt \div SeqMod ELSE roc
      BY <1>4, <2>3, Move
    <3>2. pkt \div SeqMod \in rocsSeen
      BY <2>1 DEF SeedIsSeen
    <3>3. CASE highestSeq = None
      <4>1. pkt % SeqMod \in 0..(SeqMod - 1) /\ roc \in Rocs
        BY <2>1, TypeParts, LocalType DEF Numbers
      <4>2. /\ LocalIndex = Index(roc, pkt % SeqMod)
            /\ LocalIndex % SeqMod = pkt % SeqMod /\ LocalIndex \div SeqMod = roc
        BY <3>3, <4>1, Join DEF LocalIndex
      <4>3. EstimatedIndex(LocalIndex, pkt % SeqMod) = LocalIndex
        BY <3>1, <4>2, EstimateSelf
      <4>4. pkt = LocalIndex
        BY <2>1, <2>3, <4>3 DEF OneAhead
      <4>5. QED
        BY <3>1, <3>2, <4>2, <4>4
    <3>4. CASE highestSeq # None
      BY <2>3, <3>1, <3>2, <3>4 DEF RocIsSeen
    <3>5. QED
      BY <3>3, <3>4
  <2>4. QED
    BY <2>1, <2>2, <2>3 DEF RocIsSeen
<1>5. CASE RemoveKey
  BY <1>5 DEF RemoveKey, counters, history, port, RocIsSeen
<1>6. CASE WipeInPlace
  BY <1>6 DEF WipeInPlace, Wipe, RocIsSeen
<1>7. CASE Rebuilt
  BY <1>7 DEF Rebuilt, Rebuild, Wipe, history, RocIsSeen
<1>8. QED
  BY <1>1, <1>2, <1>3, <1>4, <1>5, <1>6, <1>7, StepKinds

LEMMA TimelyKept ==
  ASSUME TypeOK, Timely, [Next]_vars PROVE Timely'
<1>1. Late \in Nat /\ Indexes \subseteq Nat
  BY TrialAssumption DEF Indexes
<1>2. CASE Receive
  <2>1. cur \in Int /\ cur \in Indexes \cup {None}
    <3>1. cur \in Indexes \cup {None}
      BY TypeParts DEF Places
    <3>2. None \in Int
      BY DEF None
    <3>3. QED
      BY <1>1, <3>1, <3>2
  <2>2. CASE \E p \in Indexes : cur < p /\ p <= cur + 1 + Gap /\ pkt' = p /\ cur' = p
    <3>1. PICK p \in Indexes : pkt' = p /\ cur' = p
      BY <2>2
    <3>2. p + Late >= p /\ p # None
      BY <1>1 DEF None
    <3>3. QED
      BY <3>1, <3>2 DEF Timely
  <2>3. CASE \E p \in Indexes : cur # None /\ cur - Late <= p /\ p <= cur
                                /\ pkt' = p /\ UNCHANGED cur
    BY <1>1, <2>1, <2>3 DEF Timely
  <2>4. CASE pkt' = Foreign
    BY <1>1, <2>4, Sizes DEF Timely
  <2>5. QED
    BY <1>2, <2>2, <2>3, <2>4 DEF Receive
<1>3. CASE ~Receive
  <2>1. cur' = cur /\ (pkt' = pkt \/ pkt' = None) /\ (pcS' # "idle" => pcS # "idle")
    BY <1>3 DEF Next, Streaming, OtherSsrc, RequestKey, Decode, Record, Tick, LookLost,
      LookJudge, LookConfirm, LookWrap, Look, Step, RemoveKey, BeginTrial, LostInPlace,
      WipeInPlace, Silence, Grant, GiveUp, Rebuild, vars
  <2>2. QED
    BY <1>1, <2>1, Sizes DEF Timely
<1>4. QED
  BY <1>2, <1>3

-----------------------------------------------------------------------------
LEMMA CoveredPart ==
  ASSUME NEW f, NEW T, NEW S \in SUBSET T, Covered(f, T)
  PROVE  Covered(f, S)
BY DEF Covered

\* A bound that is raised still covers.
LEMMA CoveredHigher ==
  ASSUME NEW a \in Estimates \cup {None}, NEW b \in Estimates \cup {None},
         NEW S \in SUBSET Indexes, Covered(a, S)
  PROVE  Covered(Higher(a, b), S) /\ Covered(Higher(b, a), S)
<1>1. SUFFICES ASSUME NEW i \in S
               PROVE  /\ Higher(a, b) # None /\ i <= Higher(a, b)
                      /\ Higher(b, a) # None /\ i <= Higher(b, a)
  BY DEF Covered
<1>2. a \in Nat /\ i \in Nat /\ i <= a
  BY Sizes DEF Covered
<1>3. b \in Nat \/ b = -1
  BY Sizes DEF None
<1>4. QED
  BY <1>2, <1>3 DEF Higher, None

\* A raised floor covers what was accepted.
LEMMA Raised ==
  ASSUME TypeOK, Refused, NEW seed, Raise(seed),
         UNCHANGED <<cur, highestIndex, accepted, raced>>
  PROVE  Covered(floor, Spent)' /\ Covered(highestIndex, accepted \ raced)'
<1>1. Covered(highestIndex, accepted \ raced) /\ accepted \ raced \subseteq Indexes
  BY TypeParts DEF Refused, Seen
<1>2. floor \in Estimates \cup {None} /\ highestIndex \in Estimates \cup {None}
  BY TypeParts DEF Numbers
<1>3. Covered(floor', accepted \ raced)
  BY <1>1, <1>2, CoveredHigher DEF Raise
<1>4. Spent' \subseteq accepted \ raced
  BY DEF Spent
<1>5. QED
  BY <1>1, <1>3, <1>4, CoveredPart

\* The floor rises before the window goes, and what is recorded in between is raced.
LEMMA RefusedKept ==
  ASSUME TypeOK, AtWork, OneAhead, Refused, [Next]_vars PROVE Refused'
<1> USE DEF counters, history, port
<1>1. /\ Covered(highestIndex, accepted \ raced)
      /\ FloorAlone => Covered(floor, Spent)
      /\ lib # NoStream => Covered(floor, Spent \ lib.seen)
      /\ pcS = "record" => Covered(floor, Spent \cap {pkt})
      /\ pcS = "record" /\ lib # NoStream => pkt \in lib.seen
  BY DEF Refused
<1>2. CASE Receive
  <2>1. /\ UNCHANGED <<lib, highestIndex, credit, floor, pcT, accepted, raced, blind>>
        /\ pcS' = "in"
    BY <1>2 DEF Receive
  <2>2. Spent' \subseteq Spent
    <3>1. \A i \in accepted : i + Late >= cur' => i + Late >= cur
      <4>1. cur' = cur \/ (cur' \in Nat /\ cur < cur')
        BY <1>2 DEF Receive, Indexes
      <4>2. cur \in Int /\ Late \in Nat /\ accepted \subseteq Nat
        <5>1. cur \in Indexes \cup {None} /\ accepted \subseteq Indexes
          BY TypeParts DEF Places, Seen
        <5>2. None \in Int /\ Indexes \subseteq Nat /\ Late \in Nat
          BY TrialAssumption DEF None, Indexes
        <5>3. QED
          BY <5>1, <5>2
      <4>3. QED
        BY <4>1, <4>2
    <3>2. QED
      BY <2>1, <3>1 DEF Spent
  <2>3. FloorAlone' = FloorAlone /\ Spent' \ lib.seen \subseteq Spent \ lib.seen
    BY <2>1, <2>2 DEF FloorAlone
  <2>4. FloorAlone => Covered(floor, Spent')
    BY <1>1, <2>2, CoveredPart
  <2>5. lib # NoStream => Covered(floor, Spent' \ lib.seen)
    BY <1>1, <2>3, CoveredPart
  <2>6. QED
    BY <1>1, <2>1, <2>3, <2>4, <2>5 DEF Refused, FloorAlone
<1>3. CASE OtherSsrc \/ BeginTrial \/ Silence \/ UNCHANGED vars
  <2>1. /\ UNCHANGED <<cur, lib, highestIndex, credit, floor, accepted, raced, blind>>
        /\ pcT' = pcT \/ pcT' = "idle"
        /\ pcS' = "record" => pcS = "record" /\ pkt' = pkt
    BY <1>3 DEF OtherSsrc, BeginTrial, Silence, vars
  <2>2. Spent' = Spent /\ (FloorAlone' => FloorAlone)
    BY <2>1 DEF Spent, FloorAlone
  <2>3. QED
    BY <1>1, <2>1, <2>2 DEF Refused, FloorAlone
<1>4. CASE LookLost \/ LookJudge \/ LookConfirm \/ LookWrap
  <2>1. /\ UNCHANGED <<cur, pkt, pcS, lib, highestIndex, credit, floor, accepted, raced, blind>>
        /\ pcT' \in {"idle", "judge", "lost"}
    BY <1>4 DEF LookLost, LookJudge, LookConfirm, LookWrap, Look
  <2>2. Spent' = Spent /\ (FloorAlone' => FloorAlone)
    BY <2>1 DEF Spent, FloorAlone
  <2>3. QED
    BY <1>1, <2>1, <2>2 DEF Refused, FloorAlone
<1>5. CASE Step
  <2>1. /\ UNCHANGED <<cur, pkt, pcS, lib, highestIndex, credit, floor, accepted, raced, blind>>
        /\ pcT' = "idle" \/ ~credit
    BY <1>5 DEF Step
  <2>2. Spent' = Spent /\ (FloorAlone' => FloorAlone)
    BY <2>1 DEF Spent, FloorAlone
  <2>3. QED
    BY <1>1, <2>1, <2>2 DEF Refused, FloorAlone
<1>6. CASE RequestKey
  <2>1. /\ lib = NoStream /\ pcS' = "decode"
        /\ UNCHANGED <<cur, highestIndex, floor, accepted, raced>>
    BY <1>6 DEF RequestKey
  <2>2. Covered(floor, Spent)'
    BY <1>1, <2>1 DEF FloorAlone, Spent
  <2>3. QED
    BY <1>1, <2>1, <2>2, CoveredPart DEF Refused
<1>7. CASE Decode
  <2>1. /\ lib \in Streams /\ lib # NoStream /\ (Passed \/ Dropped)
        /\ UNCHANGED <<cur, highestIndex, credit, floor, pcT, accepted, raced, blind>>
    BY <1>7, Verdict, SomeStream
  <2>2. Spent' = Spent
    BY <2>1 DEF Spent
  <2>3. CASE Dropped
    BY <1>1, <2>1, <2>2, <2>3 DEF Dropped, Refused, FloorAlone
  <2>4. CASE Passed
    <3>1. /\ lib'.seen = Recent(lib.seen) \cup {pkt} /\ pkt \notin lib.seen
          /\ pkt' = pkt /\ lib' # NoStream
      BY <2>4 DEF Passed
    <3>2. Spent \ lib'.seen \subseteq Spent \ lib.seen
      BY <3>1 DEF Spent, Recent
    <3>3. Spent \cap {pkt} \subseteq Spent \ lib.seen
      BY <3>1
    <3>4. Covered(floor, Spent \ lib'.seen) /\ Covered(floor, Spent \cap {pkt})
      BY <1>1, <2>1, <3>2, <3>3, CoveredPart
    <3>5. FloorAlone' = FloorAlone
      BY <2>1, <3>1 DEF FloorAlone
    <3>6. QED
      BY <1>1, <2>1, <2>2, <3>1, <3>4, <3>5 DEF Refused, FloorAlone
  <2>5. QED
    BY <2>1, <2>3, <2>4
<1>8. CASE Record
  <2> DEFINE index == EstimatedIndex(LocalIndex, pkt % SeqMod)
             crossed == pcT \in {"remove", "wipe"} \/ lib = NoStream \/ blind
  <2>1. /\ pcS = "record" /\ pcS' = "idle" /\ pkt \in Indexes
        /\ UNCHANGED <<cur, lib, floor, pcT, blind>>
    BY <1>8 DEF Record, AtWork
  <2>2. CASE AtOrBelowFloor(index)
    <3>1. UNCHANGED <<highestIndex, credit, accepted, raced>>
      BY <1>8, <2>2 DEF Record
    <3>2. Spent' = Spent /\ FloorAlone' = FloorAlone
      BY <2>1, <3>1 DEF Spent, FloorAlone
    <3>3. QED
      BY <1>1, <2>1, <3>1, <3>2 DEF Refused, FloorAlone
  <2>3. CASE ~AtOrBelowFloor(index)
    <3>1. /\ credit' = TRUE /\ highestIndex' = Higher(highestIndex, index)
          /\ accepted' = Recent(accepted) \cup {pkt}
          /\ raced' = Recent(raced) \cup (IF crossed THEN {pkt} ELSE {})
      BY <1>8, <2>3 DEF Record
    <3>2. /\ highestIndex \in Estimates \cup {None} /\ index \in Estimates
          /\ accepted \subseteq Indexes
      BY <2>1, TypeParts, LocalType DEF Numbers, Seen
    <3> HIDE DEF index
    <3>3. accepted' \ raced' \subseteq (accepted \ raced) \cup {pkt}
      BY <3>1 DEF Recent
    <3>4. Covered(highestIndex', accepted \ raced)
      BY <1>1, <3>1, <3>2, CoveredHigher
    <3>5. CASE crossed
      <4>1. accepted' \ raced' \subseteq accepted \ raced
        BY <3>1, <3>5 DEF Recent
      <4>2. Spent' \subseteq Spent
        BY <2>1, <4>1 DEF Spent
      <4>3. Covered(floor, Spent)
        BY <1>1, <3>5 DEF FloorAlone
      <4>4. Covered(floor', Spent') /\ Covered(highestIndex', accepted' \ raced')
        BY <2>1, <3>4, <4>1, <4>2, <4>3, CoveredPart
      <4>5. QED
        BY <2>1, <4>4, CoveredPart DEF Refused
    <3>6. CASE ~crossed
      <4>1. index = pkt
        BY <2>1, <3>6 DEF OneAhead, index
      <4>2. Covered(highestIndex', {pkt})
        <5>1. Higher(highestIndex, pkt) # None /\ pkt <= Higher(highestIndex, pkt)
          <6>1. pkt \in Nat /\ (highestIndex \in Nat \/ highestIndex = -1)
            BY <2>1, <3>2, Sizes DEF None
          <6>2. QED
            BY <6>1 DEF Higher, None
        <5>2. QED
          BY <3>1, <4>1, <5>1 DEF Covered
      <4>3. Covered(highestIndex', accepted' \ raced')
        BY <3>3, <3>4, <4>2 DEF Covered
      <4>4. pkt \in lib.seen
        BY <1>1, <2>1, <3>6
      <4>5. Spent' \ lib.seen \subseteq Spent \ lib.seen
        BY <2>1, <3>3, <4>4 DEF Spent
      <4>6. Covered(floor, Spent' \ lib.seen)
        BY <1>1, <3>6, <4>5, CoveredPart
      <4>7. ~FloorAlone'
        BY <2>1, <3>1, <3>6 DEF FloorAlone
      <4>8. QED
        BY <2>1, <4>3, <4>6, <4>7 DEF Refused, FloorAlone
    <3>7. QED
      BY <3>5, <3>6
  <2>4. QED
    BY <2>2, <2>3
<1>9. CASE RemoveKey
  <2>1. /\ pcT = "remove" /\ lib' = NoStream
        /\ UNCHANGED <<cur, pkt, pcS, highestIndex, floor, accepted, raced>>
    BY <1>9 DEF RemoveKey
  <2>2. Covered(floor, Spent)'
    BY <1>1, <2>1 DEF FloorAlone, Spent
  <2>3. QED
    BY <1>1, <2>1, <2>2, CoveredPart DEF Refused
<1>10. CASE WipeInPlace
  <2>1. /\ pcT = "wipe" /\ lib' = lib
        /\ UNCHANGED <<cur, pkt, pcS, highestIndex, floor, accepted, raced>>
    BY <1>10 DEF WipeInPlace
  <2>2. Covered(floor, Spent)'
    BY <1>1, <2>1 DEF FloorAlone, Spent
  <2>3. QED
    BY <1>1, <2>1, <2>2, CoveredPart DEF Refused
<1>11. CASE LostInPlace
  <2>1. /\ Raise(None)
        /\ UNCHANGED <<cur, pkt, pcS, lib, highestIndex, accepted, raced>>
    BY <1>11 DEF LostInPlace
  <2>2. Covered(floor, Spent)' /\ Covered(highestIndex, accepted \ raced)'
    BY <2>1, Raised
  <2>3. QED
    BY <1>1, <2>1, <2>2, CoveredPart DEF Refused
<1>12. CASE Rebuilt
  <2>1. PICK seed : Rebuild(seed)
    BY <1>12 DEF Rebuilt
  <2>2. /\ Raise(seed) /\ pcS' = "idle" /\ lib' = NoStream
        /\ UNCHANGED <<cur, highestIndex, accepted, raced>>
    BY <2>1 DEF Rebuild
  <2>3. Covered(floor, Spent)' /\ Covered(highestIndex, accepted \ raced)'
    BY <2>2, Raised
  <2>4. QED
    BY <2>2, <2>3 DEF Refused
<1>13. QED
  BY <1>2, <1>3, <1>4, <1>5, <1>6, <1>7, <1>8, <1>9, <1>10, <1>11, <1>12, StepKinds
     DEF Elsewhere

-----------------------------------------------------------------------------
TypedTrial == TypeOK /\ TrialInv

\* The inductive invariant.
LEMMA SpecTrialInv == Spec => []TypedTrial
<1>1. Init => TypedTrial
  <2> SUFFICES ASSUME Init PROVE TypedTrial
    OBVIOUS
  <2>1. TypeOK
    BY InitTypeOK
  <2>2. KeyIsHeld /\ InStep /\ OneAhead /\ AtWork /\ Timely
    BY DEF Init, KeyIsHeld, InStep, OneAhead, AtWork, Timely
  <2>3. SeedIsSeen /\ RocIsSeen
    BY DEF Init, SeedIsSeen, RocIsSeen
  <2>4. Refused
    BY DEF Init, Refused, Covered, Spent
  <2>5. QED
    BY <2>1, <2>2, <2>3, <2>4 DEF TypedTrial, TrialInv
<1>2. TypedTrial /\ [Next]_vars => TypedTrial'
  <2> SUFFICES ASSUME TypedTrial, [Next]_vars PROVE TypedTrial'
    OBVIOUS
  <2>1. TypeOK'
    BY StreamingTypeOK, TickTypeOK, OthersTypeOK, StutterTypeOK DEF Next, TypedTrial, TrialInv
  <2>2. AtWork' /\ KeyIsHeld' /\ InStep' /\ OneAhead'
    BY AtWorkKept, KeyIsHeldKept, InStepKept DEF TypedTrial, TrialInv
  <2>3. SeedIsSeen' /\ RocIsSeen' /\ Timely' /\ Refused'
    BY SeedIsSeenKept, RocIsSeenKept, TimelyKept, RefusedKept DEF TypedTrial, TrialInv
  <2>4. QED
    BY <2>1, <2>2, <2>3 DEF TypedTrial, TrialInv
<1>3. QED
  BY <1>1, <1>2, PTL DEF Spec

\* The tracker and libsrtp agree after every packet, for every size of the sequence
\* space and every pattern of loss and lateness (the early returns and the forward
\* test of _record_authenticated against the stream srtpdec holds).
THEOREM SpecTrackerAgrees == Spec => []TrackerAgrees
<1>1. TypedTrial => TrackerAgrees
  <2> SUFFICES ASSUME TypedTrial, lib.index # None, ~blind, pcS # "record"
               PROVE  highestSeq # None /\ Index(roc, highestSeq) = lib.index
    BY DEF TrackerAgrees
  <2>1. lib # NoStream
    BY DEF NoStream
  <2>2. QED
    BY <2>1 DEF TypedTrial, TrialInv, InStep
<1>2. QED
  BY <1>1, SpecTrialInv, PTL

\* A key with credit is neither dropped nor replaced before the session is reset
\* (_on_request_key hands it back, _advance_search_if_tried looks again).
THEOREM SpecRightKeyKept == Spec => RightKeyKept
<1> DEFINE Held == [seed : {keyCandidate}, index : Estimates \cup {None},
                    seen : SUBSET Indexes]
<1>1. ASSUME TypedTrial, TypedTrial', [Next]_vars,
             credit, keyCandidate # None, keyCandidate' # None
      PROVE  credit' /\ keyCandidate' = keyCandidate /\ lib' \in {NoStream} \cup Held
  <2>1. TypeOK /\ TypeOK' /\ KeyIsHeld'
    BY <1>1 DEF TypedTrial, TrialInv
  <2>2. credit' /\ keyCandidate' = keyCandidate
    <3>1. CASE Elsewhere
      BY <1>1, <3>1, ElsewhereIsAside DEF Aside
    <3>2. CASE RequestKey
      BY <1>1, <2>1, <3>2, Handed
    <3>3. CASE Decode
      BY <1>1, <2>1, <3>3 DEF Decode, counters
    <3>4. CASE Record
      BY <1>1, <3>4 DEF Record
    <3>5. CASE RemoveKey
      BY <1>1, <3>5 DEF RemoveKey, counters
    <3>6. CASE WipeInPlace \/ Rebuilt
      BY <1>1, <3>6 DEF WipeInPlace, Rebuilt, Rebuild, Wipe
    <3>7. QED
      BY <1>1, <3>1, <3>2, <3>3, <3>4, <3>5, <3>6, StepKinds
  <2>3. CASE lib' = NoStream
    BY <2>2, <2>3
  <2>4. CASE lib' # NoStream
    <3>1. lib' \in Streams /\ lib'.seed = keyCandidate
      <4>1. lib' \in Streams \cup {NoStream}
        BY <2>1 DEF TypeOK
      <4>2. QED
        BY <1>1, <2>1, <2>2, <2>4, <4>1 DEF KeyIsHeld
    <3>2. lib' \in Held
      BY <3>1 DEF Streams
    <3>3. QED
      BY <2>2, <3>2
  <2>5. QED
    BY <2>3, <2>4
<1>2. ASSUME TypedTrial, TypedTrial', [Next]_vars
      PROVE  [credit /\ keyCandidate # None /\ ~(keyCandidate' = None)
                => credit' /\ keyCandidate' = keyCandidate
                   /\ lib' \in {NoStream} \cup Held]_vars
  BY <1>1, <1>2
<1>3. QED
  BY <1>2, SpecTrialInv, PTL DEF Spec, RightKeyKept

\* Every counter that an `auth ok` may carry has authenticated a packet, so that a
\* supervisor that persists it persists one that worked (_tick).
THEOREM SpecReportedIsAuthentic == Spec => []ReportedIsAuthentic
<1>1. TypedTrial => ReportedIsAuthentic
  BY DEF TypedTrial, TrialInv, RocIsSeen, ReportedIsAuthentic
<1>2. QED
  BY <1>1, SpecTrialInv, PTL

\* No packet is accepted twice, whatever trials, resets and rebuilds lie between
\* the two copies (libsrtp's window and the floor of _record_authenticated together).
THEOREM SpecAcceptedOnce == Spec => []AcceptedOnce
<1>1. TypedTrial => AcceptedOnce
  <2> SUFFICES ASSUME TypedTrial, pcS = "record", ~blind, pkt \in accepted \ raced
               PROVE  AtOrBelowFloor(EstimatedIndex(LocalIndex, pkt % SeqMod))
    BY DEF AcceptedOnce
  <2>1. EstimatedIndex(LocalIndex, pkt % SeqMod) = pkt
    BY DEF TypedTrial, TrialInv, OneAhead
  <2>2. pkt \in Spent
    BY DEF TypedTrial, TrialInv, AtWork, Timely, Spent
  <2>3. floor # None /\ pkt <= floor
    BY <2>2 DEF TypedTrial, TrialInv, Refused, Covered
  <2>4. QED
    BY <2>1, <2>3 DEF AtOrBelowFloor
<1>2. QED
  BY <1>1, SpecTrialInv, PTL
==============================================================================
