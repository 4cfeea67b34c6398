----------------------------- MODULE ReplayFloor -----------------------------
(***************************************************************************)
(* The replay floor across instances, helper sessions, key rotations and   *)
(* resets: which packet indexes a session accepts, how the highest of them *)
(* reaches the row, and what the next session starts from.                 *)
(*                                                                         *)
(* A session is one helper process: its supervisor reads the epoch, then   *)
(* the floor, then spawns it (spawnSession); it accepts indexes above its  *)
(* admission floor (_record_authenticated), and reports the highest        *)
(* (_report_index).  A report is a write in flight until it is applied or  *)
(* lost: frames queue, DynamoDB calls fail, processes die, and late frames *)
(* of a replaced session still raise the floor.                            *)
(***************************************************************************)
EXTENDS FloorRow, FiniteSets

CONSTANTS Instances,
          MaxIndex,    \* bound: packet indexes
          MaxEpoch,    \* bound: resets
          MaxWrites    \* bound: reports in flight

ASSUME FloorBoundsAssumption ==
  1 \in Generations /\ MaxIndex \in Nat /\ MaxEpoch \in Nat /\ MaxWrites \in Nat

VARIABLES
  row,       \* the floor half of the port's row
  sess,      \* per instance: its session
  writes,    \* raiseSrtpIndexFloor calls in flight
  newest,    \* the generation now in SSM
  \* History, for stating properties only.
  reached,   \* per generation: the highest index persisted since the last reset
  earned     \* indexes the row may legitimately hold since the last reset

vars == <<row, sess, writes, newest, reached, earned>>

\* due is history: what the session that reported had to refuse.
Writes == [index : Nat, gen : Generations, epoch : Nat, due : Indexes]

Sessions == [
  gen : Generations,     \* the key this service process loaded
  phase : {"down", "epochRead", "up"},
  epoch : Nat,           \* sessionEpochs
  floor : Indexes,       \* SrtpPort.floor, the admission floor
  highest : Indexes,     \* Counters.highest_index
  reported : Indexes,    \* SrtpPort.reported_index
  floorEpoch : Nat,      \* history: the row's epoch when the floor was read
  due : Indexes ]        \* history: Owed(gen) when the floor was read

Key(i) == KeyOf[sess[i].gen]

\* What the floor read under version g stands for: the highest index that the row's
\* version persisted, if it carries the same key, and else that version g did.
Owed(g) == reached[IF row.gen # 0 /\ row.key = KeyOf[g] THEN row.gen ELSE g]

TypeOK ==
  /\ row \in FloorRows
  /\ sess \in [Instances -> Sessions]
  /\ writes \subseteq Writes
  /\ newest \in Generations
  /\ reached \in [Generations -> Indexes]
  /\ earned \subseteq Indexes

NewSession(g) ==
  [gen |-> g, phase |-> "down", epoch |-> 0, floor |-> NoIndex,
   highest |-> NoIndex, reported |-> NoIndex, floorEpoch |-> 0, due |-> NoIndex]

Init ==
  /\ row = EmptyFloor
  /\ newest = 1
  /\ sess = [i \in Instances |-> NewSession(1)]
  /\ writes = {}
  /\ reached = [g \in Generations |-> NoIndex]
  /\ earned = {NoIndex}

Bigger(a, b) == IF a > b THEN a ELSE b

-----------------------------------------------------------------------------
\* spawnSession, first read: the epoch comes before the floor on purpose.
ReadEpoch(i) ==
  /\ sess[i].phase = "down"
  /\ sess' = [sess EXCEPT ![i].phase = "epochRead", ![i].epoch = row.epoch]
  /\ UNCHANGED <<row, writes, newest, reached, earned>>

\* Mutant of ReadFloor: another version of the parameter is taken for another key.
ReadFloorOfVersion(i) ==
  /\ sess[i].phase = "epochRead"
  /\ sess' = [sess EXCEPT ![i].phase = "up",
                          ![i].floor = IF row.gen = sess[i].gen THEN row.index ELSE NoIndex,
                          ![i].highest = NoIndex,
                          ![i].reported = NoIndex,
                          ![i].floorEpoch = row.epoch,
                          ![i].due = Owed(sess[i].gen)]
  /\ UNCHANGED <<row, writes, newest, reached, earned>>

\* spawnSession, second read and the spawn itself.
ReadFloor(i) ==
  /\ sess[i].phase = "epochRead"
  /\ sess' = [sess EXCEPT ![i].phase = "up",
                          ![i].floor = FloorFor(row, Key(i)),
                          ![i].highest = NoIndex,
                          ![i].reported = NoIndex,
                          ![i].floorEpoch = row.epoch,
                          ![i].due = Owed(sess[i].gen)]
  /\ UNCHANGED <<row, writes, newest, reached, earned>>

\* A read fails, or the spawn does: enterCooldown, and start over.
SpawnFails(i) ==
  /\ sess[i].phase = "epochRead"
  /\ sess' = [sess EXCEPT ![i] = NewSession(sess[i].gen)]
  /\ UNCHANGED <<row, writes, newest, reached, earned>>

\* _record_authenticated: the admission floor is fixed for the session, so
\* reordering within it passes.
Accept(i, n) ==
  /\ sess[i].phase = "up"
  /\ n > sess[i].floor
  /\ sess' = [sess EXCEPT ![i].highest = Bigger(n, sess[i].highest)]
  /\ earned' = IF sess[i].floorEpoch = row.epoch THEN earned \cup {n} ELSE earned
  /\ UNCHANGED <<row, writes, newest, reached>>

\* Mutant of Rebuild: the floor follows the session even where that is lower.
RebuildAnyway(i) ==
  /\ sess[i].phase = "up"
  /\ sess' = [sess EXCEPT ![i].floor = sess[i].highest]
  /\ UNCHANGED <<row, writes, newest, reached, earned>>

\* _reset_session: a rebuild moves the admission floor up to everything accepted.
Rebuild(i) ==
  /\ sess[i].phase = "up"
  /\ sess[i].highest > sess[i].floor
  /\ sess' = [sess EXCEPT ![i].floor = sess[i].highest]
  /\ UNCHANGED <<row, writes, newest, reached, earned>>

\* _report_index, and raiseFloor with the epoch of the session that reported.
Report(i) ==
  /\ sess[i].phase = "up"
  /\ sess[i].highest # NoIndex /\ sess[i].highest # sess[i].reported
  /\ Cardinality(writes) < MaxWrites
  /\ sess' = [sess EXCEPT ![i].reported = sess[i].highest]
  /\ writes' = writes \cup {[index |-> sess[i].highest, gen |-> sess[i].gen,
                             epoch |-> sess[i].epoch, due |-> sess[i].due]}
  /\ UNCHANGED <<row, newest, reached, earned>>

\* The conditional update is applied or refused ...
ApplyWrite(w) ==
  /\ w \in writes
  /\ writes' = writes \ {w}
  /\ IF CanRaise(row, w)
       THEN /\ row' = Raised(row, w)
            /\ reached' = [reached EXCEPT ![w.gen] = Bigger(w.index, @)]
       ELSE UNCHANGED <<row, reached>>
  /\ UNCHANGED <<sess, newest, earned>>

\* ... or never gets there: best effort, the next report makes up for it.
LoseWrite(w) ==
  /\ w \in writes
  /\ writes' = writes \ {w}
  /\ UNCHANGED <<row, sess, newest, reached, earned>>

\* The helper dies or is ended; the supervisor will start another.
SessionEnds(i) ==
  /\ sess[i].phase = "up"
  /\ sess' = [sess EXCEPT ![i] = NewSession(sess[i].gen)]
  /\ UNCHANGED <<row, writes, newest, reached, earned>>

\* Mutant of FloorResetSeen: the session takes the new epoch over and runs on.
FloorResetAdopted(i) ==
  /\ sess[i].phase = "up" /\ sess[i].epoch # row.epoch
  /\ sess' = [sess EXCEPT ![i].epoch = row.epoch]
  /\ UNCHANGED <<row, writes, newest, reached, earned>>

\* Mutant of FloorResetSeen: only a session that accepted something restarts.
FloorResetSeenByTraffic(i) ==
  /\ sess[i].phase = "up" /\ sess[i].epoch # row.epoch
  /\ sess[i].highest # NoIndex
  /\ sess' = [sess EXCEPT ![i] = NewSession(sess[i].gen)]
  /\ UNCHANGED <<row, writes, newest, reached, earned>>

\* handleFloorReset: the tick finds another epoch than the session's.
FloorResetSeen(i) ==
  /\ sess[i].phase = "up" /\ sess[i].epoch # row.epoch
  /\ sess' = [sess EXCEPT ![i] = NewSession(sess[i].gen)]
  /\ UNCHANGED <<row, writes, newest, reached, earned>>

\* provision-srtp-key.sh overwrites the SSM parameter with the key it is given, which
\* may be the one it already holds.
Provision ==
  /\ newest + 1 \in Generations
  /\ newest' = newest + 1
  /\ UNCHANGED <<row, sess, writes, reached, earned>>

\* The service process restarts: keys are read once, at start.
ServiceRestarts(i) ==
  /\ sess' = [sess EXCEPT ![i] = NewSession(newest)]
  /\ UNCHANGED <<row, writes, newest, reached, earned>>

\* The key holder resets the floor through some instance (SrtpTransport.resetFloor
\* with the key that instance runs under).
ResetFloor(i, e, n) ==
  /\ CanReset(row, e, sess[i].gen)
  /\ row' = Reset(e, n, sess[i].gen)
  /\ reached' = [g \in Generations |-> IF g = sess[i].gen THEN n ELSE NoIndex]
  /\ earned' = {n}
  /\ UNCHANGED <<sess, writes, newest>>

Next ==
  \/ \E i \in Instances :
       \/ ReadEpoch(i) \/ ReadFloor(i) \/ SpawnFails(i)
       \/ Rebuild(i) \/ Report(i) \/ SessionEnds(i) \/ FloorResetSeen(i)
       \/ ServiceRestarts(i)
       \/ \E n \in 0..MaxIndex : Accept(i, n)
       \/ \E e \in 1..MaxEpoch, n \in 0..MaxIndex : ResetFloor(i, e, n)
  \/ \E w \in writes : ApplyWrite(w) \/ LoseWrite(w)
  \/ Provision

Spec == Init /\ [][Next]_vars

\* Fairness: the supervisor's tick and its queue keep running.
FairSpec ==
  /\ Spec
  /\ \A i \in Instances : WF_vars(FloorResetSeen(i)) /\ WF_vars(ReadFloor(i))

-----------------------------------------------------------------------------
\* The promise to the sessions that read the row.
Register == INSTANCE FloorRegister WITH
  Nothing <- NoIndex, epoch <- row.epoch, gen <- row.gen, index <- row.index,
  accepted <- earned

\* The conditional writes, in whichever order those of whichever sessions arrive,
\* implement that promise: neither the reset epoch nor the key generation of the row
\* goes back, and within an epoch and a generation nor does the index.
ImplementsRegister == Register!Spec

\* Between resets, the floor of an identity only goes up ("Conditional, so that it only
\* ever goes up", StreamMetadataService.ts raiseSrtpIndexFloor), but for one way: a
\* newer version that carries the same key may put it lower, and even that never to an
\* index that was persisted under the key when its session started.
FloorOnlyRises ==
  [][row'.key = row.key /\ row'.epoch = row.epoch =>
       \/ row'.index >= row.index
       \/ \E w \in writes \ writes' : w.gen > row.gen /\ w.index > w.due]_vars

\* A reset is not undone by sessions that started before it: since the last reset
\* the row only ever holds the floor it set, or an index accepted by a session
\* that started from it.
ResetStands == row.index \in earned

\* A session no tick would restart holds the current floor: whoever carries the
\* row's epoch read its floor after that epoch began (the order of the two reads
\* in spawnSession).
CurrentEpochCurrentFloor ==
  \A i \in Instances :
    sess[i].phase = "up" /\ sess[i].epoch = row.epoch
      => sess[i].floorEpoch = row.epoch

\* Under the version the row belongs to, or a newer one, a session refuses everything
\* that was persisted before it started: by its own version, and by the row's if that
\* carries the same key, as when a key is provisioned again.
PersistedIsRefused ==
  \A i \in Instances :
    sess[i].phase = "up" /\ sess[i].gen >= row.gen => sess[i].floor >= sess[i].due

\* Under any key: nothing at or below the highest index persisted under a key is
\* accepted again under it (README.md, "The replay floor").
NothingAcceptedTwice ==
  \A i \in Instances : sess[i].phase = "up" => sess[i].floor >= sess[i].due

\* Resets being finitely many, in the end every running session works from the
\* floor of the last one, however it raced with the reads of spawnSession.
ResetReachesEveryone ==
  <>[](\A i \in Instances : sess[i].phase = "up" => sess[i].floorEpoch = row.epoch)

=============================================================================
