-------------------------- MODULE ReplayFloorProofs --------------------------
(***************************************************************************)
(* What ReplayFloor promises, for any number of instances, keys, resets,   *)
(* indexes and writes in flight.                                           *)
(***************************************************************************)
EXTENDS ReplayFloor, TLAPS

\* The row's attributes belong together: no index without a generation, and the
\* identity stored is that of the generation stored.
RowCoherent ==
  /\ row.gen = 0 <=> row.index = NoIndex
  /\ row.gen # 0 => row.key = KeyOf[row.gen]

\* A session's two reads and a write's stamp are ordered like the epochs of the
\* row they were taken from.
EpochsOrdered ==
  /\ \A i \in Instances :
       /\ sess[i].phase = "epochRead" => sess[i].epoch <= row.epoch
       /\ sess[i].phase = "up" =>
            sess[i].epoch <= sess[i].floorEpoch /\ sess[i].floorEpoch <= row.epoch
  /\ \A w \in writes : w.epoch <= row.epoch

\* What a session or a write of the current epoch carries was accepted above the
\* current reset's floor.
CarriedIsEarned ==
  /\ \A i \in Instances :
       sess[i].phase = "up" /\ sess[i].epoch = row.epoch
         => sess[i].highest \in earned \cup {NoIndex}
  /\ \A w \in writes : w.epoch = row.epoch => w.index \in earned

\* The row holds the highest index its version persisted, and nothing was ever
\* persisted by a version newer than the row's.
RowIsHighest ==
  /\ row.gen # 0 => row.index >= reached[row.gen]
  /\ \A g \in Generations : g > row.gen => reached[g] = NoIndex

\* What a session of the row's version, or of a newer one, accepts and reports is
\* above all that it had to refuse.
CarriedIsNew ==
  /\ \A i \in Instances :
       sess[i].phase = "up" /\ sess[i].gen >= row.gen /\ sess[i].highest # NoIndex
         => sess[i].highest > sess[i].due
  /\ \A w \in writes : w.gen >= row.gen => w.index > w.due

ResetInv == EpochsOrdered /\ CarriedIsEarned /\ ResetStands

-----------------------------------------------------------------------------
\* Parameter versions are numbers, and so is the absent one.
LEMMA GenerationsAreNat ==
  \A g \in Generations \cup {0} : g \in Nat /\ (g \in Generations => g # 0)
<1>1. \A g \in Generations : g \in Nat /\ g # 0
  BY GenerationsAssumption, Zenon
<1> QED
  BY <1>1

\* Type correctness: in particular a write in flight always carries an index.
THEOREM SpecTypeOK == Spec => []TypeOK
<1>1. Init => TypeOK
  BY GenerationsAssumption, NoKeyAssumption, FloorBoundsAssumption
  DEF Init, TypeOK, EmptyFloor, FloorRows, Indexes, NoIndex, NewSession, Sessions
<1>2. TypeOK /\ [Next]_vars => TypeOK'
  <2> SUFFICES ASSUME TypeOK, [Next]_vars PROVE TypeOK'
    OBVIOUS
  <2> USE DEF TypeOK
  <2>0. row.epoch \in Nat /\ row.index \in Indexes
    BY DEF FloorRows
  <2>a. ASSUME NEW i \in Instances
        PROVE /\ sess[i] \in Sessions
              /\ sess[i].gen \in Generations /\ sess[i].epoch \in Nat
              /\ sess[i].highest \in Indexes /\ sess[i].floor \in Indexes
              /\ Key(i) \in Keys
    BY <2>a, GenerationsAssumption DEF Sessions, Key
  <2>b. ASSUME NEW g \in Generations PROVE NewSession(g) \in Sessions
    BY DEF NewSession, Sessions, Indexes, NoIndex
  <2>c. ASSUME NEW g \in Generations PROVE Owed(g) \in Indexes
    <3>1. row.gen # 0 => row.gen \in Generations
      BY DEF FloorRows
    <3> QED
      BY <2>c, <3>1 DEF Owed
  <2>1. ASSUME NEW i \in Instances, ReadEpoch(i) PROVE TypeOK'
    BY <2>0, <2>1 DEF ReadEpoch, Sessions
  <2>2. ASSUME NEW i \in Instances, ReadFloor(i) PROVE TypeOK'
    <3>1. FloorFor(row, Key(i)) \in Indexes /\ Owed(sess[i].gen) \in Indexes
          /\ NoIndex \in Indexes
      BY <2>0, <2>a, <2>c DEF FloorFor, Indexes
    <3> DEFINE up == [sess[i] EXCEPT !.phase = "up", !.floor = FloorFor(row, Key(i)),
                                     !.highest = NoIndex, !.reported = NoIndex,
                                     !.floorEpoch = row.epoch, !.due = Owed(sess[i].gen)]
    <3>2. up \in Sessions
      BY <2>0, <2>a, <3>1 DEF Sessions
    <3>3. sess' = [sess EXCEPT ![i] = up]
      BY <2>2 DEF ReadFloor
    <3>4. UNCHANGED <<row, writes, newest, reached, earned>>
      BY <2>2 DEF ReadFloor
    <3> HIDE DEF up
    <3> QED
      BY <3>2, <3>3, <3>4
  <2>3. ASSUME NEW i \in Instances, SpawnFails(i) \/ SessionEnds(i) \/ FloorResetSeen(i)
        PROVE TypeOK'
    BY <2>3, <2>a, <2>b DEF SpawnFails, SessionEnds, FloorResetSeen
  <2>4. ASSUME NEW i \in Instances, NEW n \in 0..MaxIndex, Accept(i, n) PROVE TypeOK'
    <3>1. n \in Indexes /\ Bigger(n, sess[i].highest) \in Indexes
      BY <2>a, FloorBoundsAssumption DEF Indexes, NoIndex, Bigger
    <3>2. sess' \in [Instances -> Sessions]
      BY <2>4, <3>1 DEF Accept, Sessions
    <3> QED
      BY <2>4, <3>1, <3>2 DEF Accept
  <2>5. ASSUME NEW i \in Instances, Rebuild(i) PROVE TypeOK'
    BY <2>5, <2>a DEF Rebuild, Sessions
  <2>6. ASSUME NEW i \in Instances, Report(i) PROVE TypeOK'
    <3>1. sess' \in [Instances -> Sessions]
      BY <2>6, <2>a DEF Report, Sessions
    <3>2. sess[i].highest \in Nat /\ sess[i].due \in Indexes
      BY <2>6, <2>a DEF Report, Indexes, Sessions
    <3>3. [index |-> sess[i].highest, gen |-> sess[i].gen, epoch |-> sess[i].epoch,
           due |-> sess[i].due] \in Writes
      BY <2>a, <3>2 DEF Writes
    <3>4. writes' \subseteq Writes
      BY <2>6, <3>3 DEF Report
    <3> QED
      BY <2>6, <3>1, <3>4 DEF Report
  <2>7. ASSUME NEW w \in writes, ApplyWrite(w) PROVE TypeOK'
    <3>1. w.gen \in Generations /\ w.index \in Indexes /\ KeyOf[w.gen] \in Keys
      BY GenerationsAssumption DEF Writes, Indexes
    <3>2. row' \in FloorRows
      BY <2>7, <3>1 DEF ApplyWrite, Raised, FloorRows
    <3>3. reached' \in [Generations -> Indexes]
      BY <2>7, <3>1 DEF ApplyWrite, Bigger
    <3> QED
      BY <2>7, <3>2, <3>3 DEF ApplyWrite
  <2>8. ASSUME NEW w \in writes, LoseWrite(w) PROVE TypeOK'
    BY <2>8 DEF LoseWrite
  <2>9. CASE Provision
    BY <2>9 DEF Provision
  <2>10. ASSUME NEW i \in Instances, ServiceRestarts(i) PROVE TypeOK'
    BY <2>10, <2>b DEF ServiceRestarts
  <2>11. ASSUME NEW i \in Instances, NEW e \in 1..MaxEpoch, NEW n \in 0..MaxIndex,
                ResetFloor(i, e, n)
         PROVE TypeOK'
    <3>1. n \in Indexes /\ NoIndex \in Indexes /\ e \in Nat
      BY FloorBoundsAssumption DEF Indexes, NoIndex
    <3>2. row' \in FloorRows
      BY <2>11, <2>a, <3>1 DEF ResetFloor, Reset, FloorRows, Key
    <3>3. reached' \in [Generations -> Indexes] /\ earned' \subseteq Indexes
      BY <2>11, <3>1 DEF ResetFloor
    <3> QED
      BY <2>11, <3>2, <3>3 DEF ResetFloor
  <2>12. CASE UNCHANGED vars
    BY <2>12 DEF vars
  <2> QED
    BY <2>1, <2>2, <2>3, <2>4, <2>5, <2>6, <2>7, <2>8, <2>9, <2>10, <2>11, <2>12
    DEF Next
<1> QED
  BY <1>1, <1>2, PTL DEF Spec

-----------------------------------------------------------------------------
\* What each kind of step does to the sessions and to the row, field by field.

\* A session that is given up takes nothing of its own to the next.
LEMMA RestartEffect ==
  ASSUME TypeOK, NEW i \in Instances,
         \/ SpawnFails(i) \/ SessionEnds(i) \/ FloorResetSeen(i) \/ ServiceRestarts(i)
  PROVE  /\ UNCHANGED <<row, writes, reached, earned>>
         /\ \A j \in Instances : sess'[j] = sess[j] \/ sess'[j].phase = "down"
<1> USE DEF TypeOK, NewSession
<1>1. CASE SpawnFails(i)
  BY <1>1 DEF SpawnFails
<1>2. CASE SessionEnds(i)
  BY <1>2 DEF SessionEnds
<1>3. CASE FloorResetSeen(i)
  BY <1>3 DEF FloorResetSeen
<1>4. CASE ServiceRestarts(i)
  BY <1>4 DEF ServiceRestarts
<1> QED
  BY <1>1, <1>2, <1>3, <1>4

\* A session starts from the row as it is when its floor is read.
LEMMA ReadFloorEffect ==
  ASSUME TypeOK, NEW i \in Instances, ReadFloor(i)
  PROVE  /\ UNCHANGED <<row, writes, reached, earned>>
         /\ \A j \in Instances : j # i => sess'[j] = sess[j]
         /\ sess'[i].phase = "up" /\ sess'[i].epoch = sess[i].epoch
         /\ sess'[i].gen = sess[i].gen /\ sess'[i].highest = NoIndex
         /\ sess'[i].floor = FloorFor(row, Key(i))
         /\ sess'[i].floorEpoch = row.epoch /\ sess'[i].due = Owed(sess[i].gen)
<1> DEFINE up == [sess[i] EXCEPT !.phase = "up", !.floor = FloorFor(row, Key(i)),
                                 !.highest = NoIndex, !.reported = NoIndex,
                                 !.floorEpoch = row.epoch, !.due = Owed(sess[i].gen)]
<1>1. sess' = [sess EXCEPT ![i] = up] /\ UNCHANGED <<row, writes, reached, earned>>
  BY DEF ReadFloor, TypeOK
<1>2. sess[i] \in Sessions
  BY DEF TypeOK
<1>3. /\ up.phase = "up" /\ up.epoch = sess[i].epoch /\ up.gen = sess[i].gen
      /\ up.highest = NoIndex /\ up.floor = FloorFor(row, Key(i))
      /\ up.floorEpoch = row.epoch /\ up.due = Owed(sess[i].gen)
  BY <1>2 DEF Sessions
<1>4. sess'[i] = up /\ \A j \in Instances : j # i => sess'[j] = sess[j]
  <2> HIDE DEF up
  <2> QED
    BY <1>1 DEF TypeOK
<1> QED
  BY <1>1, <1>3, <1>4

\* A report that the condition lets through (raiseSrtpIndexFloor).
LEMMA WriteEffect ==
  ASSUME TypeOK, RowCoherent, NEW w \in writes, ApplyWrite(w), CanRaise(row, w)
  PROVE  /\ w.index \in Nat /\ w.gen \in Generations /\ w.gen # 0
         /\ row'.index = w.index /\ row'.gen = w.gen /\ row'.key = KeyOf[w.gen]
         /\ row'.epoch = row.epoch /\ w.epoch = row.epoch
         /\ row.gen <= w.gen
         /\ row.gen = w.gen => row.index < w.index
<1>1. w \in Writes /\ row \in FloorRows
  BY DEF TypeOK
<1>2. w.index \in Nat /\ w.gen \in Generations /\ w.gen \in Nat \ {0} /\ w.epoch \in Nat
  BY <1>1, GenerationsAssumption DEF Writes
<1>3. row.gen \in Nat /\ row.index \in Int
  <2>1. row.gen \in Generations \cup {0} /\ row.index \in Indexes
    BY <1>1 DEF FloorRows
  <2>2. row.gen \in Nat
    BY <2>1, GenerationsAreNat
  <2>3. row.index \in Int
    BY <2>1 DEF Indexes, NoIndex
  <2> QED
    BY <2>2, <2>3
<1>4. row'.index = w.index /\ row'.gen = w.gen /\ row'.key = KeyOf[w.gen]
      /\ row'.epoch = row.epoch
  <2>1. row' = Raised(row, w)
    BY DEF ApplyWrite
  <2> QED
    BY <1>1, <2>1 DEF Raised, FloorRows
<1>5. w.epoch = row.epoch /\ row.gen <= w.gen /\ (row.gen = w.gen => row.index < w.index)
  BY <1>2, <1>3 DEF CanRaise, RowCoherent
<1> QED
  BY <1>2, <1>4, <1>5

\* A reset (resetSrtpIndexFloor).
LEMMA ResetEffect ==
  ASSUME TypeOK, NEW i \in Instances, NEW e \in 1..MaxEpoch, NEW n \in 0..MaxIndex,
         ResetFloor(i, e, n)
  PROVE  /\ sess[i].gen \in Generations /\ sess[i].gen # 0
         /\ row'.index = n /\ row'.gen = sess[i].gen /\ row'.key = Key(i)
         /\ row'.epoch = e /\ row.epoch < e /\ row.gen <= sess[i].gen
<1>1. sess[i].gen \in Generations
  BY DEF TypeOK, Sessions
<1>2. row' = Reset(e, n, sess[i].gen) /\ CanReset(row, e, sess[i].gen)
  BY DEF ResetFloor
<1> QED
  BY <1>1, <1>2, GenerationsAreNat DEF Reset, CanReset, Key

\* The fields that steps compare are numbers.
LEMMA Numbers ==
  ASSUME TypeOK
  PROVE  /\ row.epoch \in Nat /\ row.gen \in Nat /\ row.index \in Int
         /\ \A i \in Instances :
              /\ sess[i].epoch \in Nat /\ sess[i].floorEpoch \in Nat
              /\ sess[i].gen \in Generations /\ sess[i].gen \in Nat /\ sess[i].gen # 0
              /\ sess[i].floor \in Int /\ sess[i].floor >= NoIndex
              /\ sess[i].highest \in Int /\ Key(i) \in Keys
         /\ \A w \in writes : w.epoch \in Nat /\ w.index \in Nat /\ w.gen \in Generations
         /\ \A g \in Generations : reached[g] \in Int
<1>1. row.epoch \in Nat /\ row.gen \in Generations \cup {0} /\ row.index \in Indexes
  BY DEF TypeOK, FloorRows
<1>2. ASSUME NEW i \in Instances
      PROVE /\ sess[i].epoch \in Nat /\ sess[i].floorEpoch \in Nat
            /\ sess[i].gen \in Generations /\ sess[i].floor \in Indexes
            /\ sess[i].highest \in Indexes
  BY <1>2 DEF TypeOK, Sessions
<1>3. ASSUME NEW w \in writes
      PROVE w.epoch \in Nat /\ w.index \in Nat /\ w.gen \in Generations
  BY <1>3 DEF TypeOK, Writes
<1>4. ASSUME NEW i \in Instances PROVE Key(i) \in Keys
  BY <1>2, <1>4, GenerationsAssumption DEF Key
<1>5. \A x \in Indexes : x \in Int /\ x >= NoIndex
  BY DEF Indexes, NoIndex
<1>6. \A g \in Generations : reached[g] \in Indexes
  BY DEF TypeOK
<1>7. row.gen \in Nat
  BY <1>1, GenerationsAreNat
<1>8. ASSUME NEW i \in Instances PROVE sess[i].gen \in Nat /\ sess[i].gen # 0
  BY <1>2, <1>8, GenerationsAreNat
<1> QED
  BY <1>1, <1>2, <1>3, <1>4, <1>5, <1>6, <1>7, <1>8

-----------------------------------------------------------------------------
\* The row keeps its index, its identity and its generation together, whichever
\* conditional write is applied.
LEMMA SpecRowCoherent == Spec => []RowCoherent
<1>1. Init => RowCoherent
  BY DEF Init, RowCoherent, EmptyFloor
<1>2. TypeOK /\ RowCoherent /\ [Next]_vars => RowCoherent'
  <2> SUFFICES ASSUME TypeOK, RowCoherent, [Next]_vars PROVE RowCoherent'
    OBVIOUS
  <2>1. ASSUME NEW w \in writes, ApplyWrite(w) PROVE RowCoherent'
    <3>1. CASE CanRaise(row, w)
      BY <2>1, <3>1, WriteEffect DEF RowCoherent, NoIndex
    <3>2. CASE ~CanRaise(row, w)
      BY <2>1, <3>2 DEF ApplyWrite, RowCoherent
    <3> QED
      BY <3>1, <3>2
  <2>2. ASSUME NEW i \in Instances, NEW e \in 1..MaxEpoch, NEW n \in 0..MaxIndex,
               ResetFloor(i, e, n)
        PROVE RowCoherent'
    BY <2>2, ResetEffect, FloorBoundsAssumption DEF RowCoherent, NoIndex, Key
  <2>3. CASE UNCHANGED row
    BY <2>3 DEF RowCoherent
  <2> QED
    BY <2>1, <2>2, <2>3
    DEF Next, vars, ReadEpoch, ReadFloor, SpawnFails, Accept, Rebuild, Report, LoseWrite,
        SessionEnds, FloorResetSeen, Provision, ServiceRestarts
<1> QED
  BY <1>1, <1>2, SpecTypeOK, PTL DEF Spec

\* No conditional write of StreamMetadataService takes a fence back.
LEMMA FencesStep ==
  ASSUME TypeOK, RowCoherent, [Next]_vars
  PROVE  row'.epoch >= row.epoch /\ row'.gen >= row.gen
<1>0. row.epoch \in Nat /\ row.gen \in Nat
  BY Numbers
<1>1. ASSUME NEW w \in writes, ApplyWrite(w), CanRaise(row, w)
      PROVE  row'.epoch >= row.epoch /\ row'.gen >= row.gen
  BY <1>0, <1>1, WriteEffect, GenerationsAreNat
<1>2. ASSUME NEW i \in Instances, NEW e \in 1..MaxEpoch, NEW n \in 0..MaxIndex,
             ResetFloor(i, e, n)
      PROVE  row'.epoch >= row.epoch /\ row'.gen >= row.gen
  BY <1>0, <1>2, ResetEffect, FloorBoundsAssumption, GenerationsAreNat
<1>3. CASE UNCHANGED row
  BY <1>0, <1>3
<1> QED
  BY <1>1, <1>2, <1>3
  DEF Next, vars, ReadEpoch, ReadFloor, SpawnFails, Accept, Rebuild, Report, ApplyWrite,
      LoseWrite, SessionEnds, FloorResetSeen, Provision, ServiceRestarts

-----------------------------------------------------------------------------
\* One step of ReplayFloor preserves the invariant behind the reset properties.
LEMMA ResetStep ==
  ASSUME TypeOK, RowCoherent, ResetInv, [Next]_vars
  PROVE  ResetInv'
<1> USE DEF ResetInv, EpochsOrdered, CarriedIsEarned, ResetStands
<1>1. ASSUME NEW i \in Instances,
             SpawnFails(i) \/ SessionEnds(i) \/ FloorResetSeen(i) \/ ServiceRestarts(i)
      PROVE  ResetInv'
  BY <1>1, RestartEffect
<1>2. ASSUME NEW i \in Instances, ReadEpoch(i) PROVE ResetInv'
  <2>1. /\ UNCHANGED <<row, writes, reached, earned>>
        /\ sess'[i].phase = "epochRead" /\ sess'[i].epoch = row.epoch
        /\ \A j \in Instances : j # i => sess'[j] = sess[j]
    BY <1>2 DEF ReadEpoch, TypeOK, Sessions
  <2> QED
    BY <2>1, Numbers
<1>3. ASSUME NEW i \in Instances, ReadFloor(i) PROVE ResetInv'
  <2>1. sess[i].epoch <= row.epoch
    BY <1>3 DEF ReadFloor
  <2> QED
    BY <1>3, <2>1, ReadFloorEffect, Numbers
<1>4. ASSUME NEW i \in Instances, NEW n \in 0..MaxIndex, Accept(i, n) PROVE ResetInv'
  <2>1. /\ UNCHANGED <<row, writes>>
        /\ sess'[i].phase = "up" /\ sess'[i].epoch = sess[i].epoch
        /\ sess'[i].floorEpoch = sess[i].floorEpoch
        /\ sess'[i].highest \in {n, sess[i].highest}
        /\ \A j \in Instances : j # i => sess'[j] = sess[j]
    BY <1>4 DEF Accept, Bigger, TypeOK, Sessions
  <2>2. earned \subseteq earned' /\ (sess[i].epoch = row.epoch => n \in earned')
    BY <1>4, Numbers DEF Accept
  <2>3. sess[i].phase = "up"
    BY <1>4 DEF Accept
  <2> QED
    BY <2>1, <2>2, <2>3
<1>5. ASSUME NEW i \in Instances, Rebuild(i) PROVE ResetInv'
  <2>1. /\ UNCHANGED <<row, writes, reached, earned>>
        /\ sess'[i].phase = sess[i].phase /\ sess'[i].epoch = sess[i].epoch
        /\ sess'[i].floorEpoch = sess[i].floorEpoch /\ sess'[i].highest = sess[i].highest
        /\ \A j \in Instances : j # i => sess'[j] = sess[j]
    BY <1>5 DEF Rebuild, TypeOK, Sessions
  <2> QED
    BY <2>1
<1>6. ASSUME NEW i \in Instances, Report(i) PROVE ResetInv'
  <2>1. /\ UNCHANGED <<row, reached, earned>>
        /\ sess'[i].phase = sess[i].phase /\ sess'[i].epoch = sess[i].epoch
        /\ sess'[i].floorEpoch = sess[i].floorEpoch /\ sess'[i].highest = sess[i].highest
        /\ \A j \in Instances : j # i => sess'[j] = sess[j]
    BY <1>6 DEF Report, TypeOK, Sessions
  <2>2. \A w \in writes' :
          w \in writes \/ (w.epoch = sess[i].epoch /\ w.index = sess[i].highest)
    <3> DEFINE new == [index |-> sess[i].highest, gen |-> sess[i].gen,
                       epoch |-> sess[i].epoch, due |-> sess[i].due]
    <3>1. writes' = writes \cup {new}
      BY <1>6 DEF Report
    <3>2. new.epoch = sess[i].epoch /\ new.index = sess[i].highest
      OBVIOUS
    <3> HIDE DEF new
    <3>3. \A w \in writes' : w \in writes \/ w = new
      BY <3>1, Zenon
    <3> QED
      BY <3>2, <3>3, Zenon
  <2>3. sess[i].phase = "up" /\ sess[i].highest # NoIndex
    BY <1>6 DEF Report
  <2>4. sess[i].epoch <= row.epoch
    BY <2>3, Numbers
  <2> QED
    BY <2>1, <2>2, <2>3, <2>4
<1>7. ASSUME NEW w \in writes, ApplyWrite(w) PROVE ResetInv'
  <2>1. UNCHANGED <<sess, earned>> /\ writes' \subseteq writes
    BY <1>7 DEF ApplyWrite
  <2>2. row'.epoch = row.epoch /\ (row'.index = row.index \/ row'.index \in earned)
    <3>1. CASE CanRaise(row, w)
      BY <1>7, <3>1, WriteEffect
    <3>2. CASE ~CanRaise(row, w)
      BY <1>7, <3>2 DEF ApplyWrite
    <3> QED
      BY <3>1, <3>2
  <2> QED
    BY <2>1, <2>2
<1>8. ASSUME NEW w \in writes, LoseWrite(w) PROVE ResetInv'
  BY <1>8 DEF LoseWrite
<1>9. CASE Provision
  BY <1>9 DEF Provision
<1>10. ASSUME NEW i \in Instances, NEW e \in 1..MaxEpoch, NEW n \in 0..MaxIndex,
              ResetFloor(i, e, n)
       PROVE ResetInv'
  <2>1. UNCHANGED <<sess, writes>> /\ earned' = {n}
    BY <1>10 DEF ResetFloor
  <2>2. row'.index = n /\ row'.epoch = e /\ row.epoch < e /\ e \in Nat
    BY <1>10, ResetEffect, FloorBoundsAssumption
  <2>3. \A j \in Instances : sess[j].phase = "up" => sess[j].epoch < e /\ sess[j].floorEpoch < e
    BY <2>2, Numbers
  <2>4. \A j \in Instances : sess[j].phase = "epochRead" => sess[j].epoch < e
    BY <2>2, Numbers
  <2>5. \A w \in writes : w.epoch < e
    BY <2>2, Numbers
  <2> QED
    BY <2>1, <2>2, <2>3, <2>4, <2>5, Numbers
<1>11. CASE UNCHANGED vars
  BY <1>11 DEF vars
<1> QED
  BY <1>1, <1>2, <1>3, <1>4, <1>5, <1>6, <1>7, <1>8, <1>9, <1>10, <1>11 DEF Next

\* So it holds throughout.
LEMMA SpecResetInv == Spec => []ResetInv
<1>1. Init => ResetInv
  BY DEF Init, ResetInv, EpochsOrdered, CarriedIsEarned, ResetStands, EmptyFloor,
         NewSession
<1>2. TypeOK /\ RowCoherent /\ ResetInv /\ [Next]_vars => ResetInv'
  BY ResetStep
<1> QED
  BY <1>1, <1>2, SpecTypeOK, SpecRowCoherent, PTL DEF Spec

\* A reset stands: since the last one the row only holds the floor it set or an
\* index accepted by a session that started from that floor, however late the
\* reports of older sessions arrive.
THEOREM SpecResetStands == Spec => []ResetStands
<1>1. ResetInv => ResetStands
  BY DEF ResetInv
<1> QED
  BY <1>1, SpecResetInv, PTL

\* Whoever carries the row's epoch holds the floor of that epoch, because
\* spawnSession reads the epoch before the floor.
THEOREM SpecCurrentEpochCurrentFloor == Spec => []CurrentEpochCurrentFloor
<1>1. TypeOK /\ ResetInv => CurrentEpochCurrentFloor
  <2> SUFFICES ASSUME TypeOK, ResetInv, NEW i \in Instances,
                      sess[i].phase = "up", sess[i].epoch = row.epoch
               PROVE  sess[i].floorEpoch = row.epoch
    BY DEF CurrentEpochCurrentFloor
  <2> QED
    BY Numbers DEF ResetInv, EpochsOrdered
<1> QED
  BY <1>1, SpecTypeOK, SpecResetInv, PTL

-----------------------------------------------------------------------------
\* Every step of the row is a step of the register: a report that is applied is of the
\* present epoch and was earned in it, and the row's generation and index go up together.
LEMMA RegisterStep ==
  ASSUME TypeOK, RowCoherent, ResetInv, [Next]_vars
  PROVE  [Register!Next]_<<row.epoch, row.gen, row.index, earned>>
<1>0. row.epoch \in Nat /\ row.gen \in Nat /\ row.index \in Int
  BY Numbers
<1>1. ASSUME NEW w \in writes, ApplyWrite(w), CanRaise(row, w) PROVE Register!Raise
  <2>1. /\ w.index \in Nat /\ w.gen \in Nat /\ w.gen # 0
        /\ row'.index = w.index /\ row'.gen = w.gen /\ row'.epoch = row.epoch
        /\ w.epoch = row.epoch /\ row.gen <= w.gen /\ (row.gen = w.gen => row.index < w.index)
    BY <1>1, WriteEffect, GenerationsAreNat
  <2>2. w.index \in earned /\ earned' = earned
    BY <1>1, <2>1 DEF ResetInv, CarriedIsEarned, ApplyWrite
  <2>3. row'.gen > row.gen \/ (row'.gen = row.gen /\ row'.index > row.index)
    BY <1>0, <2>1
  <2> QED
    BY <2>1, <2>2, <2>3 DEF Register!Raise
<1>2. ASSUME NEW w \in writes, ApplyWrite(w), ~CanRaise(row, w)
      PROVE  UNCHANGED <<row, earned>>
  BY <1>2 DEF ApplyWrite
<1>3. ASSUME NEW i \in Instances, NEW e \in 1..MaxEpoch, NEW n \in 0..MaxIndex,
             ResetFloor(i, e, n)
      PROVE  Register!Reset
  <2>1. /\ row'.index = n /\ row'.epoch = e /\ row.epoch < e
        /\ row'.gen = sess[i].gen /\ row.gen <= sess[i].gen
        /\ sess[i].gen \in Nat /\ sess[i].gen # 0 /\ n \in Nat /\ e \in Nat
    BY <1>3, ResetEffect, FloorBoundsAssumption, GenerationsAreNat
  <2>2. earned' = {n}
    BY <1>3 DEF ResetFloor
  <2>3. row'.epoch > row.epoch /\ row'.gen >= row.gen /\ row'.gen > 0
    BY <1>0, <2>1
  <2> QED
    BY <2>1, <2>2, <2>3 DEF Register!Reset
<1>4. ASSUME NEW i \in Instances, NEW n \in 0..MaxIndex, Accept(i, n)
      PROVE  Register!Accept \/ UNCHANGED <<row, earned>>
  BY <1>4, FloorBoundsAssumption DEF Accept, Register!Accept
<1>5. CASE UNCHANGED <<row, earned>>
  BY <1>5
<1> QED
  BY <1>1, <1>2, <1>3, <1>4, <1>5
  DEF Next, vars, ReadEpoch, ReadFloor, SpawnFails, Rebuild, Report, LoseWrite,
      SessionEnds, FloorResetSeen, Provision, ServiceRestarts, Register!Next

\* The row is a register that goes up in the order of reset epoch, key generation and
\* index, and that only holds what was set or accepted since the last reset: for any
\* number of sessions and reports, late, lost or out of order, and whether or not every
\* version of the SSM parameter carries a fresh key.
THEOREM SpecImplementsRegister == Spec => ImplementsRegister
<1>1. Init => Register!Init
  BY DEF Init, EmptyFloor, NoIndex, Register!Init
<1>2. TypeOK /\ RowCoherent /\ ResetInv /\ [Next]_vars
        => [Register!Next]_<<row.epoch, row.gen, row.index, earned>>
  BY RegisterStep
<1> QED
  BY <1>1, <1>2, SpecTypeOK, SpecRowCoherent, SpecResetInv, PTL
  DEF Spec, ImplementsRegister, Register!Spec

-----------------------------------------------------------------------------
\* The row always holds the most that its version persisted.
LEMMA SpecRowIsHighest == Spec => []RowIsHighest
<1>1. Init => RowIsHighest
  BY DEF Init, RowIsHighest, EmptyFloor
<1>2. TypeOK /\ RowCoherent /\ RowIsHighest /\ [Next]_vars => RowIsHighest'
  <2> SUFFICES ASSUME TypeOK, RowCoherent, RowIsHighest, [Next]_vars PROVE RowIsHighest'
    OBVIOUS
  <2>0. row.gen \in Nat /\ row.index \in Int /\ \A g \in Generations : reached[g] \in Int
    BY Numbers
  <2>1. ASSUME NEW w \in writes, ApplyWrite(w), CanRaise(row, w) PROVE RowIsHighest'
    <3>1. w.index \in Nat /\ w.gen \in Generations /\ w.gen \in Nat /\ w.gen # 0
      BY <2>1, WriteEffect, GenerationsAreNat
    <3>2. reached' = [reached EXCEPT ![w.gen] = Bigger(w.index, reached[w.gen])]
      BY <2>1 DEF ApplyWrite
    <3>3. reached[w.gen] <= w.index
      <4>1. CASE row.gen < w.gen
        BY <3>1, <4>1 DEF RowIsHighest, NoIndex
      <4>2. CASE row.gen = w.gen
        BY <2>0, <2>1, <3>1, <4>2, WriteEffect DEF RowIsHighest
      <4> QED
        BY <2>0, <2>1, <3>1, <4>1, <4>2, WriteEffect
    <3>4. reached'[w.gen] = w.index
      BY <2>0, <3>1, <3>2, <3>3 DEF Bigger, TypeOK
    <3>5. row'.index >= reached'[row'.gen]
      BY <2>1, <3>1, <3>4, WriteEffect
    <3>6. ASSUME NEW g \in Generations, g > row'.gen PROVE reached'[g] = NoIndex
      <4>1. g \in Nat /\ g > w.gen /\ row.gen <= w.gen
        BY <2>1, <3>6, WriteEffect, GenerationsAreNat
      <4>2. g # w.gen /\ g > row.gen
        BY <2>0, <3>1, <4>1
      <4> QED
        BY <3>2, <4>2 DEF RowIsHighest, TypeOK
    <3> QED
      BY <3>5, <3>6 DEF RowIsHighest
  <2>2. ASSUME NEW i \in Instances, NEW e \in 1..MaxEpoch, NEW n \in 0..MaxIndex,
               ResetFloor(i, e, n)
        PROVE  RowIsHighest'
    <3>1. reached' = [g \in Generations |-> IF g = sess[i].gen THEN n ELSE NoIndex]
      BY <2>2 DEF ResetFloor
    <3>2. row'.gen = sess[i].gen /\ sess[i].gen \in Generations /\ row'.index = n
          /\ sess[i].gen \in Nat
      BY <2>2, ResetEffect, Numbers
    <3>3. ASSUME NEW g \in Generations, g > row'.gen PROVE reached'[g] = NoIndex
      BY <3>1, <3>2, <3>3, GenerationsAreNat
    <3> QED
      BY <3>1, <3>2, <3>3, FloorBoundsAssumption DEF RowIsHighest
  <2>3. CASE UNCHANGED <<row, reached>>
    BY <2>3 DEF RowIsHighest
  <2> QED
    BY <2>1, <2>2, <2>3
    DEF Next, vars, ReadEpoch, ReadFloor, SpawnFails, Accept, Rebuild, Report, ApplyWrite,
        LoseWrite, SessionEnds, FloorResetSeen, Provision, ServiceRestarts
<1> QED
  BY <1>1, <1>2, SpecTypeOK, SpecRowCoherent, PTL DEF Spec

\* A session that runs under the row's version, or a newer one, refuses everything
\* persisted before it started by its own version, and by the row's when that carries
\* the same key (_record_authenticated against the floor getSrtpIndexFloor returned):
\* whichever versions carry the same key.
THEOREM SpecPersistedIsRefused == Spec => []PersistedIsRefused
<1>1. Init => PersistedIsRefused
  BY DEF Init, PersistedIsRefused, NewSession
<1>2. TypeOK /\ TypeOK' /\ RowCoherent /\ RowIsHighest /\ PersistedIsRefused /\ [Next]_vars
        => PersistedIsRefused'
  <2> SUFFICES ASSUME TypeOK, TypeOK', RowCoherent, RowIsHighest, PersistedIsRefused,
                      [Next]_vars, NEW j \in Instances,
                      sess'[j].phase = "up", sess'[j].gen >= row'.gen
               PROVE  sess'[j].floor >= sess'[j].due
    BY DEF PersistedIsRefused
  <2>0. row.gen \in Nat /\ row'.gen \in Nat /\ row'.gen >= row.gen /\ sess'[j].gen \in Nat
    <3>1. row'.gen \in Generations \cup {0} /\ sess'[j].gen \in Generations
      BY DEF TypeOK, FloorRows, Sessions
    <3> QED
      BY <3>1, Numbers, FencesStep, GenerationsAreNat
  <2>1. CASE sess'[j] = sess[j]
    BY <2>0, <2>1 DEF PersistedIsRefused
  <2>2. ASSUME NEW i \in Instances,
               SpawnFails(i) \/ SessionEnds(i) \/ FloorResetSeen(i) \/ ServiceRestarts(i)
        PROVE  sess'[j] = sess[j]
    BY <2>2, RestartEffect
  <2>3. ASSUME NEW i \in Instances, ReadEpoch(i) PROVE sess'[j] = sess[j]
    BY <2>3 DEF ReadEpoch, TypeOK, Sessions
  <2>4. ASSUME ReadFloor(j) PROVE sess'[j].floor >= sess'[j].due
    <3>1. /\ sess'[j].floor = FloorFor(row, Key(j)) /\ sess'[j].due = Owed(sess[j].gen)
          /\ sess'[j].gen = sess[j].gen /\ row' = row
      BY <2>4, ReadFloorEffect
    <3>2. CASE row.gen # 0 /\ row.key = Key(j)
      <4>1. sess'[j].floor = row.index /\ sess'[j].due = reached[row.gen]
        BY <3>1, <3>2 DEF FloorFor, Owed, Key
      <4> QED
        BY <3>2, <4>1 DEF RowIsHighest
    <3>3. CASE ~(row.gen # 0 /\ row.key = Key(j))
      <4>1. sess'[j].due = reached[sess[j].gen]
        BY <3>1, <3>3 DEF Owed, Key
      <4>2. sess[j].gen # row.gen
        BY <3>3, Numbers DEF RowCoherent, Key
      <4>3. reached[sess[j].gen] = NoIndex
        BY <2>0, <3>1, <4>2, Numbers DEF RowIsHighest
      <4>4. sess'[j].floor \in Indexes
        BY DEF TypeOK, Sessions
      <4> QED
        BY <4>1, <4>3, <4>4 DEF Indexes, NoIndex
    <3> QED
      BY <3>2, <3>3
  <2>5. ASSUME NEW i \in Instances, ReadFloor(i), i # j PROVE sess'[j] = sess[j]
    BY <2>5, ReadFloorEffect
  <2>6. ASSUME NEW i \in Instances, NEW n \in 0..MaxIndex, Accept(i, n)
        PROVE  sess'[j].floor >= sess'[j].due
    <3>1. /\ sess'[j].floor = sess[j].floor /\ sess'[j].due = sess[j].due
          /\ sess'[j].gen = sess[j].gen /\ sess'[j].phase = sess[j].phase
      BY <2>6 DEF Accept, TypeOK, Sessions
    <3> QED
      BY <2>0, <3>1 DEF PersistedIsRefused
  <2>7. ASSUME NEW i \in Instances, Rebuild(i) PROVE sess'[j].floor >= sess'[j].due
    <3>1. /\ sess'[j].floor \in {sess[j].floor, sess[i].highest}
          /\ sess'[j].floor = sess[j].floor \/ sess'[j].floor > sess[j].floor
          /\ sess'[j].due = sess[j].due
          /\ sess'[j].gen = sess[j].gen /\ sess'[j].phase = sess[j].phase
      BY <2>7 DEF Rebuild, TypeOK, Sessions
    <3>2. sess[j].due \in Int /\ sess[j].floor \in Int /\ sess'[j].floor \in Int
      <4>1. sess[j].due \in Indexes /\ sess[j].floor \in Indexes /\ sess'[j].floor \in Indexes
        BY DEF TypeOK, Sessions
      <4> QED
        BY <4>1 DEF Indexes, NoIndex
    <3> QED
      BY <2>0, <3>1, <3>2 DEF PersistedIsRefused
  <2>8. ASSUME NEW i \in Instances, Report(i) PROVE sess'[j].floor >= sess'[j].due
    <3>1. /\ sess'[j].floor = sess[j].floor /\ sess'[j].due = sess[j].due
          /\ sess'[j].gen = sess[j].gen /\ sess'[j].phase = sess[j].phase
      BY <2>8 DEF Report, TypeOK, Sessions
    <3> QED
      BY <2>0, <3>1 DEF PersistedIsRefused
  <2>9. CASE UNCHANGED sess
    BY <2>1, <2>9
  <2> QED
    BY <2>1, <2>2, <2>3, <2>4, <2>5, <2>6, <2>7, <2>8, <2>9
    DEF Next, vars, ApplyWrite, LoseWrite, Provision, ResetFloor
<1> QED
  BY <1>1, <1>2, SpecTypeOK, SpecRowCoherent, SpecRowIsHighest, PTL DEF Spec

-----------------------------------------------------------------------------
\* What is accepted is above the admission floor, and stays above what was due while
\* the floor moves up with it.
LEMMA SpecCarriedIsNew == Spec => []CarriedIsNew
<1>1. Init => CarriedIsNew
  BY DEF Init, CarriedIsNew, NewSession
<1>2. TypeOK /\ TypeOK' /\ RowCoherent /\ PersistedIsRefused /\ CarriedIsNew /\ [Next]_vars
        => CarriedIsNew'
  <2> SUFFICES ASSUME TypeOK, TypeOK', RowCoherent, PersistedIsRefused, CarriedIsNew,
                      [Next]_vars
               PROVE  CarriedIsNew'
    OBVIOUS
  <2>0. /\ row.gen \in Nat /\ row'.gen \in Nat /\ row'.gen >= row.gen
        /\ \A i \in Instances :
             /\ sess[i].gen \in Nat /\ sess[i].floor \in Int /\ sess[i].highest \in Int
             /\ sess[i].due \in Int
        /\ \A w \in writes : w.gen \in Nat /\ w.index \in Int /\ w.due \in Int
    <3>1. row'.gen \in Generations \cup {0}
      BY DEF TypeOK, FloorRows
    <3>2. \A i \in Instances : sess[i].due \in Indexes
      BY DEF TypeOK, Sessions
    <3>3. \A w \in writes : w.due \in Indexes
      BY DEF TypeOK, Writes
    <3>4. \A x \in Indexes : x \in Int
      BY DEF Indexes, NoIndex
    <3> QED
      BY <3>1, <3>2, <3>3, <3>4, Numbers, FencesStep, GenerationsAreNat
  <2> USE DEF CarriedIsNew
  <2>1. ASSUME NEW i \in Instances,
               SpawnFails(i) \/ SessionEnds(i) \/ FloorResetSeen(i) \/ ServiceRestarts(i)
        PROVE  CarriedIsNew'
    BY <2>1, RestartEffect
  <2>2. ASSUME NEW i \in Instances, ReadEpoch(i) PROVE CarriedIsNew'
    <3>1. /\ UNCHANGED <<row, writes>> /\ sess'[i].phase = "epochRead"
          /\ \A j \in Instances : j # i => sess'[j] = sess[j]
      BY <2>2 DEF ReadEpoch, TypeOK, Sessions
    <3> QED
      BY <3>1
  <2>3. ASSUME NEW i \in Instances, ReadFloor(i) PROVE CarriedIsNew'
    BY <2>3, ReadFloorEffect
  <2>4. ASSUME NEW i \in Instances, NEW n \in 0..MaxIndex, Accept(i, n) PROVE CarriedIsNew'
    <3>1. /\ UNCHANGED <<row, writes>> /\ sess[i].phase = "up" /\ n > sess[i].floor
          /\ sess'[i].highest = Bigger(n, sess[i].highest)
          /\ sess'[i].due = sess[i].due /\ sess'[i].gen = sess[i].gen
          /\ \A j \in Instances : j # i => sess'[j] = sess[j]
      BY <2>4 DEF Accept, TypeOK, Sessions
    <3>2. sess[i].gen >= row.gen => n > sess[i].due
      BY <2>0, <3>1, FloorBoundsAssumption DEF PersistedIsRefused
    <3>3. sess[i].gen >= row.gen => sess'[i].highest > sess[i].due
      BY <2>0, <3>1, <3>2, FloorBoundsAssumption DEF Bigger
    <3> QED
      BY <3>1, <3>3
  <2>5. ASSUME NEW i \in Instances, Rebuild(i) PROVE CarriedIsNew'
    <3>1. /\ UNCHANGED <<row, writes>>
          /\ sess'[i].phase = sess[i].phase /\ sess'[i].highest = sess[i].highest
          /\ sess'[i].due = sess[i].due /\ sess'[i].gen = sess[i].gen
          /\ \A j \in Instances : j # i => sess'[j] = sess[j]
      BY <2>5 DEF Rebuild, TypeOK, Sessions
    <3> QED
      BY <3>1
  <2>6. ASSUME NEW i \in Instances, Report(i) PROVE CarriedIsNew'
    <3> DEFINE new == [index |-> sess[i].highest, gen |-> sess[i].gen,
                       epoch |-> sess[i].epoch, due |-> sess[i].due]
    <3>1. /\ row' = row /\ writes' = writes \cup {new}
          /\ sess[i].phase = "up" /\ sess[i].highest # NoIndex
          /\ sess'[i].phase = sess[i].phase /\ sess'[i].highest = sess[i].highest
          /\ sess'[i].due = sess[i].due /\ sess'[i].gen = sess[i].gen
          /\ \A j \in Instances : j # i => sess'[j] = sess[j]
      BY <2>6 DEF Report, TypeOK, Sessions
    <3>2. new.gen = sess[i].gen /\ new.index = sess[i].highest /\ new.due = sess[i].due
      OBVIOUS
    <3>3. new.gen >= row.gen => new.index > new.due
      BY <3>1, <3>2
    <3> HIDE DEF new
    <3>4. \A w \in writes' : w \in writes \/ w = new
      BY <3>1, Zenon
    <3> QED
      BY <3>1, <3>3, <3>4
  <2>7. ASSUME NEW w \in writes, ApplyWrite(w) \/ LoseWrite(w) PROVE CarriedIsNew'
    <3>1. sess' = sess /\ writes' \subseteq writes
      BY <2>7 DEF ApplyWrite, LoseWrite
    <3> QED
      BY <2>0, <3>1
  <2>8. CASE Provision
    BY <2>8 DEF Provision
  <2>9. ASSUME NEW i \in Instances, NEW e \in 1..MaxEpoch, NEW n \in 0..MaxIndex,
               ResetFloor(i, e, n)
        PROVE CarriedIsNew'
    <3>1. sess' = sess /\ writes' = writes
      BY <2>9 DEF ResetFloor
    <3> QED
      BY <2>0, <3>1
  <2>10. CASE UNCHANGED vars
    BY <2>10 DEF vars
  <2> QED
    BY <2>1, <2>2, <2>3, <2>4, <2>5, <2>6, <2>7, <2>8, <2>9, <2>10 DEF Next
<1> QED
  BY <1>1, <1>2, SpecTypeOK, SpecRowCoherent, SpecPersistedIsRefused, PTL DEF Spec

\* Between resets the floor of an identity only goes up (raiseSrtpIndexFloor), but for
\* reports of a newer version that carries the same key, and those are above all that
\* was persisted under the key when their session started: whatever keys are
\* provisioned, in whichever order the conditional writes arrive.
THEOREM SpecFloorOnlyRises == Spec => FloorOnlyRises
<1> DEFINE Falls == \E w \in writes \ writes' : w.gen > row.gen /\ w.index > w.due
<1>1. TypeOK /\ RowCoherent /\ CarriedIsNew /\ [Next]_vars
        => [row'.key = row.key /\ row'.epoch = row.epoch
              => row'.index >= row.index \/ Falls]_vars
  <2> SUFFICES ASSUME TypeOK, RowCoherent, CarriedIsNew, [Next]_vars,
                      row'.epoch = row.epoch
               PROVE  row'.index >= row.index \/ Falls
    OBVIOUS
  <2>0. row.epoch \in Nat /\ row.gen \in Nat /\ row.index \in Int
    BY Numbers
  <2>1. ASSUME NEW w \in writes, ApplyWrite(w), CanRaise(row, w)
        PROVE  row'.index >= row.index \/ Falls
    <3>1. /\ w.index \in Nat /\ w.gen \in Nat /\ row'.index = w.index
          /\ row.gen <= w.gen /\ (row.gen = w.gen => row.index < w.index)
      BY <2>1, WriteEffect, GenerationsAreNat
    <3>2. CASE row.gen = w.gen
      BY <2>0, <3>1, <3>2
    <3>3. CASE row.gen < w.gen
      <4>1. w \in writes \ writes'
        BY <2>1 DEF ApplyWrite
      <4>2. w.index > w.due
        BY <2>0, <3>1, <3>3 DEF CarriedIsNew
      <4> QED
        BY <3>3, <4>1, <4>2
    <3> QED
      BY <2>0, <3>1, <3>2, <3>3
  <2>2. ASSUME NEW i \in Instances, NEW e \in 1..MaxEpoch, NEW n \in 0..MaxIndex,
               ResetFloor(i, e, n)
        PROVE  row'.index >= row.index
    BY <2>0, <2>2, ResetEffect, FloorBoundsAssumption
  <2>3. CASE UNCHANGED row
    BY <2>0, <2>3
  <2> QED
    BY <2>1, <2>2, <2>3
    DEF Next, vars, ReadEpoch, ReadFloor, SpawnFails, Accept, Rebuild, Report, ApplyWrite,
        LoseWrite, SessionEnds, FloorResetSeen, Provision, ServiceRestarts
<1> QED
  BY <1>1, SpecTypeOK, SpecRowCoherent, SpecCarriedIsNew, PTL DEF Spec, FloorOnlyRises

=============================================================================
