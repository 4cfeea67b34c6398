------------------------------- MODULE FloorRow -------------------------------
(***************************************************************************)
(* The replay-floor half of a port's row: srtpIndex, the identity of the   *)
(* key it was reached under, that key's rotation generation and the epoch  *)
(* of the last reset (StreamMetadataService.ts).  As in StreamRow, a "Can" *)
(* operator is a ConditionExpression.                                      *)
(*                                                                         *)
(* Absent attributes: index NoIndex, generation 0, epoch 0.  The identity  *)
(* (SSRC and key fingerprint) is one value, since it is only ever compared *)
(* as a whole.                                                             *)
(***************************************************************************)
EXTENDS Integers

CONSTANTS Keys,         \* identities: SSRC and key fingerprint
          NoKey,
          Generations,  \* SSM parameter versions, consecutive from 1
          KeyOf         \* the identity each version carries, perhaps an earlier one's

ASSUME GenerationsAssumption ==
  Generations \subseteq Nat \ {0} /\ KeyOf \in [Generations -> Keys]
ASSUME NoKeyAssumption == NoKey \notin Keys

NoIndex == -1

Indexes == Nat \cup {NoIndex}

FloorRows == [index : Indexes, key : Keys \cup {NoKey},
              gen : Generations \cup {0}, epoch : Nat]

\* Nothing was ever accepted on this port.
EmptyFloor == [index |-> NoIndex, key |-> NoKey, gen |-> 0, epoch |-> 0]

\* getSrtpIndexFloor: a floor under another identity is no floor at all.
FloorFor(row, key) == IF row.key = key THEN row.index ELSE NoIndex

\* Mutant of CanRaise: without the epoch fence.
CanRaiseAcrossResets(row, w) ==
  \/ row.index = NoIndex
  \/ row.gen = 0
  \/ row.gen < w.gen
  \/ row.gen = w.gen /\ row.key = KeyOf[w.gen] /\ row.index < w.index

\* raiseSrtpIndexFloor: the epoch fence, then the rotation fence, then upwards.
CanRaise(row, w) ==
  /\ row.epoch = w.epoch
  /\ \/ row.index = NoIndex
     \/ row.gen = 0
     \/ row.gen < w.gen
     \/ row.gen = w.gen /\ row.key = KeyOf[w.gen] /\ row.index < w.index

Raised(row, w) ==
  [row EXCEPT !.index = w.index, !.key = KeyOf[w.gen], !.gen = w.gen]

\* Mutant of CanReset: without the rotation fence.
CanResetByOlderKey(row, epoch, gen) == row.epoch < epoch

\* resetSrtpIndexFloor: each signed timestamp is good for one reset, and an older
\* key cannot reset a newer key's floor.
CanReset(row, epoch, gen) == row.epoch < epoch /\ row.gen <= gen

Reset(epoch, index, gen) ==
  [index |-> index, key |-> KeyOf[gen], gen |-> gen, epoch |-> epoch]

=============================================================================
