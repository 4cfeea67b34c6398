------------------------------ MODULE StreamRow ------------------------------
(***************************************************************************)
(* The DynamoDB row of one port, as StreamMetadataService.ts and the       *)
(* inactivity-cleanup lambda write it.  Every write is one conditional     *)
(* UpdateItem, so each is a pure operator from the row to the row: "can"   *)
(* operators are the ConditionExpressions, the others the SET and REMOVE   *)
(* parts.  This module is the lock half of the row: owner, status and the  *)
(* lease.  The floor half is in FloorRow.                                  *)
(*                                                                         *)
(* Timestamps are abstracted to what the conditions tell apart: `stale`    *)
(* says that lastPacketTime is older than KINESIS_LOCK_STALE_MS (the same  *)
(* five minutes in the service and in the lambda).                         *)
(***************************************************************************)

CONSTANTS Instances,   \* the ingestion instances that compete for the port
          NoOwner      \* kinesisOwnerInstanceId is absent

ASSUME NoOwnerAssumption == NoOwner \notin Instances

LockRow == [owner : Instances \cup {NoOwner}, active : BOOLEAN, stale : BOOLEAN]

\* The row does not exist yet, or was released: nobody owns the port.
FreeRow == [owner |-> NoOwner, active |-> FALSE, stale |-> FALSE]

\* Mutant of CanAcquire: an unconditional put.
CanAcquireAlways(row, i) == TRUE

\* tryAcquireKinesisLock: ConditionExpression and update.
CanAcquire(row, i) == row.owner = NoOwner \/ row.owner = i \/ row.stale

Acquired(i) == [owner |-> i, active |-> TRUE, stale |-> FALSE]

\* Mutant of Released: without the owner condition.
ReleasedByAnyone(row, i) == [row EXCEPT !.owner = NoOwner, !.active = FALSE]

\* releaseKinesisLock: a failed condition is silently ignored.
Released(row, i) ==
  IF row.owner = i THEN [row EXCEPT !.owner = NoOwner, !.active = FALSE] ELSE row

\* updateLastPacketTime: a failed condition is the outcome lostLock.
CanRefresh(row, i) == row.owner = i

Refreshed(row) == [row EXCEPT !.active = TRUE, !.stale = FALSE]

\* The lambda's conditional REMOVE: still active and still stale at the write,
\* whatever the scan saw.
CanClean(row) == row.active /\ row.stale

\* Mutant of Cleaned: the owner is not removed.
CleanedStatusOnly(row) == [row EXCEPT !.active = FALSE]

Cleaned(row) == [row EXCEPT !.owner = NoOwner, !.active = FALSE]

=============================================================================
