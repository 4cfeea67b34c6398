---------------------------- MODULE SrtpSupervisor ----------------------------
(***************************************************************************)
(* SrtpPortSupervisor.ts: the state machine that runs one port's helper    *)
(* and holds the port's Kinesis lock while the helper produces.            *)
(*                                                                         *)
(* Every event is one step of a serialized queue, so an action here is one *)
(* queued step.  DynamoDB calls take effect inside the step; the waits     *)
(* that others can overtake - for a child to exit, for a stop to be        *)
(* acknowledged at shutdown, between the reads of a start - are separate   *)
(* actions, told apart by `pc`: while it is not "idle" the queue is        *)
(* blocked and no other event is handled.                                  *)
(*                                                                         *)
(* Clearing `helperUp` makes every frame of the old session inert (its     *)
(* index and search position are ReplayFloor's and RocSearch's concern),   *)
(* so the pipe is dropped with the session.                                *)
(***************************************************************************)
EXTENDS SrtpHelper, StreamRow

CONSTANT Me   \* this instance

ASSUME MeAssumption == Me \in Instances

VARIABLES
  state,             \* SrtpSupervisorState
  lockHeld,
  releaseAfterStop,
  helperUp,          \* this.helper !== undefined
  fatalReason,       \* none, retryable or permanent
  pc,                \* where the step in flight waits
  after,             \* what follows the child's exit when pc = "ending"
  row                \* the port's row

supVars == <<state, lockHeld, releaseAfterStop, helperUp, fatalReason,
             pc, after, row>>
vars == <<helperVars, supVars, faults>>

States == {"idle", "starting", "searching", "acquiring", "producing", "stopping",
           "cooldown", "disabled", "terminated"}

SupervisorTypeOK ==
  /\ state \in States
  /\ lockHeld \in BOOLEAN /\ releaseAfterStop \in BOOLEAN /\ helperUp \in BOOLEAN
  /\ fatalReason \in {"none", "retryable", "permanent"}
  /\ pc \in {"idle", "awaitAck", "ending", "respawn"}
  /\ after \in {"cooldown", "respawn", "exit", "terminate"}
  /\ row \in LockRow

SupervisorInit ==
  /\ state = "idle" /\ lockHeld = FALSE /\ releaseAfterStop = TRUE
  /\ helperUp = FALSE /\ fatalReason = "none"
  /\ pc = "idle" /\ after = "cooldown"
  /\ row = FreeRow

-----------------------------------------------------------------------------
\* writeCommand: a write to a child that has exited is dropped with a warning.
Write(command) ==
  stdin' = IF proc \in {"booting", "running"} THEN Append(stdin, command) ELSE stdin

\* releaseLock: lockHeld falls first; the conditional write may fail, and the
\* lease then goes stale.
ReleaseLock ==
  /\ lockHeld' = FALSE
  /\ \/ row' = IF lockHeld THEN Released(row, Me) ELSE row
     \/ "leaseFailure" \in faults /\ lockHeld /\ row' = row

\* endChildProcess begins: SIGTERM, and the step waits for the exit.
EndChild(then) ==
  /\ sigterm' = TRUE
  /\ pc' = "ending" /\ after' = then

\* Mutant of EndSession: the signal is sent and nobody waits for the exit.
EndSessionDoesNotWait(then) ==
  /\ sigterm' = TRUE /\ helperUp' = FALSE
  /\ state' = "cooldown"
  /\ ReleaseLock
  /\ UNCHANGED <<proc, mode, stopVars, shuttingDown, eos, authVars, wedged,
                 pipeVars, faults, releaseAfterStop, fatalReason, pc, after>>

\* endSession up to its await.
EndSession(then) ==
  /\ EndChild(then)
  /\ helperUp' = FALSE
  /\ UNCHANGED <<proc, mode, stopVars, shuttingDown, eos, authVars, wedged,
                 pipeVars, faults, state, lockHeld, releaseAfterStop, fatalReason, row>>

\* The process is gone and its pipes with it.
Reaped == proc' = "none" /\ FreshHelper

-----------------------------------------------------------------------------
\* spawnSession: epoch, floor, credentials, child.  Any of the reads or the
\* spawn can fail; then the backoff starts and no helper exists.
SpawnSession ==
  /\ fatalReason' = "none" /\ pc' = "idle"
  /\ \/ /\ state' = "starting"
        /\ helperUp' = TRUE
        /\ proc' = "booting" /\ FreshHelper
     \/ /\ "crash" \in faults
        /\ state' = "cooldown"
        /\ UNCHANGED <<helperUp, helperVars>>
  /\ UNCHANGED <<faults, lockHeld, releaseAfterStop, after, row>>

\* start()
Start ==
  /\ pc = "idle" /\ state = "idle"
  /\ SpawnSession

\* handleTick in cooldown, once retryAtMs has come.
CooldownOver ==
  /\ pc = "idle" /\ state = "cooldown"
  /\ SpawnSession

\* handleFloorReset after its endSession: start on the new floor straight away.
Respawn ==
  /\ pc = "respawn"
  /\ SpawnSession

-----------------------------------------------------------------------------
\* attemptAcquire.  The call may also throw, with the write applied or not.
AttemptAcquire ==
  /\ \/ /\ CanAcquire(row, Me)
        /\ row' = Acquired(Me)
        /\ lockHeld' = TRUE /\ releaseAfterStop' = TRUE
        /\ Write("start")
        /\ state' = "producing"
     \/ /\ ~CanAcquire(row, Me)
        /\ state' = "acquiring"
        /\ UNCHANGED <<row, lockHeld, releaseAfterStop, stdin>>
     \/ /\ "leaseFailure" \in faults
        /\ state' = "acquiring"
        /\ row' \in IF CanAcquire(row, Me) THEN {row, Acquired(Me)} ELSE {row}
        /\ UNCHANGED <<lockHeld, releaseAfterStop, stdin>>

\* Mutant of RefreshLease: a lost lock goes unnoticed.
RefreshLeaseIgnoresLoss ==
  /\ row' = IF CanRefresh(row, Me) THEN Refreshed(row) ELSE row
  /\ UNCHANGED <<state, releaseAfterStop, stdin>>

\* refreshLease, when updateLastPacketTime writes: a failed condition means the
\* row is someone else's, and the helper is told to stop.
RefreshLease ==
  \/ /\ CanRefresh(row, Me)
     /\ row' = Refreshed(row)
     /\ UNCHANGED <<state, releaseAfterStop, stdin>>
  \/ /\ ~CanRefresh(row, Me)
     /\ releaseAfterStop' = FALSE
     /\ Write("stop")
     /\ state' = "stopping"
     /\ UNCHANGED row

-----------------------------------------------------------------------------
\* handleFrame, one action per frame that acts.  All take the frame off the
\* pipe and leave the process alone; what `stdin` does is up to the handler.
TakeFrame(frames) ==
  /\ pc = "idle" /\ helperUp
  /\ state \notin {"terminated", "idle"}
  /\ stdout # <<>> /\ Head(stdout) \in frames
  /\ stdout' = Tail(stdout)
  /\ UNCHANGED <<proc, mode, stopVars, shuttingDown, eos, authVars, wedged,
                 sigterm, faults, pc, after, helperUp>>

FrameReady ==
  /\ TakeFrame({"ready"})
  /\ state' = IF state = "starting" THEN "searching" ELSE state
  /\ UNCHANGED <<stdin, lockHeld, releaseAfterStop, fatalReason, row>>

FrameAuthOk ==
  /\ TakeFrame({"ok"})
  /\ IF state \in {"searching", "acquiring"}
       THEN AttemptAcquire
       ELSE UNCHANGED <<state, lockHeld, releaseAfterStop, row, stdin>>
  /\ UNCHANGED fatalReason

\* notProducing: by the helper's own report the port produces no more.
NotProducing ==
  \/ /\ state \in {"producing", "stopping"}
     /\ ReleaseLock /\ state' = "searching"
  \/ /\ state = "acquiring"
     /\ state' = "searching" /\ UNCHANGED <<lockHeld, row>>
  \/ /\ state \notin {"producing", "stopping", "acquiring"}
     /\ UNCHANGED <<state, lockHeld, row>>

FrameAuthLost ==
  /\ TakeFrame({"lost"})
  /\ NotProducing
  /\ UNCHANGED <<stdin, releaseAfterStop, fatalReason>>

\* Mutant of FrameStopped: a stop after a lost lock forgets that it is lost.
FrameStoppedKeepsFlag ==
  /\ TakeFrame({"stopped"})
  /\ \/ /\ state = "stopping" /\ ~releaseAfterStop
        /\ state' = "searching" /\ UNCHANGED <<lockHeld, row>>
     \/ /\ state = "producing" \/ (state = "stopping" /\ releaseAfterStop)
        /\ ReleaseLock /\ state' = "searching"
     \/ /\ state \notin {"producing", "stopping"}
        /\ UNCHANGED <<state, lockHeld, row>>
  /\ UNCHANGED <<stdin, releaseAfterStop, fatalReason>>

FrameStopped ==
  /\ TakeFrame({"stopped"})
  /\ \/ /\ state = "stopping" /\ ~releaseAfterStop
        /\ lockHeld' = FALSE /\ state' = "searching" /\ UNCHANGED row
     \/ /\ state = "producing" \/ (state = "stopping" /\ releaseAfterStop)
        /\ ReleaseLock /\ state' = "searching"
     \/ /\ state \notin {"producing", "stopping"}
        /\ UNCHANGED <<state, lockHeld, row>>
  /\ UNCHANGED <<stdin, releaseAfterStop, fatalReason>>

\* A heartbeat from a producing helper refreshes the lease.
FrameStatsRefresh ==
  /\ state = "producing"
  /\ TakeFrame({"stats"})
  /\ RefreshLease
  /\ UNCHANGED <<lockHeld, fatalReason>>

\* Mutant of FrameStatsRetry: the lock is asked for once only.
FrameStatsNeverRetries == FALSE

\* A heartbeat while waiting for the lock retries, once acquireRetryMs passed.
FrameStatsRetry ==
  /\ state = "acquiring"
  /\ TakeFrame({"stats"})
  /\ AttemptAcquire
  /\ UNCHANGED fatalReason

\* Any other heartbeat only proves that the helper lives: nothing to refresh, no
\* retry due, or a refresh that is throttled (one write in 15 s) or whose write
\* failed (the lease stands until it goes stale).
FrameStatsIgnored ==
  /\ TakeFrame({"stats", "statsIdle"})
  /\ UNCHANGED <<stdin, state, lockHeld, releaseAfterStop, fatalReason, row>>

FrameFatal ==
  /\ TakeFrame({"fatal", "fatalRetryable"})
  /\ fatalReason' = IF Head(stdout) = "fatal" THEN "permanent" ELSE "retryable"
  /\ UNCHANGED <<stdin, state, lockHeld, releaseAfterStop, row>>

HandleFrame == FrameReady \/ FrameAuthOk \/ FrameAuthLost \/ FrameStopped
               \/ FrameStatsRefresh \/ FrameStatsRetry \/ FrameStatsIgnored
               \/ FrameFatal

-----------------------------------------------------------------------------
\* The rest of handleExit, once `exited` is certain.
AfterExit ==
  /\ Reaped
  /\ helperUp' = FALSE
  /\ ReleaseLock
  /\ state' = IF fatalReason = "permanent" THEN "disabled" ELSE "cooldown"

\* handleExit: the exit event may overtake frames still in the pipe.
HandleExit ==
  /\ pc = "idle" /\ helperUp /\ state # "terminated"
  /\ proc = "exited"
  /\ AfterExit
  /\ UNCHANGED <<faults, releaseAfterStop, fatalReason, pc, after>>

\* An 'error' event is no proof of death: the child is ended first.
ChildError ==
  /\ "crash" \in faults
  /\ pc = "idle" /\ helperUp /\ state # "terminated"
  /\ EndChild("exit")
  /\ UNCHANGED <<proc, mode, stopVars, shuttingDown, eos, authVars, wedged,
                 pipeVars, faults, state, lockHeld, releaseAfterStop, helperUp,
                 fatalReason, row>>

\* SIGKILL, five seconds after the SIGTERM.
Kill ==
  /\ pc = "ending" /\ proc \in {"booting", "running"}
  /\ Exit
  /\ UNCHANGED <<sigterm, stdout, faults, supVars>>

\* endChildProcess returned: the rest of endSession, of the 'error' handler or
\* of shutdown.  Only now is the lock let go.
Ended ==
  /\ pc = "ending" /\ proc = "exited"
  /\ \/ /\ after \in {"cooldown", "respawn"}
        /\ Reaped /\ ReleaseLock /\ UNCHANGED helperUp
        /\ state' = "cooldown"
        /\ pc' = IF after = "respawn" THEN "respawn" ELSE "idle"
     \/ /\ after = "exit"
        /\ AfterExit /\ pc' = "idle"
     \/ /\ after = "terminate"
        /\ Reaped /\ helperUp' = FALSE
        /\ ReleaseLock
        /\ state' = "terminated" /\ pc' = "idle"
  /\ after' = "cooldown"
  /\ UNCHANGED <<faults, releaseAfterStop, fatalReason>>

-----------------------------------------------------------------------------
\* handleTick's timeouts.  They are long against the helper's own timers, so in
\* calm times they fire only for a helper whose main loop is stuck.
Overdue == faults # {} \/ wedged

ReadyTimeout ==
  /\ pc = "idle" /\ state = "starting" /\ helperUp /\ Overdue
  /\ EndSession("cooldown")

StopTimeout ==
  /\ pc = "idle" /\ state = "stopping" /\ helperUp /\ Overdue
  /\ EndSession("cooldown")

\* No frame for frameStallMs; stats come every few seconds from a live helper.
StallTimeout ==
  /\ pc = "idle" /\ state \in {"searching", "acquiring", "producing"} /\ helperUp
  /\ Overdue /\ stdout = <<>>
  /\ EndSession("cooldown")

\* handleFloorReset, from a tick or from checkFloorReset.
FloorResetSeen ==
  /\ pc = "idle" /\ helperUp /\ "floorReset" \in faults
  /\ state \in {"starting", "searching", "acquiring", "producing"}
  /\ EndSession("respawn")

-----------------------------------------------------------------------------
\* Mutant of Shutdown: a helper that does not produce is forgotten.
ShutdownForgetsHelper ==
  /\ pc = "idle" /\ state # "terminated"
  /\ \/ /\ helperUp /\ proc # "exited" /\ state \in {"producing", "stopping"}
        /\ Write("stop") /\ pc' = "awaitAck"
        /\ UNCHANGED <<sigterm, after, state, lockHeld, row>>
     \/ /\ ~helperUp \/ proc = "exited" \/ state \notin {"producing", "stopping"}
        /\ ReleaseLock /\ state' = "terminated"
        /\ UNCHANGED <<sigterm, stdin, pc, after>>
  /\ UNCHANGED <<proc, mode, stopVars, shuttingDown, eos, authVars, wedged, stdout,
                 faults, releaseAfterStop, helperUp, fatalReason>>

\* shutdown(): a producer gets the chance to flush before it is ended.
Shutdown ==
  /\ pc = "idle" /\ state # "terminated"
  /\ \/ /\ helperUp /\ proc # "exited" /\ state \in {"producing", "stopping"}
        /\ Write("stop") /\ pc' = "awaitAck"
        /\ UNCHANGED <<sigterm, after, state, lockHeld, row>>
     \/ /\ helperUp /\ proc # "exited" /\ state \notin {"producing", "stopping"}
        /\ EndChild("terminate")
        /\ UNCHANGED <<stdin, state, lockHeld, row>>
     \/ /\ ~helperUp \/ proc = "exited"
        /\ ReleaseLock /\ state' = "terminated"
        /\ UNCHANGED <<sigterm, stdin, pc, after>>
  /\ UNCHANGED <<proc, mode, stopVars, shuttingDown, eos, authVars, wedged, stdout,
                 faults, releaseAfterStop, helperUp, fatalReason>>

\* Mutant of AckOrTimeout: only a stopped frame resolves the wait.
AckOnly ==
  /\ pc = "awaitAck"
  /\ \E n \in 1..Len(stdout) : stdout[n] = "stopped"
  /\ EndChild("terminate")
  /\ UNCHANGED <<proc, mode, stopVars, shuttingDown, eos, authVars, wedged,
                 pipeVars, faults, state, lockHeld, releaseAfterStop, helperUp,
                 fatalReason, row>>

\* awaitStopAck resolves: by a stopped frame, by the exit, or by the timeout.
AckOrTimeout ==
  /\ pc = "awaitAck"
  /\ EndChild("terminate")
  /\ UNCHANGED <<proc, mode, stopVars, shuttingDown, eos, authVars, wedged,
                 pipeVars, faults, state, lockHeld, releaseAfterStop, helperUp,
                 fatalReason, row>>

SupervisorNext ==
  \/ Start \/ CooldownOver \/ Respawn
  \/ HandleFrame \/ HandleExit \/ ChildError \/ Kill \/ Ended
  \/ ReadyTimeout \/ StopTimeout \/ StallTimeout \/ FloorResetSeen
  \/ Shutdown \/ AckOrTimeout

=============================================================================
