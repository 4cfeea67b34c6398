---------------------------- MODULE PortOwnership ----------------------------
(***************************************************************************)
(* One port as one instance runs it: its supervisor and helper, the row    *)
(* they share with every other instance, the other instances themselves    *)
(* (as far as the row shows them) and the inactivity-cleanup lambda.       *)
(***************************************************************************)
EXTENDS SrtpSupervisor

Rivals == Instances \ {Me}

Init ==
  /\ SupervisorInit
  /\ proc = "none" /\ mode = "searching" /\ stopping = FALSE /\ timers = 0
  /\ shuttingDown = FALSE /\ eos = FALSE
  /\ lastAuth = "never" /\ keyAuth = FALSE /\ confirmed = FALSE
  /\ wedged = FALSE /\ sigterm = FALSE /\ stdin = <<>> /\ stdout = <<>>
  /\ faults \in FaultSets

\* Only the row changes.
RowStep(newRow) ==
  /\ row' = newRow
  /\ UNCHANGED <<helperVars, faults, state, lockHeld, releaseAfterStop, helperUp,
                 fatalReason, pc, after>>

\* Another instance's supervisor takes the lock, refreshes it, or gives it up.
RivalAcquires ==
  \E r \in Rivals : faults # {} /\ row.owner # r /\ CanAcquire(row, r) /\ RowStep(Acquired(r))

RivalReleases ==
  \E r \in Rivals : row.owner = r /\ RowStep(Released(row, r))

\* Five minutes without a refresh.  An owner that still holds the lock refreshes
\* it every few seconds, so its lease ages only while its writes fail.
LeaseGoesStale ==
  /\ row.owner # NoOwner /\ ~row.stale
  /\ row.owner = Me /\ lockHeld => "leaseFailure" \in faults
  /\ RowStep([row EXCEPT !.stale = TRUE])

\* The lambda's conditional update.
CleanupRemoves == CanClean(row) /\ RowStep(Cleaned(row))

\* From here on the environment behaves: the sender sends, the network and
\* DynamoDB answer, no rival competes, nothing crashes.
CalmDown ==
  /\ faults # {}
  /\ faults' = {}
  /\ UNCHANGED <<helperVars, supVars>>

Environment ==
  RivalAcquires \/ RivalReleases \/ LeaseGoesStale \/ CleanupRemoves

\* A step of the helper process changes nothing of the supervisor's.
Helper(A) == A /\ UNCHANGED supVars

\* The port was shut down; this is where the supervisor's life ends.
Finished == state = "terminated" /\ UNCHANGED vars

HelperNext ==
  \/ Helper(HelperReady) \/ Helper(HelperFatal)
  \/ Helper(PacketAuthenticated) \/ Helper(TrafficSilent)
  \/ Helper(TickAuthLoss) \/ Helper(TickConfirm) \/ Helper(EmitStats)
  \/ Helper(CmdStart) \/ Helper(CmdStop) \/ Helper(StopTimer) \/ Helper(BusEos)
  \/ Helper(PipelineError) \/ Helper(OnSignal) \/ Helper(SignalTimer)
  \/ Helper(Crash) \/ Helper(Wedge) \/ Helper(KilledBooting)

Next == HelperNext \/ SupervisorNext \/ Environment \/ Finished

Spec == Init /\ [][Next]_vars

\* The same behaviours, with faults that stop some day.
CalmSpec == Init /\ [][Next \/ CalmDown]_vars

\* Fairness: the helper's GLib loop and Node's queue keep running, timers fire,
\* signals are delivered, the sender keeps sending, a rival without traffic gives
\* the lock up, and faults do not go on for ever.
Fairness ==
  /\ WF_vars(CalmDown)
  /\ WF_vars(Helper(HelperReady)) /\ WF_vars(Helper(PacketAuthenticated))
  /\ WF_vars(Helper(TickAuthLoss)) /\ WF_vars(Helper(TickConfirm)) /\ WF_vars(Helper(EmitStats))
  /\ WF_vars(Helper(CmdStart)) /\ WF_vars(Helper(CmdStop)) /\ WF_vars(Helper(StopTimer))
  /\ WF_vars(Helper(SignalTimer)) /\ WF_vars(Kill) /\ WF_vars(Ended)
  /\ WF_vars(Start) /\ WF_vars(CooldownOver) /\ WF_vars(Respawn)
  /\ WF_vars(HandleFrame) /\ WF_vars(HandleExit)
  /\ WF_vars(ReadyTimeout \/ StopTimeout \/ StallTimeout)
  /\ SF_vars(FrameStatsRetry) /\ SF_vars(FrameStatsRefresh) /\ WF_vars(AckOrTimeout)
  /\ WF_vars(RivalReleases)

FairSpec == CalmSpec /\ Fairness

-----------------------------------------------------------------------------
\* Type correctness of the helper, the supervisor and the row.
TypeOK == HelperTypeOK /\ SupervisorTypeOK

\* The lock is held exactly in the states producing and stopping - through every
\* wait of a step in flight, and whichever frame, exit, timeout, reset or shutdown
\* ends production (the states of SrtpPortSupervisor.ts).
LockMatchesState == lockHeld <=> state \in {"producing", "stopping"}

\* One helper at a time: no session is spawned while the process of an earlier
\* one may still be alive, holding the socket and perhaps writing.
OneHelperAtATime == [][Start \/ CooldownOver \/ Respawn => proc = "none"]_vars

\* Nothing of ours writes to the stream without the lock: kvssink is attached
\* only while the supervisor holds the lock (SrtpPortSupervisor.ts:29-32).
WriterHoldsLock == Writing => lockHeld

\* Leases last as long as they are held, and a helper stops when it is told to or
\* breaks down, never because its sender paused.
LeasesKept == faults \cap {"silence", "leaseFailure"} = {}

\* DynamoDB may fail, but nothing makes a helper stop of its own accord.
StopsOnlyWhenTold == faults \cap {"silence", "slowFlush", "pipelineError"} = {}

\* Under either of the two: nothing of ours writes without the lock, through
\* crashes, floor resets, lost leases and whatever is still in the pipes.
OrderlyWriterHoldsLock == LeasesKept \/ StopsOnlyWhenTold => WriterHoldsLock

\* The promise to the other instances.
Promise == INSTANCE ExclusiveWriter WITH
  owner <- row.owner, stale <- row.stale, writing <- Writing, kept <- LeasesKept

\* The port, with its helper, pipes and timers, implements that promise: a live
\* lease is never taken over, and where leases are kept, writing begins only on
\* a row that is ours and the row does not change under it.
ImplementsPromise == Promise!Spec

\* No step of this instance takes the row from an owner with a live lease.
LiveLeaseIsSafe ==
  [][SupervisorNext /\ row.owner \in Rivals /\ ~row.stale => row' = row]_vars

\* A terminated port holds nothing: no helper process and no lock.
TerminatedHoldsNothing ==
  state = "terminated" => ~lockHeld /\ proc \in {"none", "exited"}

\* Once faults stop, the port ends up producing for good, unless it was shut
\* down or its helper cannot run here.
EventuallyServes ==
  <>[]( \/ Writing /\ lockHeld /\ row.owner = Me
        \/ state \in {"terminated", "disabled"} )

\* A port whose row was lost while it wrote - its lease ran out in an outage and
\* was cleaned or taken - stops writing or owns the row again (refreshLease).
LostWriterStops == (Writing /\ row.owner # Me) ~> (~Writing \/ row.owner = Me)

\* A shutdown in progress finishes.
ShutdownFinishes == (pc = "awaitAck") ~> (state = "terminated")

=============================================================================
