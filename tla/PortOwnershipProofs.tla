------------------------- MODULE PortOwnershipProofs -------------------------
(***************************************************************************)
(* What the supervisor guarantees for any set of instances, under every    *)
(* fault and with pipes of any capacity.                                   *)
(***************************************************************************)
EXTENDS PortOwnership, TLAPS

\* States in which a helper may be attached.
LiveStates == {"starting", "searching", "acquiring", "producing", "stopping"}

\* The supervisor's control state: where a step in flight may wait, and what is
\* known of the helper there.
ControlInv ==
  /\ pc \in {"idle", "awaitAck", "ending", "respawn"}
  /\ helperUp => state \in LiveStates \cup {"terminated"}
  /\ pc \in {"idle", "respawn"} /\ ~helperUp => proc = "none"
  /\ pc = "respawn" => state = "cooldown" /\ ~helperUp
  /\ pc = "awaitAck" => state \in {"producing", "stopping"} /\ helperUp
  /\ pc = "ending" /\ after \in {"cooldown", "respawn"} => ~helperUp
  /\ state = "terminated" => pc = "idle" /\ proc \in {"none", "exited"}

SupervisorInv == ControlInv /\ LockMatchesState

-----------------------------------------------------------------------------
\* Type correctness, in the parts the provers handle apart: names of modes and
\* states, flags, the pipes and the row.
NamesOK ==
  /\ proc \in {"none", "booting", "running", "exited"}
  /\ mode \in {"searching", "producing"}
  /\ lastAuth \in {"never", "recent", "old"}
  /\ state \in States
  /\ fatalReason \in {"none", "retryable", "permanent"}
  /\ pc \in {"idle", "awaitAck", "ending", "respawn"}
  /\ after \in {"cooldown", "respawn", "exit", "terminate"}
  /\ faults \subseteq FaultKinds

HelperFlagsOK ==
  /\ stopping \in BOOLEAN /\ shuttingDown \in BOOLEAN /\ eos \in BOOLEAN
  /\ keyAuth \in BOOLEAN /\ confirmed \in BOOLEAN
  /\ wedged \in BOOLEAN /\ sigterm \in BOOLEAN

SupervisorFlagsOK ==
  lockHeld \in BOOLEAN /\ releaseAfterStop \in BOOLEAN /\ helperUp \in BOOLEAN

FlagsOK == HelperFlagsOK /\ SupervisorFlagsOK

PipesOK == timers \in Nat /\ stdin \in Seq(Commands) /\ stdout \in Seq(Frames)

\* Sequences of one or two elements, and what is left of a sequence.
LEMMA SequenceTypes ==
  ASSUME NEW S
  PROVE  /\ <<>> \in Seq(S)
         /\ \A a, b \in S : <<a>> \in Seq(S) /\ <<a, b>> \in Seq(S)
         /\ \A s \in Seq(S) : s # <<>> => Tail(s) \in Seq(S)
         /\ \A s \in Seq(S) : \A a \in S : Append(s, a) \in Seq(S)
OBVIOUS

\* Whatever a step does to the pipes keeps them sequences of frames and commands.
LEMMA StdoutType ==
  ASSUME stdout \in Seq(Frames),
         \/ stdout' = stdout \/ stdout' = <<>>
         \/ stdout # <<>> /\ stdout' = Tail(stdout)
         \/ Emit(<<"stopped", "lost">>) \/ \E f \in Frames : Emit(<<f>>)
  PROVE  stdout' \in Seq(Frames)
<1>1. ASSUME NEW frames \in Seq(Frames), Emit(frames) PROVE stdout' \in Seq(Frames)
  BY <1>1 DEF Emit
<1>2. "stopped" \in Frames /\ "lost" \in Frames
  BY DEF Frames
<1>3. <<"stopped", "lost">> \in Seq(Frames) /\ \A f \in Frames : <<f>> \in Seq(Frames)
  BY <1>2, SequenceTypes
<1> QED
  BY <1>1, <1>3, SequenceTypes

\* The same of the commands.
LEMMA StdinType ==
  ASSUME stdin \in Seq(Commands),
         \/ stdin' = stdin \/ stdin' = <<>> \/ (stdin # <<>> /\ stdin' = Tail(stdin))
         \/ Write("start") \/ Write("stop")
  PROVE  stdin' \in Seq(Commands)
<1>1. "start" \in Commands /\ "stop" \in Commands
  BY DEF Commands
<1>2. \A c \in {"start", "stop"} : Append(stdin, c) \in Seq(Commands)
  BY <1>1, SequenceTypes
<1> QED
  BY <1>2, SequenceTypes DEF Write

\* Every write to the row leaves it a row.
LEMMA RowType ==
  ASSUME row \in LockRow, NEW i \in Instances
  PROVE  /\ Acquired(i) \in LockRow /\ Released(row, i) \in LockRow
         /\ Refreshed(row) \in LockRow /\ Cleaned(row) \in LockRow
         /\ [row EXCEPT !.stale = TRUE] \in LockRow
BY DEF LockRow, Acquired, Released, Refreshed, Cleaned

\* Every step of the helper process keeps the types.
LEMMA HelperTypeStep ==
  ASSUME NamesOK, FlagsOK, PipesOK, row \in LockRow, HelperNext
  PROVE  NamesOK' /\ FlagsOK' /\ PipesOK' /\ row' \in LockRow
<1> USE DEF HelperNext, Helper, HelperReady, HelperFatal, PacketAuthenticated,
            TrafficSilent, TickAuthLoss, TickConfirm, EmitStats, CmdStart, CmdStop,
            StopTimer, BusEos, PipelineError, OnSignal, SignalTimer, Crash, Wedge,
            KilledBooting, FinishStop
<1>1. NamesOK'
  BY DEF NamesOK, Exit, RebuildSearching, ResetSession, supVars, stopVars, authVars
<1>2. FlagsOK'
  <2>1. HelperFlagsOK'
    BY DEF FlagsOK, HelperFlagsOK, Exit, RebuildSearching, ResetSession, stopVars,
           authVars
  <2>2. SupervisorFlagsOK'
    BY DEF FlagsOK, SupervisorFlagsOK, supVars
  <2> QED
    BY <2>1, <2>2 DEF FlagsOK
<1>3. timers' \in Nat
  BY DEF PipesOK, Exit, stopVars
<1>4. stdin' = stdin \/ stdin' = <<>> \/ (stdin # <<>> /\ stdin' = Tail(stdin))
  BY DEF Exit, pipeVars
<1>5. stdout' = stdout \/ Emit(<<"stopped", "lost">>) \/ \E f \in Frames : Emit(<<f>>)
  BY DEF pipeVars, Frames
<1>6. row' = row
  BY DEF supVars
<1> QED
  BY <1>1, <1>2, <1>3, <1>4, <1>5, <1>6, StdinType, StdoutType DEF PipesOK

\* What the supervisor's queue does to the flags of the helper process.
LEMMA HelperFlagsStep ==
  ASSUME FlagsOK, SupervisorNext
  PROVE  HelperFlagsOK'
<1> USE DEF FlagsOK, HelperFlagsOK
<1>1. CASE Start \/ CooldownOver \/ Respawn
  BY <1>1 DEF Start, CooldownOver, Respawn, SpawnSession, FreshHelper, helperVars,
              stopVars, authVars
<1>2. CASE HandleFrame
  BY <1>2 DEF HandleFrame, FrameReady, FrameAuthOk, FrameAuthLost, FrameStopped,
              FrameStatsRefresh, FrameStatsRetry, FrameStatsIgnored, FrameFatal,
              TakeFrame, stopVars, authVars
<1>3. CASE HandleExit \/ Ended
  BY <1>3 DEF HandleExit, Ended, AfterExit, Reaped, FreshHelper
<1>4. CASE ChildError \/ AckOrTimeout \/ Kill
  BY <1>4 DEF ChildError, AckOrTimeout, Kill, Exit, EndChild, stopVars, authVars
<1>5. CASE ReadyTimeout \/ StopTimeout \/ StallTimeout \/ FloorResetSeen
  BY <1>5 DEF ReadyTimeout, StopTimeout, StallTimeout, FloorResetSeen, EndSession,
              EndChild, stopVars, authVars
<1>6. CASE Shutdown
  BY <1>6 DEF Shutdown, EndChild, stopVars, authVars
<1> QED
  BY <1>1, <1>2, <1>3, <1>4, <1>5, <1>6 DEF SupervisorNext

\* Every step of the supervisor's queue keeps the types.
LEMMA SupervisorTypeStep ==
  ASSUME NamesOK, FlagsOK, PipesOK, row \in LockRow, SupervisorNext
  PROVE  NamesOK' /\ FlagsOK' /\ PipesOK' /\ row' \in LockRow
<1> USE DEF SupervisorNext, Start, CooldownOver, Respawn, SpawnSession, HandleFrame,
            FrameReady, FrameAuthOk, FrameAuthLost, NotProducing, FrameStopped, FrameStatsRefresh,
            FrameStatsRetry, FrameStatsIgnored, FrameFatal, TakeFrame, HandleExit,
            AfterExit, ChildError, Kill, Ended, ReadyTimeout, StopTimeout, StallTimeout,
            FloorResetSeen, EndSession, EndChild, Shutdown, AckOrTimeout
<1>1. NamesOK'
  BY DEF NamesOK, States, AttemptAcquire, RefreshLease, Reaped, FreshHelper, Exit,
         supVars, helperVars, stopVars, authVars, pipeVars
<1>2. FlagsOK'
  <2>1. HelperFlagsOK'
    BY HelperFlagsStep
  <2>2. SupervisorFlagsOK'
    BY DEF FlagsOK, SupervisorFlagsOK, AttemptAcquire, RefreshLease, ReleaseLock,
           Reaped, FreshHelper, supVars, helperVars
  <2> QED
    BY <2>1, <2>2 DEF FlagsOK
<1>3. timers' \in Nat
  BY DEF PipesOK, Reaped, FreshHelper, Exit, helperVars, stopVars
<1>4. stdin' = stdin \/ stdin' = <<>> \/ Write("start") \/ Write("stop")
  BY DEF AttemptAcquire, RefreshLease, Reaped, FreshHelper, Exit, helperVars, pipeVars
<1>5. stdout' = stdout \/ stdout' = <<>> \/ (stdout # <<>> /\ stdout' = Tail(stdout))
  BY DEF Reaped, FreshHelper, helperVars, pipeVars
<1>6. row' \in {row, Acquired(Me), Released(row, Me), Refreshed(row)}
  BY DEF AttemptAcquire, RefreshLease, ReleaseLock, supVars
<1> QED
  BY <1>1, <1>2, <1>3, <1>4, <1>5, <1>6, StdinType, StdoutType, RowType, MeAssumption
  DEF PipesOK

\* Type correctness of the helper, the supervisor and the row they share.
THEOREM SpecTypeOK == Spec => []TypeOK
<1> DEFINE Typed == NamesOK /\ FlagsOK /\ PipesOK /\ row \in LockRow
<1>1. Init => Typed
  <2> SUFFICES ASSUME Init PROVE Typed
    OBVIOUS
  <2>1. NamesOK /\ row \in LockRow
    BY FaultsAssumption DEF Init, SupervisorInit, NamesOK, States, FreeRow, LockRow
  <2>2. FlagsOK
    BY DEF Init, SupervisorInit, FlagsOK, HelperFlagsOK, SupervisorFlagsOK
  <2>3. PipesOK
    BY SequenceTypes DEF Init, PipesOK
  <2> QED
    BY <2>1, <2>2, <2>3
<1>2. Typed /\ [Next]_vars => Typed'
  <2> SUFFICES ASSUME Typed, [Next]_vars PROVE Typed'
    OBVIOUS
  <2>1. CASE HelperNext
    BY <2>1, HelperTypeStep
  <2>2. CASE SupervisorNext
    BY <2>2, SupervisorTypeStep
  <2>3. CASE Environment
    <3>1. row' \in LockRow
      <4>1. CASE RivalAcquires \/ RivalReleases
        BY <4>1, RowType DEF RivalAcquires, RivalReleases, RowStep, Rivals
      <4>2. CASE LeaseGoesStale \/ CleanupRemoves
        BY <4>2, RowType, MeAssumption DEF LeaseGoesStale, CleanupRemoves, RowStep
      <4> QED
        BY <2>3, <4>1, <4>2 DEF Environment
    <3>2. UNCHANGED <<helperVars, faults, state, lockHeld, releaseAfterStop, helperUp,
                      fatalReason, pc, after>>
      BY <2>3
      DEF Environment, RivalAcquires, RivalReleases, LeaseGoesStale, CleanupRemoves, RowStep
    <3> QED
      BY <3>1, <3>2 DEF helperVars, pipeVars, stopVars, authVars, NamesOK, FlagsOK, PipesOK,
                        HelperFlagsOK, SupervisorFlagsOK
  <2>4. CASE Finished \/ UNCHANGED vars
    BY <2>4 DEF Finished, vars, helperVars, supVars, pipeVars, stopVars, authVars, NamesOK,
                FlagsOK, HelperFlagsOK, SupervisorFlagsOK, PipesOK
  <2> QED
    BY <2>1, <2>2, <2>3, <2>4 DEF Next
<1>3. Typed => TypeOK
  BY DEF NamesOK, FlagsOK, HelperFlagsOK, SupervisorFlagsOK, PipesOK, TypeOK,
         HelperTypeOK, SupervisorTypeOK
<1> QED
  BY <1>1, <1>2, <1>3, PTL DEF Spec

-----------------------------------------------------------------------------
\* The helper's own steps leave the supervisor alone, and never bring a process
\* back: at most it exits.
LEMMA HelperStep ==
  ASSUME SupervisorInv, HelperNext
  PROVE  SupervisorInv'
<1> USE DEF SupervisorInv, ControlInv, LockMatchesState, LiveStates
<1>1. UNCHANGED <<state, lockHeld, releaseAfterStop, helperUp, fatalReason, pc, after,
                  row>>
  BY DEF HelperNext, Helper, supVars
<1>2. proc' = proc \/ (proc \in {"booting", "running"} /\ proc' \in {"running", "exited"})
  BY DEF HelperNext, Helper, HelperReady, HelperFatal, PacketAuthenticated, TrafficSilent,
         TickAuthLoss, TickConfirm, EmitStats, CmdStart, CmdStop, StopTimer, BusEos,
         PipelineError, OnSignal, SignalTimer, Crash, Wedge, KilledBooting, Exit,
         MainLoop
<1> QED
  BY <1>1, <1>2

\* spawnSession happens where no process is left and no lock is held.
LEMMA SpawnStep ==
  ASSUME SupervisorInv, Start \/ CooldownOver \/ Respawn
  PROVE  SupervisorInv' /\ proc = "none"
<1> USE DEF SupervisorInv, ControlInv, LockMatchesState, LiveStates
<1>1. proc = "none" /\ state \in {"idle", "cooldown"} /\ ~helperUp /\ SpawnSession
  BY DEF Start, CooldownOver, Respawn
<1>2. /\ pc' = "idle" /\ lockHeld' = lockHeld
      /\ \/ state' = "starting" /\ helperUp' = TRUE
         \/ state' = "cooldown" /\ helperUp' = helperUp /\ proc' = proc
  BY <1>1 DEF SpawnSession, helperVars
<1> QED
  BY <1>1, <1>2

\* A frame moves the supervisor between the states of a live session, and the
\* lock with them.
LEMMA FrameStep ==
  ASSUME SupervisorInv, HandleFrame
  PROVE  SupervisorInv'
<1> USE DEF SupervisorInv, ControlInv, LockMatchesState, LiveStates
<1>1. /\ pc = "idle" /\ helperUp /\ state \in LiveStates
      /\ UNCHANGED <<proc, pc, after, helperUp>>
  BY DEF HandleFrame, FrameReady, FrameAuthOk, FrameAuthLost, FrameStopped,
         FrameStatsRefresh, FrameStatsRetry, FrameStatsIgnored, FrameFatal, TakeFrame
<1>2. state' \in LiveStates /\ LockMatchesState'
  <2>1. CASE FrameReady
    BY <1>1, <2>1 DEF FrameReady
  <2>2. CASE FrameAuthOk
    BY <1>1, <2>2 DEF FrameAuthOk, AttemptAcquire
  <2>3. CASE FrameAuthLost
    BY <1>1, <2>3 DEF FrameAuthLost, NotProducing, ReleaseLock
  <2>4. CASE FrameStopped
    BY <1>1, <2>4 DEF FrameStopped, ReleaseLock
  <2>5. CASE FrameStatsRefresh
    BY <1>1, <2>5 DEF FrameStatsRefresh, RefreshLease
  <2>6. CASE FrameStatsRetry
    BY <1>1, <2>6 DEF FrameStatsRetry, AttemptAcquire
  <2>7. CASE FrameStatsIgnored \/ FrameFatal
    BY <1>1, <2>7 DEF FrameStatsIgnored, FrameFatal
  <2> QED
    BY <2>1, <2>2, <2>3, <2>4, <2>5, <2>6, <2>7 DEF HandleFrame
<1> QED
  BY <1>1, <1>2

\* Everything that ends a session: exits, errors, timeouts, resets.
LEMMA EndStep ==
  ASSUME SupervisorInv,
         \/ HandleExit \/ ChildError \/ Kill \/ Ended
         \/ ReadyTimeout \/ StopTimeout \/ StallTimeout \/ FloorResetSeen
  PROVE  SupervisorInv'
<1> USE DEF SupervisorInv, ControlInv, LockMatchesState, LiveStates
<1>1. CASE HandleExit
  BY <1>1 DEF HandleExit, AfterExit, Reaped, ReleaseLock
<1>2. CASE ChildError
  BY <1>2 DEF ChildError, EndChild
<1>3. CASE Kill
  BY <1>3 DEF Kill, Exit, supVars
<1>4. CASE Ended
  BY <1>4 DEF Ended, AfterExit, Reaped, ReleaseLock
<1>5. CASE ReadyTimeout \/ StopTimeout \/ StallTimeout \/ FloorResetSeen
  BY <1>5 DEF ReadyTimeout, StopTimeout, StallTimeout, FloorResetSeen, EndSession, EndChild
<1> QED
  BY <1>1, <1>2, <1>3, <1>4, <1>5

\* shutdown() up to its end, which is Ended's last case.
LEMMA ShutdownStep ==
  ASSUME SupervisorInv, Shutdown \/ AckOrTimeout
  PROVE  SupervisorInv'
<1> USE DEF SupervisorInv, ControlInv, LockMatchesState, LiveStates
<1>1. CASE Shutdown
  BY <1>1 DEF Shutdown, ReleaseLock, EndChild
<1>2. CASE AckOrTimeout
  BY <1>2 DEF AckOrTimeout, EndChild
<1> QED
  BY <1>1, <1>2

\* The invariant behind the three theorems below: lock, state and process together.
LEMMA SpecSupervisorInv == Spec => []SupervisorInv
<1>1. Init => SupervisorInv
  BY DEF Init, SupervisorInit, SupervisorInv, ControlInv, LockMatchesState
<1>2. SupervisorInv /\ [Next]_vars => SupervisorInv'
  <2> SUFFICES ASSUME SupervisorInv, [Next]_vars PROVE SupervisorInv'
    OBVIOUS
  <2>1. CASE HelperNext
    BY <2>1, HelperStep
  <2>2. CASE SupervisorNext
    BY <2>2, SpawnStep, FrameStep, EndStep, ShutdownStep DEF SupervisorNext
  <2>3. CASE Environment
    BY <2>3 DEF Environment, RivalAcquires, RivalReleases, LeaseGoesStale, CleanupRemoves,
                RowStep, helperVars, SupervisorInv, ControlInv, LockMatchesState
  <2>4. CASE Finished \/ UNCHANGED vars
    BY <2>4 DEF Finished, vars, helperVars, supVars, SupervisorInv, ControlInv,
                LockMatchesState
  <2> QED
    BY <2>1, <2>2, <2>3, <2>4 DEF Next
<1> QED
  BY <1>1, <1>2, PTL DEF Spec

-----------------------------------------------------------------------------
\* The lock is held exactly in the states producing and stopping of
\* SrtpPortSupervisor, under every fault.
THEOREM SpecLockMatchesState == Spec => []LockMatchesState
<1>1. SupervisorInv => LockMatchesState
  BY DEF SupervisorInv
<1> QED
  BY <1>1, SpecSupervisorInv, PTL

\* A port that was shut down holds neither a helper process nor the lock.
THEOREM SpecTerminatedHoldsNothing == Spec => []TerminatedHoldsNothing
<1>1. SupervisorInv => TerminatedHoldsNothing
  BY DEF SupervisorInv, ControlInv, LockMatchesState, TerminatedHoldsNothing
<1> QED
  BY <1>1, SpecSupervisorInv, PTL

\* spawnSession never runs while the process of an earlier session may be alive.
THEOREM SpecOneHelperAtATime == Spec => OneHelperAtATime
<1>1. SupervisorInv /\ [Next]_vars => [Start \/ CooldownOver \/ Respawn => proc = "none"]_vars
  BY SpawnStep
<1> QED
  BY <1>1, SpecSupervisorInv, PTL DEF Spec, OneHelperAtATime

=============================================================================
