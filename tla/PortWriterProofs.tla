-------------------------- MODULE PortWriterProofs --------------------------
(***************************************************************************)
(* Who writes to the stream, for any set of instances, any mix of faults   *)
(* and pipes of any capacity: the argument over what is in the two pipes,  *)
(* and the refinement of ExclusiveWriter that rests on it.                 *)
(***************************************************************************)
EXTENDS PortOwnershipProofs, SequenceTheorems

NoFrame(f) == \A n \in 1..Len(stdout) : stdout[n] # f

OneStopped ==
  \A m, n \in 1..Len(stdout) : stdout[m] = "stopped" /\ stdout[n] = "stopped" => m = n

\* The stages of one production, from the lock's being free to the acknowledgement
\* of its end.  Exactly one of command, kvssink and acknowledgement exists at a time.
Unasked == mode = "searching" /\ ~stopping /\ stdin = <<>> /\ NoFrame("stopped")

Asked == mode = "searching" /\ ~stopping /\ stdin = <<"start">> /\ NoFrame("stopped")

Producing == mode = "producing" /\ ~stopping /\ stdin = <<>> /\ NoFrame("stopped")

Told ==
  /\ \/ mode = "searching" /\ stdin = <<"start", "stop">>
     \/ mode = "producing" /\ stdin = <<"stop">>
  /\ ~stopping /\ NoFrame("stopped")

Flushing == mode = "producing" /\ stopping /\ stdin = <<>> /\ NoFrame("stopped")

Acknowledged == mode = "searching" /\ ~stopping /\ stdin = <<>> /\ OneStopped

\* Where the supervisor believes the production to be, it is.  With leases kept a
\* helper is never told to stop but at shutdown; without, it never stops untold.
Phase ==
  \/ state \notin {"producing", "stopping"} /\ Unasked
  \/ state = "producing" /\ (Asked \/ Producing \/ (LeasesKept /\ Acknowledged))
  \/ state = "stopping" /\ ~LeasesKept /\ (Told \/ Flushing \/ Acknowledged)

Live == proc \in {"booting", "running"}

\* The watchdog has nothing to report.
Steady == lastAuth # "old" /\ NoFrame("lost") /\ (LeasesKept => ~eos)

Orderly == LeasesKept \/ StopsOnlyWhenTold

\* A signal is sent only by the step that then waits for the exit.
SignalInv == (sigterm => pc = "ending") /\ (shuttingDown => sigterm)

BootInv == proc = "booting" => mode = "searching"

WriterInv ==
  /\ Live /\ pc = "idle" => Steady /\ Phase
  /\ Live /\ ~lockHeld => mode = "searching" /\ stdin = <<>>

\* A lease that is kept is ours and fresh as long as we hold the lock.
LeaseInv == LeasesKept /\ lockHeld => row.owner = Me /\ ~row.stale

-----------------------------------------------------------------------------
\* A frame written behind the others.
LEMMA Emitted ==
  ASSUME stdout \in Seq(Frames), NEW g \in Frames, Emit(<<g>>)
  PROVE  /\ \A f : NoFrame(f) /\ f # g => NoFrame(f)'
         /\ OneStopped /\ g # "stopped" => OneStopped'
         /\ NoFrame("stopped") => OneStopped'
<1>1. /\ Len(stdout') = Len(stdout) + 1
      /\ \A n \in 1..Len(stdout) : stdout'[n] = stdout[n]
      /\ stdout'[Len(stdout) + 1] = g
  BY DEF Emit
<1>2. Len(stdout) \in Nat
  OBVIOUS
<1> QED
  BY <1>1, <1>2 DEF NoFrame, OneStopped

\* A frame taken from the front.
LEMMA Taken ==
  ASSUME stdout \in Seq(Frames), stdout # <<>>, stdout' = Tail(stdout)
  PROVE  /\ \A f : NoFrame(f) => NoFrame(f)'
         /\ OneStopped => OneStopped'
         /\ OneStopped /\ Head(stdout) = "stopped" => NoFrame("stopped")'
         /\ \A f : NoFrame(f) => Head(stdout) # f
<1>1. /\ Len(stdout) \in Nat \ {0} /\ Len(stdout') = Len(stdout) - 1
      /\ \A n \in 1..Len(stdout') : stdout'[n] = stdout[n + 1]
      /\ Head(stdout) = stdout[1]
  OBVIOUS
<1> QED
  BY <1>1 DEF NoFrame, OneStopped

\* The supervisor writes a stop behind a start that is still unread.
LEMMA StopBehindStart == Append(<<"start">>, "stop") = <<"start", "stop">>
<1> DEFINE s == Append(<<"start">>, "stop")
           t == <<"start", "stop">>
<1>1. s \in Seq(Commands) /\ Len(s) = 2 /\ s[1] = "start" /\ s[2] = "stop"
  BY DEF Commands
<1>2. t \in Seq(Commands) /\ Len(t) = 2 /\ t[1] = "start" /\ t[2] = "stop"
  BY DEF Commands
<1>3. \A i \in 1..2 : s[i] = t[i]
  BY <1>1, <1>2
<1>4. /\ s \in Seq(Commands) /\ t \in Seq(Commands)
      /\ Len(s) = Len(t) /\ \A i \in 1..Len(s) : s[i] = t[i]
  BY <1>1, <1>2, <1>3
<1> HIDE DEF s, t
<1>5. s = t
  BY <1>4, SeqEqual, Zenon
<1> QED
  BY <1>5 DEF s, t

\* The few contents stdin has, read and written.
LEMMA Commanded ==
  /\ Tail(<<"start">>) = <<>> /\ Tail(<<"stop">>) = <<>>
  /\ Tail(<<"start", "stop">>) = <<"stop">>
  /\ Append(<<>>, "start") = <<"start">> /\ Append(<<>>, "stop") = <<"stop">>
  /\ Append(<<"start">>, "stop") = <<"start", "stop">>
  /\ Head(<<"start">>) = "start" /\ Head(<<"stop">>) = "stop"
  /\ Head(<<"start", "stop">>) = "start"
  /\ <<"start">> # <<>> /\ <<"stop">> # <<>> /\ <<"start", "stop">> # <<>>
<1>1. /\ Append(<<>>, "start") = <<"start">> /\ Append(<<>>, "stop") = <<"stop">>
      /\ Tail(<<"start">>) = <<>> /\ Tail(<<"stop">>) = <<>>
      /\ Tail(<<"start", "stop">>) = <<"stop">>
  OBVIOUS
<1>2. /\ Head(<<"start">>) = "start" /\ Head(<<"stop">>) = "stop"
      /\ Head(<<"start", "stop">>) = "start"
      /\ <<"start">> # <<>> /\ <<"stop">> # <<>> /\ <<"start", "stop">> # <<>>
  OBVIOUS
<1> QED
  BY <1>1, <1>2, StopBehindStart

-----------------------------------------------------------------------------
\* Signals and booting helpers, which no fault disturbs.
LEMMA SignalStep ==
  ASSUME TypeOK, SupervisorInv, SignalInv, BootInv, [Next]_vars
  PROVE  SignalInv' /\ BootInv'
<1> USE DEF SignalInv, BootInv
<1>1. CASE HelperNext
  BY <1>1 DEF HelperNext, Helper, HelperReady, HelperFatal, PacketAuthenticated,
         TrafficSilent, TickAuthLoss, TickConfirm, EmitStats, CmdStart, CmdStop, StopTimer,
         BusEos, PipelineError, OnSignal, SignalTimer, Crash, Wedge, KilledBooting, Exit,
         MainLoop, FinishStop, RebuildSearching, ResetSession, stopVars, authVars, supVars
<1>2. CASE Start \/ CooldownOver \/ Respawn
  BY <1>2 DEF Start, CooldownOver, Respawn, SpawnSession, FreshHelper, helperVars,
              stopVars, authVars
<1>3. CASE HandleFrame
  BY <1>3 DEF HandleFrame, FrameReady, FrameAuthOk, FrameAuthLost, FrameStopped,
              FrameStatsRefresh, FrameStatsRetry, FrameStatsIgnored, FrameFatal,
              TakeFrame, stopVars, authVars
<1>4. CASE HandleExit \/ Ended
  BY <1>4 DEF HandleExit, Ended, AfterExit, Reaped, FreshHelper
<1>5. CASE Kill
  BY <1>5 DEF Kill, Exit, supVars
<1>6. CASE ChildError \/ AckOrTimeout
  BY <1>6 DEF ChildError, AckOrTimeout, EndChild, stopVars, authVars
<1>7. CASE ReadyTimeout \/ StopTimeout \/ StallTimeout \/ FloorResetSeen
  BY <1>7 DEF ReadyTimeout, StopTimeout, StallTimeout, FloorResetSeen, EndSession,
              EndChild, stopVars, authVars
<1>8. CASE Shutdown
  BY <1>8 DEF Shutdown, EndChild, stopVars, authVars
<1>9. CASE Environment \/ Finished \/ UNCHANGED vars
  BY <1>9 DEF Environment, RivalAcquires, RivalReleases, LeaseGoesStale, CleanupRemoves,
              RowStep, Finished, vars, helperVars, supVars
<1> QED
  BY <1>1, <1>2, <1>3, <1>4, <1>5, <1>6, <1>7, <1>8, <1>9 DEF Next, SupervisorNext

\* What the writes to the row do to its owner and to its lease.
LEMMA RowFields ==
  ASSUME row \in LockRow, NEW i \in Instances
  PROVE  /\ Acquired(i).owner = i /\ Acquired(i).stale = FALSE
         /\ Refreshed(row).owner = row.owner /\ Refreshed(row).stale = FALSE
         /\ row.owner = i => Released(row, i).owner = NoOwner
         /\ Released(row, i).stale = row.stale
         /\ row.owner # i => Released(row, i) = row
         /\ Cleaned(row).owner = NoOwner /\ Cleaned(row).stale = row.stale
         /\ [row EXCEPT !.stale = TRUE].owner = row.owner
         /\ [row EXCEPT !.stale = TRUE].stale = TRUE
         /\ row.owner \in Instances \cup {NoOwner} /\ row.stale \in BOOLEAN
<1>1. \A a, b : LET r == [[row EXCEPT !.active = a] EXCEPT !.stale = b]
                IN  r.owner = row.owner /\ r.stale = b
  BY DEF LockRow
<1>2. \A a : LET r == [[row EXCEPT !.owner = NoOwner] EXCEPT !.active = a]
             IN  r.owner = NoOwner /\ r.stale = row.stale
  BY DEF LockRow
<1>3. [row EXCEPT !.stale = TRUE].owner = row.owner /\ [row EXCEPT !.stale = TRUE].stale = TRUE
  BY DEF LockRow
<1>4. Refreshed(row).owner = row.owner /\ Refreshed(row).stale = FALSE
  BY <1>1 DEF Refreshed
<1>5. Cleaned(row).owner = NoOwner /\ Cleaned(row).stale = row.stale
  BY <1>2 DEF Cleaned
<1>6. /\ row.owner = i => Released(row, i).owner = NoOwner
      /\ row.owner # i => Released(row, i) = row
      /\ Released(row, i).stale = row.stale
  BY <1>2 DEF Released
<1>7. Acquired(i).owner = i /\ Acquired(i).stale = FALSE
  BY DEF Acquired
<1>8. row.owner \in Instances \cup {NoOwner} /\ row.stale \in BOOLEAN
  BY DEF LockRow
<1> QED
  BY <1>3, <1>4, <1>5, <1>6, <1>7, <1>8

\* While leases are kept nobody but us takes the row from us.
LEMMA LeaseStep ==
  ASSUME TypeOK, SupervisorInv, LeaseInv, [Next]_vars
  PROVE  LeaseInv'
<1> USE DEF LeaseInv, LeasesKept
<1>1. CASE HelperNext
  BY <1>1 DEF HelperNext, Helper, supVars, HelperReady, HelperFatal, PacketAuthenticated,
         TrafficSilent, TickAuthLoss, TickConfirm, EmitStats, CmdStart, CmdStop, StopTimer,
         BusEos, PipelineError, OnSignal, SignalTimer, Crash, Wedge, KilledBooting
<1>2. CASE Start \/ CooldownOver \/ Respawn
  BY <1>2 DEF Start, CooldownOver, Respawn, SpawnSession
<1>3. CASE HandleFrame
  <2>1. CASE FrameAuthOk \/ FrameStatsRetry
    <3>1. \/ row' = Acquired(Me) \/ "leaseFailure" \in faults \/ UNCHANGED <<row, lockHeld>>
      BY <2>1 DEF FrameAuthOk, FrameStatsRetry, AttemptAcquire
    <3>2. faults' = faults /\ ("leaseFailure" \in faults => ~LeasesKept)
      BY <2>1 DEF FrameAuthOk, FrameStatsRetry, TakeFrame
    <3> QED
      BY <3>1, <3>2, RowFields, MeAssumption DEF TypeOK, SupervisorTypeOK
  <2>2. CASE FrameAuthLost \/ FrameStopped
    BY <1>3, <2>2 DEF FrameAuthLost, NotProducing, FrameStopped, ReleaseLock, TakeFrame
  <2>3. CASE FrameStatsRefresh
    <3>1. row' = row \/ row' = Refreshed(row)
      BY <2>3 DEF FrameStatsRefresh, RefreshLease
    <3>2. UNCHANGED <<faults, lockHeld>>
      BY <2>3 DEF FrameStatsRefresh, TakeFrame
    <3>3. row'.owner = row.owner /\ (~row.stale => ~row'.stale)
      BY <3>1, RowFields, MeAssumption DEF TypeOK, SupervisorTypeOK
    <3> QED
      BY <3>2, <3>3
  <2>4. CASE FrameReady \/ FrameStatsIgnored \/ FrameFatal
    BY <1>3, <2>4 DEF FrameReady, FrameStatsIgnored, FrameFatal, TakeFrame
  <2> QED
    BY <1>3, <2>1, <2>2, <2>3, <2>4 DEF HandleFrame
<1>4. CASE HandleExit \/ Ended
  BY <1>4 DEF HandleExit, Ended, AfterExit, ReleaseLock
<1>5. CASE Kill \/ ChildError \/ AckOrTimeout
  BY <1>5 DEF Kill, supVars, ChildError, AckOrTimeout
<1>6. CASE ReadyTimeout \/ StopTimeout \/ StallTimeout \/ FloorResetSeen
  BY <1>6 DEF ReadyTimeout, StopTimeout, StallTimeout, FloorResetSeen, EndSession
<1>7. CASE Shutdown
  BY <1>7 DEF Shutdown, ReleaseLock
<1>8. CASE Environment
  BY <1>8, NoOwnerAssumption, MeAssumption
  DEF Environment, RivalAcquires, RivalReleases, LeaseGoesStale, CleanupRemoves, RowStep,
      CanAcquire, Released, CanClean, Rivals
<1>9. CASE Finished \/ UNCHANGED vars
  BY <1>9 DEF Finished, vars, supVars
<1> QED
  BY <1>1, <1>2, <1>3, <1>4, <1>5, <1>6, <1>7, <1>8, <1>9 DEF Next, SupervisorNext

-----------------------------------------------------------------------------
\* A step that leaves command, mode and stop alone and reports neither a loss nor an
\* end of production.
LEMMA QuietStep ==
  ASSUME stdout \in Seq(Frames), Steady, Phase,
         UNCHANGED <<mode, stopping, stdin, state, faults, eos>>, lastAuth' # "old",
         stdout' = stdout \/ \E g \in Frames \ {"stopped", "lost"} : Emit(<<g>>)
  PROVE  Steady' /\ Phase'
<1>1. /\ NoFrame("lost") => NoFrame("lost")'
      /\ NoFrame("stopped") => NoFrame("stopped")'
      /\ OneStopped => OneStopped'
  <2>1. CASE stdout' = stdout
    BY <2>1 DEF NoFrame, OneStopped
  <2>2. ASSUME NEW g \in Frames \ {"stopped", "lost"}, Emit(<<g>>)
        PROVE  /\ NoFrame("lost") => NoFrame("lost")'
               /\ NoFrame("stopped") => NoFrame("stopped")'
               /\ OneStopped => OneStopped'
    BY <2>2, Emitted
  <2> QED
    BY <2>1, <2>2
<1>2. LeasesKept' = LeasesKept
  BY DEF LeasesKept
<1>3. Steady'
  BY <1>1, <1>2 DEF Steady
<1>4. /\ (Unasked => Unasked') /\ (Asked => Asked')
      /\ (Producing => Producing') /\ (Told => Told')
      /\ (Flushing => Flushing') /\ (Acknowledged => Acknowledged')
  BY <1>1 DEF Unasked, Asked, Producing, Told, Flushing, Acknowledged
<1> QED
  BY <1>2, <1>3, <1>4 DEF Phase

\* An end of production is reported where there was none before.
LEMMA StopReported ==
  ASSUME stdout \in Seq(Frames), NoFrame("stopped"), NoFrame("lost"), Emit(<<"stopped">>)
  PROVE  OneStopped' /\ NoFrame("lost")'
BY Emitted DEF Frames

\* The helper's steps while no step of the supervisor waits: each leads from one
\* stage of production to the next.
LEMMA HelperPhaseStep ==
  ASSUME TypeOK, SignalInv, Orderly, HelperNext, pc = "idle", Live, Live', Steady, Phase
  PROVE  Steady' /\ Phase'
<1>1. /\ ~sigterm /\ ~shuttingDown /\ lastAuth # "old"
      /\ stdout \in Seq(Frames) /\ stdin \in Seq(Commands)
      /\ UNCHANGED <<state, row, lockHeld, pc>>
  BY DEF SignalInv, Steady, TypeOK, HelperTypeOK, HelperNext, Helper, supVars
<1> USE DEF Frames
<1>2. CASE HelperReady \/ PacketAuthenticated \/ TickConfirm \/ EmitStats \/ Wedge
  <2>1. /\ UNCHANGED <<mode, stopping, stdin, state, faults, eos>> /\ lastAuth' # "old"
        /\ stdout' = stdout \/ \E g \in Frames \ {"stopped", "lost"} : Emit(<<g>>)
    BY <1>1, <1>2 DEF HelperReady, PacketAuthenticated, TickConfirm, EmitStats, Wedge, Frames,
                      stopVars, authVars, pipeVars
  <2> QED
    BY <1>1, <2>1, QuietStep
<1>3. ~TrafficSilent /\ ~TickAuthLoss /\ ~OnSignal /\ ~SignalTimer
  BY <1>1 DEF TrafficSilent, TickAuthLoss, AuthLossDue, OnSignal, SignalTimer, Steady, Orderly,
              LeasesKept, StopsOnlyWhenTold
<1>4. ~HelperFatal /\ ~Crash /\ ~KilledBooting
  BY DEF HelperFatal, Crash, KilledBooting, Exit, Live
<1>5. CASE CmdStart
  <2>1. /\ stdin # <<>> /\ Head(stdin) = "start" /\ stdin' = Tail(stdin) /\ stdout' = stdout
        /\ UNCHANGED <<lastAuth, stopping, faults>>
        /\ IF stopping \/ mode = "producing"
             THEN UNCHANGED <<mode, eos>> ELSE mode' = "producing" /\ eos' = FALSE
    BY <1>1, <1>5 DEF CmdStart, ResetSession, authVars, stopVars
  <2>2. Steady'
    BY <2>1 DEF Steady, LeasesKept, NoFrame
  <2>3. /\ (Asked => Producing') /\ (Told => Told')
        /\ ~Unasked /\ ~Producing /\ ~Flushing /\ ~Acknowledged
    BY <2>1, Commanded DEF Unasked, Asked, Producing, Told, Flushing, Acknowledged, NoFrame
  <2> QED
    BY <1>1, <2>1, <2>2, <2>3 DEF Phase, LeasesKept
<1>6. CASE CmdStop
  <2>1. /\ stdin # <<>> /\ Head(stdin) = "stop"
        /\ ~Unasked /\ ~Asked /\ ~Producing /\ ~Flushing /\ ~Acknowledged
    BY <1>6, Commanded DEF CmdStop, Unasked, Asked, Producing, Told, Flushing, Acknowledged
  <2>2. Told /\ mode = "producing" /\ stdin = <<"stop">> /\ state = "stopping" /\ ~LeasesKept
    BY <2>1, Commanded DEF Told, Phase
  <2>3. /\ stdin' = <<>> /\ stopping' = TRUE /\ stdout' = stdout
        /\ UNCHANGED <<mode, lastAuth, faults>>
    BY <1>1, <1>6, <2>2, Commanded DEF CmdStop, authVars, Told
  <2> QED
    BY <1>1, <2>2, <2>3 DEF Steady, Phase, Told, Flushing, LeasesKept, NoFrame
<1>7. CASE StopTimer \/ BusEos
  <2>1. CASE ~stopping
    <3>1. /\ UNCHANGED <<mode, stopping, stdin, state, faults, eos>> /\ lastAuth' # "old"
          /\ stdout' = stdout
      BY <1>1, <1>7, <2>1 DEF StopTimer, BusEos, Exit, Live, authVars
    <3> QED
      BY <1>1, <3>1, QuietStep
  <2>2. CASE stopping
    <3>1. Flushing /\ state = "stopping" /\ ~LeasesKept
      BY <2>2 DEF Phase, Unasked, Asked, Producing, Told, Acknowledged
    <3>2. FinishStop /\ UNCHANGED <<stdin, faults>>
      BY <1>7, <2>2 DEF StopTimer, BusEos
    <3>3. OneStopped' /\ NoFrame("lost")'
      BY <1>1, <3>1, <3>2, StopReported DEF FinishStop, Flushing, Steady
    <3> QED
      BY <1>1, <3>1, <3>2, <3>3
      DEF FinishStop, ResetSession, RebuildSearching, Phase, Acknowledged, Flushing, Steady,
          LeasesKept
  <2> QED
    BY <2>1, <2>2 DEF TypeOK, HelperTypeOK
<1>8. CASE PipelineError
  <2>1. LeasesKept /\ mode = "producing" /\ Producing /\ state = "producing"
    BY <1>8 DEF PipelineError, Orderly, StopsOnlyWhenTold, Exit, Live, Phase, Asked, Unasked,
                Acknowledged
  <2>2. /\ Emit(<<"stopped">>) /\ ResetSession /\ RebuildSearching
        /\ UNCHANGED <<stdin, stopping, faults>>
    BY <1>8, <2>1 DEF PipelineError, stopVars
  <2>3. OneStopped' /\ NoFrame("lost")'
    BY <1>1, <2>1, <2>2, StopReported DEF Producing, Steady
  <2> QED
    BY <1>1, <2>1, <2>2, <2>3
    DEF ResetSession, RebuildSearching, Phase, Acknowledged, Producing, Steady, LeasesKept
<1> QED
  BY <1>2, <1>3, <1>4, <1>5, <1>6, <1>7, <1>8 DEF HelperNext, Helper

\* Without the lock the helper's steps neither start a production nor invent a command.
LEMMA HelperWriterStep ==
  ASSUME TypeOK, SignalInv, Orderly, WriterInv, HelperNext
  PROVE  WriterInv'
<1>1. UNCHANGED <<state, row, lockHeld, pc>>
  BY DEF HelperNext, Helper, supVars
<1>2. Live' => Live
  BY DEF HelperNext, Helper, HelperReady, HelperFatal, PacketAuthenticated,
         TrafficSilent, TickAuthLoss, TickConfirm, EmitStats, CmdStart, CmdStop, StopTimer,
         BusEos, PipelineError, OnSignal, SignalTimer, Crash, Wedge, KilledBooting, Exit,
         MainLoop, Live
<1>3. Live' /\ pc' = "idle" => Steady' /\ Phase'
  BY <1>1, <1>2, HelperPhaseStep DEF WriterInv
<1>4. ASSUME mode = "searching", stdin = <<>> PROVE mode' = "searching" /\ stdin' = <<>>
  BY <1>4 DEF HelperNext, Helper, HelperReady, HelperFatal, PacketAuthenticated,
         TrafficSilent, TickAuthLoss, TickConfirm, EmitStats, CmdStart, CmdStop, StopTimer,
         BusEos, PipelineError, OnSignal, SignalTimer, Crash, Wedge, KilledBooting, Exit,
         FinishStop, RebuildSearching, pipeVars
<1> QED
  BY <1>1, <1>2, <1>3, <1>4 DEF WriterInv

\* A frame the supervisor handles while the helper lives finds the production in the
\* stage the supervisor believes it to be in.
LEMMA FramePhaseStep ==
  ASSUME TypeOK, SupervisorInv, LeaseInv, Orderly, HandleFrame, Live, Steady, Phase
  PROVE  Steady' /\ Phase'
<1>1. /\ stdout \in Seq(Frames) /\ stdout # <<>> /\ stdout' = Tail(stdout)
      /\ UNCHANGED <<proc, mode, stopping, lastAuth, eos, faults>>
  BY DEF TypeOK, HelperTypeOK, HandleFrame, FrameReady, FrameAuthOk, FrameAuthLost,
         FrameStopped, FrameStatsRefresh, FrameStatsRetry, FrameStatsIgnored, FrameFatal,
         TakeFrame, stopVars, authVars
<1>2. /\ NoFrame("lost") => NoFrame("lost")'
      /\ NoFrame("stopped") => NoFrame("stopped")'
      /\ OneStopped => OneStopped'
      /\ NoFrame("lost") => Head(stdout) # "lost"
      /\ NoFrame("stopped") => Head(stdout) # "stopped"
      /\ OneStopped /\ Head(stdout) = "stopped" => NoFrame("stopped")'
  BY <1>1, Taken
<1>3. Steady' /\ LeasesKept' = LeasesKept
  BY <1>1, <1>2 DEF Steady, LeasesKept
<1>4. ASSUME stdin' = stdin
      PROVE  /\ (Unasked => Unasked') /\ (Asked => Asked')
             /\ (Producing => Producing') /\ (Told => Told')
             /\ (Flushing => Flushing') /\ (Acknowledged => Acknowledged')
  BY <1>1, <1>2, <1>4 DEF Unasked, Asked, Producing, Told, Flushing, Acknowledged
<1>5. CASE FrameReady \/ FrameStatsIgnored \/ FrameFatal
  <2>1. stdin' = stdin /\ (state' = state \/ (state = "starting" /\ state' = "searching"))
    BY <1>5 DEF FrameReady, FrameStatsIgnored, FrameFatal
  <2> QED
    BY <1>3, <1>4, <2>1 DEF Phase
<1>6. CASE FrameAuthOk \/ FrameStatsRetry
  <2>1. \/ UNCHANGED <<state, stdin>>
        \/ state \in {"searching", "acquiring"} /\ state' = "acquiring" /\ stdin' = stdin
        \/ state \in {"searching", "acquiring"} /\ state' = "producing" /\ Write("start")
    BY <1>6 DEF FrameAuthOk, FrameStatsRetry, AttemptAcquire
  <2>2. CASE UNCHANGED <<state, stdin>>
    BY <1>3, <1>4, <2>2 DEF Phase
  <2>3. CASE state \in {"searching", "acquiring"} /\ state' = "acquiring" /\ stdin' = stdin
    BY <1>3, <1>4, <2>3 DEF Phase
  <2>4. CASE state \in {"searching", "acquiring"} /\ state' = "producing" /\ Write("start")
    <3>1. Unasked /\ stdin' = <<"start">>
      BY <2>4, Commanded DEF Phase, Unasked, Write, Live
    <3> QED
      BY <1>1, <1>2, <1>3, <2>4, <3>1 DEF Phase, Unasked, Asked
  <2> QED
    BY <2>1, <2>2, <2>3, <2>4
<1>7. ~FrameAuthLost
  BY <1>2 DEF FrameAuthLost, TakeFrame, Steady
<1>8. CASE FrameStopped
  <2>1. Head(stdout) = "stopped" /\ stdin' = stdin
    BY <1>8 DEF FrameStopped, TakeFrame
  <2>2. Acknowledged /\ state \in {"producing", "stopping"}
    BY <1>2, <2>1 DEF Phase, Unasked, Asked, Producing, Told, Flushing
  <2>3. state' = "searching"
    BY <1>8, <2>2 DEF FrameStopped, TypeOK, SupervisorTypeOK
  <2> QED
    BY <1>1, <1>2, <1>3, <2>1, <2>2, <2>3 DEF Phase, Unasked, Acknowledged
<1>9. CASE FrameStatsRefresh
  <2>1. CASE UNCHANGED <<state, stdin>>
    BY <1>3, <1>4, <2>1 DEF Phase
  <2>2. CASE row.owner # Me /\ Write("stop") /\ state' = "stopping"
    <3>1. ~LeasesKept /\ state = "producing" /\ (Asked \/ Producing)
      BY <1>9, <2>2 DEF FrameStatsRefresh, SupervisorInv, LockMatchesState, LeaseInv, Phase
    <3>2. (Asked => stdin' = <<"start", "stop">>) /\ (Producing => stdin' = <<"stop">>)
      BY <2>2, Commanded DEF Write, Live, Asked, Producing
    <3>3. Told'
      BY <1>1, <1>2, <3>1, <3>2 DEF Asked, Producing, Told
    <3> QED
      BY <1>3, <2>2, <3>1, <3>3 DEF Phase
  <2> QED
    BY <1>9, <2>1, <2>2 DEF FrameStatsRefresh, RefreshLease, CanRefresh
<1> QED
  BY <1>5, <1>6, <1>7, <1>8, <1>9 DEF HandleFrame

\* The supervisor's steps: where the lock goes, the production has ended.
LEMMA SupervisorWriterStep ==
  ASSUME TypeOK, SupervisorInv, SupervisorInv', SignalInv, LeaseInv, Orderly, WriterInv,
         SupervisorNext
  PROVE  WriterInv'
<1>1. CASE Start \/ CooldownOver \/ Respawn
  <2>1. proc = "none" /\ SpawnSession
    BY <1>1, SpawnStep DEF Start, CooldownOver, Respawn
  <2>2. CASE FreshHelper /\ state' = "starting"
    <3>1. Unasked' /\ NoFrame("lost")'
      BY <2>2 DEF FreshHelper, Unasked, NoFrame
    <3> QED
      BY <2>2, <3>1 DEF FreshHelper, WriterInv, Steady, Phase
  <2>3. CASE proc' = proc
    BY <2>1, <2>3 DEF WriterInv, Live
  <2> QED
    BY <2>1, <2>2, <2>3 DEF SpawnSession, helperVars
<1>2. CASE HandleFrame
  <2>1. pc = "idle" /\ UNCHANGED <<proc, mode, pc>>
    BY <1>2 DEF HandleFrame, FrameReady, FrameAuthOk, FrameAuthLost, FrameStopped,
                FrameStatsRefresh, FrameStatsRetry, FrameStatsIgnored, FrameFatal, TakeFrame
  <2>2. Live' => Steady' /\ Phase'
    BY <1>2, <2>1, FramePhaseStep DEF WriterInv, Live
  <2>3. Live' /\ ~lockHeld' => Unasked'
    BY <2>2 DEF SupervisorInv, LockMatchesState, Phase
  <2> QED
    BY <2>2, <2>3 DEF WriterInv, Unasked
<1>3. CASE HandleExit \/ Ended \/ Kill
  BY <1>3 DEF HandleExit, Ended, AfterExit, Reaped, Kill, Exit, WriterInv, Live
<1>4. CASE ChildError \/ AckOrTimeout
  BY <1>4 DEF ChildError, AckOrTimeout, EndChild, pipeVars, WriterInv, Live
<1>5. CASE ReadyTimeout \/ StopTimeout \/ StallTimeout \/ FloorResetSeen
  BY <1>5 DEF ReadyTimeout, StopTimeout, StallTimeout, FloorResetSeen, EndSession, EndChild,
              pipeVars, WriterInv, Live
<1>6. CASE Shutdown
  <2>1. \/ pc' = "awaitAck" /\ lockHeld' = lockHeld /\ state \in {"producing", "stopping"}
        \/ pc' = "ending" /\ UNCHANGED <<lockHeld, mode, stdin, proc>>
        \/ ~Live /\ proc' = proc
    BY <1>6 DEF Shutdown, EndChild, SupervisorInv, ControlInv, Live
  <2> QED
    BY <2>1 DEF WriterInv, SupervisorInv, LockMatchesState, Live
<1> QED
  BY <1>1, <1>2, <1>3, <1>4, <1>5, <1>6 DEF SupervisorNext

\* Which faults there may be is settled at the start.
LEMMA FaultsStep ==
  ASSUME [Next]_vars
  PROVE  faults' = faults
<1>1. CASE HelperNext
  BY <1>1 DEF HelperNext, Helper, HelperReady, HelperFatal, PacketAuthenticated,
     TrafficSilent, TickAuthLoss, TickConfirm, EmitStats, CmdStart, CmdStop, StopTimer,
     BusEos, PipelineError, OnSignal, SignalTimer, Crash, Wedge, KilledBooting
<1>2. CASE SupervisorNext
  BY <1>2 DEF SupervisorNext, Start, CooldownOver, Respawn, SpawnSession, HandleFrame,
     FrameReady, FrameAuthOk, FrameAuthLost, FrameStopped, FrameStatsRefresh,
     FrameStatsRetry, FrameStatsIgnored, FrameFatal, TakeFrame, HandleExit, ChildError,
     Kill, Ended, ReadyTimeout, StopTimeout, StallTimeout, FloorResetSeen, EndSession,
     Shutdown, AckOrTimeout
<1>3. CASE Environment \/ Finished \/ UNCHANGED vars
  BY <1>3 DEF Environment, RivalAcquires, RivalReleases, LeaseGoesStale, CleanupRemoves,
              RowStep, Finished, vars
<1> QED
  BY <1>1, <1>2, <1>3 DEF Next

\* The invariant behind the theorems of this module.
ProductionInv ==
  SignalInv /\ BootInv /\ LeaseInv /\ (Orderly => WriterInv)

\* It holds from the start and through every step, given the types and the control
\* state of the supervisor.
LEMMA SpecProductionInv == Spec => []ProductionInv
<1>1. Init => ProductionInv
  BY DEF Init, SupervisorInit, ProductionInv, SignalInv, BootInv, LeaseInv, WriterInv, Live
<1>2. ASSUME TypeOK, SupervisorInv, SupervisorInv', ProductionInv, [Next]_vars
      PROVE  ProductionInv'
  <2>1. SignalInv' /\ BootInv' /\ LeaseInv'
    BY <1>2, SignalStep, LeaseStep DEF ProductionInv
  <2>2. faults' = faults
    BY <1>2, FaultsStep
  <2>3. ASSUME Orderly, WriterInv PROVE WriterInv'
    <3>1. CASE HelperNext
      BY <1>2, <2>3, <3>1, HelperWriterStep DEF ProductionInv
    <3>2. CASE SupervisorNext
      BY <1>2, <2>3, <3>2, SupervisorWriterStep DEF ProductionInv
    <3>3. CASE Environment \/ Finished \/ UNCHANGED vars
      <4>1. UNCHANGED <<proc, mode, stopping, eos, lastAuth, stdin, stdout, faults, state,
                        lockHeld, pc>>
        BY <3>3 DEF Environment, RivalAcquires, RivalReleases, LeaseGoesStale, CleanupRemoves,
             RowStep, Finished, vars, helperVars, supVars, pipeVars, stopVars, authVars
      <4> QED
        BY <2>3, <4>1 DEF WriterInv, Live, Steady, Phase, Unasked, Asked, Producing, Told,
                          Flushing, Acknowledged, NoFrame, OneStopped, LeasesKept
    <3> QED
      BY <1>2, <3>1, <3>2, <3>3 DEF Next
  <2> QED
    BY <1>2, <2>1, <2>2, <2>3
    DEF ProductionInv, Orderly, LeasesKept, StopsOnlyWhenTold
<1> QED
  BY <1>1, <1>2, SpecTypeOK, SpecSupervisorInv, PTL DEF Spec

-----------------------------------------------------------------------------
\* Where leases are kept, or helpers stop only when told, nothing of ours writes
\* without the lock, whatever is in the pipes of helper and supervisor.
THEOREM SpecOrderlyWriterHoldsLock == Spec => []OrderlyWriterHoldsLock
<1>1. ProductionInv => OrderlyWriterHoldsLock
  BY DEF ProductionInv, Orderly, WriterInv, Live, OrderlyWriterHoldsLock, WriterHoldsLock,
         Writing
<1> QED
  BY <1>1, SpecProductionInv, PTL

\* What a step of the supervisor's queue does to the row: one conditional write.
LEMMA SupervisorRowStep ==
  ASSUME SupervisorNext
  PROVE  \/ row' = row
         \/ CanAcquire(row, Me) /\ row' = Acquired(Me)
         \/ row.owner = Me /\ row' = Refreshed(row)
         \/ lockHeld /\ ~lockHeld' /\ row' = Released(row, Me)
<1>1. CASE Start \/ CooldownOver \/ Respawn
  BY <1>1 DEF Start, CooldownOver, Respawn, SpawnSession
<1>2. CASE HandleFrame
  BY <1>2 DEF HandleFrame, FrameReady, FrameAuthOk, FrameAuthLost, NotProducing, FrameStopped,
              FrameStatsRefresh, FrameStatsRetry, FrameStatsIgnored, FrameFatal,
              AttemptAcquire, RefreshLease, CanRefresh, ReleaseLock
<1>3. CASE HandleExit \/ Ended
  BY <1>3 DEF HandleExit, Ended, AfterExit, ReleaseLock
<1>4. CASE ChildError \/ AckOrTimeout \/ Kill
  BY <1>4 DEF ChildError, AckOrTimeout, Kill, supVars
<1>5. CASE ReadyTimeout \/ StopTimeout \/ StallTimeout \/ FloorResetSeen
  BY <1>5 DEF ReadyTimeout, StopTimeout, StallTimeout, FloorResetSeen, EndSession
<1>6. CASE Shutdown
  BY <1>6 DEF Shutdown, ReleaseLock
<1> QED
  BY <1>1, <1>2, <1>3, <1>4, <1>5, <1>6 DEF SupervisorNext

\* No acquisition, refresh or release of this instance touches the live lease of
\* another one.
THEOREM SpecLiveLeaseIsSafe == Spec => LiveLeaseIsSafe
<1>1. ASSUME TypeOK, SupervisorNext, row.owner \in Rivals, ~row.stale
      PROVE  row' = row
  BY <1>1, SupervisorRowStep, RowFields, MeAssumption, NoOwnerAssumption
  DEF Rivals, CanAcquire, TypeOK, SupervisorTypeOK
<1>2. TypeOK /\ [Next]_vars
        => [SupervisorNext /\ row.owner \in Rivals /\ ~row.stale => row' = row]_vars
  BY <1>1
<1> QED
  BY <1>2, SpecTypeOK, PTL DEF Spec, LiveLeaseIsSafe

-----------------------------------------------------------------------------
\* A step changes the row or starts or ends writing, not both.
LEMMA OneAtATime ==
  ASSUME TypeOK, SupervisorInv, BootInv, [Next]_vars
  PROVE  row' = row \/ (Writing' <=> Writing)
<1> USE DEF Writing
<1>1. CASE HelperNext \/ Kill
  BY <1>1 DEF HelperNext, Helper, Kill, supVars
<1>2. CASE Start \/ CooldownOver \/ Respawn
  BY <1>2 DEF Start, CooldownOver, Respawn, SpawnSession
<1>3. CASE HandleFrame
  BY <1>3 DEF HandleFrame, FrameReady, FrameAuthOk, FrameAuthLost, FrameStopped,
              FrameStatsRefresh, FrameStatsRetry, FrameStatsIgnored, FrameFatal, TakeFrame
<1>4. CASE HandleExit \/ Ended
  BY <1>4 DEF HandleExit, Ended, AfterExit, Reaped
<1>5. CASE ChildError \/ AckOrTimeout
  BY <1>5 DEF ChildError, AckOrTimeout
<1>6. CASE ReadyTimeout \/ StopTimeout \/ StallTimeout \/ FloorResetSeen
  BY <1>6 DEF ReadyTimeout, StopTimeout, StallTimeout, FloorResetSeen, EndSession
<1>7. CASE Shutdown
  BY <1>7 DEF Shutdown
<1>8. CASE Environment \/ Finished \/ UNCHANGED vars
  BY <1>8 DEF Environment, RivalAcquires, RivalReleases, LeaseGoesStale, CleanupRemoves,
              RowStep, Finished, vars, helperVars, supVars
<1> QED
  BY <1>1, <1>2, <1>3, <1>4, <1>5, <1>6, <1>7, <1>8 DEF Next, SupervisorNext

\* The same of the environment: one conditional write by a rival or the lambda, or
\* the passing of time, which spares a lease that is kept.
LEMMA EnvironmentRowStep ==
  ASSUME TypeOK, Environment
  PROVE  \/ \E r \in Rivals : row.owner # r /\ CanAcquire(row, r) /\ row' = Acquired(r)
         \/ \E r \in Rivals : row.owner = r /\ row' = Released(row, r)
         \/ /\ row.owner # NoOwner /\ row' = [row EXCEPT !.stale = TRUE]
            /\ LeasesKept => ~(row.owner = Me /\ lockHeld)
         \/ row.stale /\ row' = Cleaned(row)
BY DEF Environment, RivalAcquires, RivalReleases, LeaseGoesStale, CleanupRemoves, RowStep,
       CanClean, LeasesKept

\* Every step of the port is a step of the promise, or does not concern it.
LEMMA PromiseStep ==
  ASSUME TypeOK, SupervisorInv, ProductionInv, ProductionInv', [Next]_vars, faults' = faults
  PROVE  [Promise!Next]_<<row.owner, row.stale, Writing, LeasesKept>>
<1>1. LeasesKept' = LeasesKept
  BY DEF LeasesKept
<1>2. LeasesKept /\ Writing => lockHeld /\ row.owner = Me /\ ~row.stale
  BY DEF ProductionInv, Orderly, WriterInv, LeaseInv, Live, Writing
<1>3. LeasesKept /\ Writing' => lockHeld' /\ row'.owner = Me /\ ~row'.stale
  BY <1>1 DEF ProductionInv, Orderly, WriterInv, LeaseInv, Live, Writing
<1>4. Writing \in BOOLEAN /\ Writing' \in BOOLEAN
  BY DEF Writing
<1>5. CASE row' = row
  <2>1. CASE Writing' <=> Writing
    BY <1>1, <1>4, <1>5, <2>1
  <2>2. CASE Writing' /\ ~Writing
    BY <1>1, <1>3, <1>4, <1>5, <2>2 DEF Promise!Next, Promise!Begin
  <2>3. CASE ~Writing' /\ Writing
    BY <1>1, <1>4, <1>5, <2>3 DEF Promise!Next, Promise!End
  <2> QED
    BY <2>1, <2>2, <2>3
<1>6. CASE row' # row
  <2>1. Writing' = Writing
    BY <1>4, <1>6, OneAtATime DEF ProductionInv
  <2>2. row \in LockRow /\ Me \in Instances /\ Rivals \subseteq Instances \ {Me}
    BY MeAssumption DEF TypeOK, SupervisorTypeOK, Rivals
  <2>3. \/ \E r \in Instances : CanAcquire(row, r) /\ row' = Acquired(r)
        \/ row.owner = Me /\ row' = Refreshed(row)
        \/ \E r \in Instances : row' = Released(row, r)
        \/ row.owner # NoOwner /\ row' = [row EXCEPT !.stale = TRUE]
        \/ row' = Cleaned(row)
    <3>1. CASE SupervisorNext
      BY <1>6, <2>2, <3>1, SupervisorRowStep
    <3>2. CASE Environment
      BY <2>2, <3>2, EnvironmentRowStep
    <3>3. CASE HelperNext \/ Finished \/ UNCHANGED vars
      BY <1>6, <3>3 DEF HelperNext, Helper, Finished, vars, supVars
    <3> QED
      BY <3>1, <3>2, <3>3 DEF Next
  <2>4. CASE \E r \in Instances : CanAcquire(row, r) /\ row' = Acquired(r)
    BY <1>1, <1>2, <1>3, <2>1, <2>2, <2>4, RowFields
    DEF CanAcquire, Promise!Next, Promise!Take, Promise!Undisturbed
  <2>5. CASE row.owner = Me /\ row' = Refreshed(row)
    BY <1>1, <2>1, <2>2, <2>5, RowFields DEF Promise!Next, Promise!Take
  <2>6. CASE \E r \in Instances : row' = Released(row, r)
    BY <1>1, <1>2, <1>3, <1>6, <2>1, <2>2, <2>6, RowFields, NoOwnerAssumption
    DEF Promise!Next, Promise!Free, Promise!Undisturbed
  <2>7. CASE row.owner # NoOwner /\ row' = [row EXCEPT !.stale = TRUE]
    BY <1>1, <1>2, <1>3, <2>1, <2>2, <2>7, RowFields
    DEF Promise!Next, Promise!Expire, Promise!Undisturbed
  <2>8. CASE row' = Cleaned(row)
    BY <1>1, <1>2, <1>3, <2>1, <2>2, <2>8, RowFields, NoOwnerAssumption
    DEF Promise!Next, Promise!Free, Promise!Undisturbed
  <2> QED
    BY <2>3, <2>4, <2>5, <2>6, <2>7, <2>8
<1> QED
  BY <1>5, <1>6

\* The port implements what it promises the other instances: rows are taken only when
\* free or stale, and where leases are kept its writer begins and ends within its own.
THEOREM SpecImplementsPromise == Spec => ImplementsPromise
<1>1. Init => Promise!Init
  BY DEF Init, SupervisorInit, FreeRow, Writing, LeasesKept, Promise!Init
<1>2. TypeOK /\ SupervisorInv /\ ProductionInv /\ ProductionInv' /\ [Next]_vars
        => [Promise!Next]_<<row.owner, row.stale, Writing, LeasesKept>>
  BY FaultsStep, PromiseStep
<1> QED
  BY <1>1, <1>2, SpecTypeOK, SpecSupervisorInv, SpecProductionInv, PTL
  DEF Spec, ImplementsPromise, Promise!Spec
=============================================================================
