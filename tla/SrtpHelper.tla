------------------------------ MODULE SrtpHelper ------------------------------
(***************************************************************************)
(* srtp_port.py: the helper process that owns a port's socket and runs     *)
(* either a searching pipeline (udpsrc, srtpdec, fakesink) or a producing  *)
(* one that ends in kvssink.  Only what bears on production is modelled    *)
(* here: the mode, the stop in progress and its 5 s timers, the auth-loss  *)
(* watchdog, the commands on stdin and the frames on stdout.  Which        *)
(* rollover counter is tried is in RocSearch, which index is accepted in   *)
(* ReplayFloor; here a packet simply authenticates.                        *)
(*                                                                         *)
(* Time is abstracted: a timer may fire at any moment after it was armed.  *)
(***************************************************************************)
EXTENDS Naturals, Sequences

CONSTANTS FaultSets,  \* sets of FaultKinds, one of which a behaviour suffers from
          MaxFrames,  \* capacity of the stdout pipe, in frames
          MaxCommands, \* commands a tick may find unread: the loop reads stdin too
          MaxTimers   \* stop timers armed at a time

FaultKinds == {"silence", "slowFlush", "pipelineError", "leaseFailure", "crash",
               "floorReset"}

ASSUME FaultsAssumption == FaultSets \subseteq SUBSET FaultKinds
ASSUME BoundsAssumption ==
  MaxFrames \in Nat /\ MaxCommands \in Nat /\ MaxTimers \in Nat

VARIABLES
  proc,          \* the process: none, booting, running, exited (not yet noticed)
  mode,          \* SrtpPort.mode
  stopping,      \* SrtpPort.stopping
  timers,        \* armed GLib timeouts that call _finish_stop
  shuttingDown,  \* SrtpPort.shutting_down
  eos,           \* EOS was sent into the pipeline; udpsrc delivers nothing more
  lastAuth,      \* last_auth_ms: never, recent, or older than auth_loss_ms
  keyAuth,       \* key_authenticated > 0
  confirmed,     \* SrtpPort.confirmed
  wedged,        \* the main loop is stuck: no command is read, no frame sent
  sigterm,       \* a SIGTERM was sent to the process
  stdin,         \* commands written and not yet read
  stdout,        \* frames written and not yet handled
  faults         \* the kinds of fault the environment may inject from now on

pipeVars == <<stdin, stdout>>
stopVars == <<stopping, timers>>
authVars == <<lastAuth, keyAuth, confirmed>>
helperVars == <<proc, mode, stopVars, shuttingDown, eos, authVars, wedged,
                sigterm, pipeVars>>

Frames == {"ready", "ok", "lost", "stopped", "stats", "statsIdle",
           "fatal", "fatalRetryable"}
Commands == {"start", "stop"}

HelperTypeOK ==
  /\ proc \in {"none", "booting", "running", "exited"}
  /\ mode \in {"searching", "producing"}
  /\ stopping \in BOOLEAN /\ timers \in Nat
  /\ shuttingDown \in BOOLEAN /\ eos \in BOOLEAN
  /\ lastAuth \in {"never", "recent", "old"}
  /\ keyAuth \in BOOLEAN /\ confirmed \in BOOLEAN
  /\ wedged \in BOOLEAN /\ sigterm \in BOOLEAN /\ faults \subseteq FaultKinds
  /\ stdin \in Seq(Commands) /\ stdout \in Seq(Frames)

\* Nothing of a previous process survives into a new one.
FreshHelper ==
  /\ mode' = "searching" /\ stopping' = FALSE /\ timers' = 0
  /\ shuttingDown' = FALSE /\ eos' = FALSE
  /\ lastAuth' = "never" /\ keyAuth' = FALSE /\ confirmed' = FALSE
  /\ wedged' = FALSE /\ sigterm' = FALSE
  /\ stdin' = <<>> /\ stdout' = <<>>

\* kvssink is attached: until the pipeline is NULL it may write to the stream.
Writing == proc = "running" /\ mode = "producing"

MainLoop == proc = "running" /\ ~wedged

\* Writing to a full pipe blocks, so a step that emits waits for room.
Emit(frames) ==
  /\ Len(stdout) + Len(frames) <= MaxFrames
  /\ stdout' = stdout \o frames

\* _reset_session without a seed: the search starts over, unconfirmed, but
\* last_auth_ms keeps its value.
ResetSession == keyAuth' = FALSE /\ confirmed' = FALSE /\ UNCHANGED lastAuth

\* _teardown_pipeline and _build_searching: the socket stays, kvssink is gone.
RebuildSearching == mode' = "searching" /\ eos' = FALSE

\* _stop or any other end: the pipeline is gone with the process, frames already
\* written stay in the pipe.  The last index report belongs to ReplayFloor.
Exit ==
  /\ proc' = "exited" /\ mode' = "searching" /\ stopping' = FALSE /\ timers' = 0
  /\ shuttingDown' = FALSE /\ eos' = FALSE /\ keyAuth' = FALSE
  /\ confirmed' = FALSE /\ wedged' = FALSE /\ stdin' = <<>>
  /\ UNCHANGED lastAuth

-----------------------------------------------------------------------------
\* start(): bind, build the searching pipeline, announce it.
HelperReady ==
  /\ proc = "booting" /\ ~wedged
  /\ Emit(<<"ready">>)
  /\ proc' = "running"
  /\ UNCHANGED <<mode, stopVars, shuttingDown, eos, authVars, wedged, sigterm,
                 stdin, faults>>

\* fatal(): one frame, then os._exit - from startup or from a failed rebuild.
HelperFatal ==
  /\ "crash" \in faults
  /\ proc \in {"booting", "running"} /\ ~wedged
  /\ \E f \in {"fatal", "fatalRetryable"} : Emit(<<f>>)
  /\ Exit
  /\ UNCHANGED <<sigterm, faults>>

\* _record_authenticated, on the streaming thread: a packet above the floor.
\* After EOS udpsrc has stopped, so no packet reaches the pad.
PacketAuthenticated ==
  /\ proc = "running" /\ ~eos
  /\ lastAuth' = "recent" /\ keyAuth' = TRUE
  /\ UNCHANGED <<proc, mode, stopVars, shuttingDown, eos, confirmed, wedged,
                 sigterm, pipeVars, faults>>

\* auth_loss_ms pass without an accepted packet: the sender paused, or udpsrc
\* was stopped by an EOS and the flush takes longer than that.
TrafficSilent ==
  /\ (IF eos THEN "slowFlush" ELSE "silence") \in faults
  /\ proc = "running" /\ lastAuth = "recent"
  /\ lastAuth' = "old"
  /\ UNCHANGED <<proc, mode, stopVars, shuttingDown, eos, keyAuth, confirmed,
                 wedged, sigterm, pipeVars, faults>>

AuthLossDue == lastAuth = "old" /\ (confirmed \/ mode = "producing")

\* _tick, first branch: give production up, report it, then report the loss.
\* It neither reads nor clears `stopping`.
TickAuthLoss ==
  /\ MainLoop /\ ~shuttingDown /\ AuthLossDue
  /\ IF mode = "producing"
       THEN Emit(<<"stopped", "lost">>) /\ RebuildSearching
       ELSE Emit(<<"lost">>) /\ UNCHANGED <<mode, eos>>
  /\ ResetSession
  /\ UNCHANGED <<proc, stopVars, shuttingDown, wedged, sigterm, stdin, faults>>

\* _tick, confirmation: the first authenticated packet of this session.
TickConfirm ==
  /\ MainLoop /\ ~shuttingDown /\ ~AuthLossDue
  /\ keyAuth /\ ~confirmed
  /\ Len(stdin) <= MaxCommands
  /\ Emit(<<"ok">>)
  /\ confirmed' = TRUE
  /\ UNCHANGED <<proc, mode, stopVars, shuttingDown, eos, lastAuth, keyAuth,
                 wedged, sigterm, stdin, faults>>

\* _emit_stats: `authenticated` is a running total, so it stays positive once
\* anything was accepted.  Bound: one unread stats frame at a time.
EmitStats ==
  /\ MainLoop /\ ~shuttingDown
  /\ \A n \in 1..Len(stdout) : stdout[n] \notin {"stats", "statsIdle"}
  /\ Emit(<<IF lastAuth = "never" THEN "statsIdle" ELSE "stats">>)
  /\ UNCHANGED <<proc, mode, stopVars, shuttingDown, eos, authVars, wedged,
                 sigterm, stdin, faults>>

\* _cmd_start: ignored while a stop or a shutdown is in progress.
CmdStart ==
  /\ MainLoop /\ stdin # <<>> /\ Head(stdin) = "start"
  /\ stdin' = Tail(stdin)
  /\ IF shuttingDown \/ stopping \/ mode = "producing"
       THEN UNCHANGED <<mode, eos, authVars>>
       ELSE mode' = "producing" /\ eos' = FALSE /\ ResetSession
  /\ UNCHANGED <<proc, stopVars, shuttingDown, wedged, sigterm, stdout, faults>>

\* Mutant of CmdStop: the stop is acknowledged before the pipeline is down.
CmdStopAcksFirst ==
  /\ MainLoop /\ stdin # <<>> /\ Head(stdin) = "stop"
  /\ stdin' = Tail(stdin)
  /\ Emit(<<"stopped">>)
  /\ stopping' = (mode = "producing") /\ eos' = (mode = "producing")
  /\ timers' = IF mode = "producing" THEN 1 ELSE timers
  /\ UNCHANGED <<proc, mode, shuttingDown, authVars, wedged, sigterm, faults>>

\* _cmd_stop: outside producing it is acknowledged at once.
CmdStop ==
  /\ MainLoop /\ stdin # <<>> /\ Head(stdin) = "stop"
  /\ stdin' = Tail(stdin)
  /\ \/ /\ shuttingDown \/ stopping
        /\ UNCHANGED <<stopVars, eos, stdout>>
     \/ /\ ~shuttingDown /\ ~stopping /\ mode # "producing"
        /\ Emit(<<"stopped">>)
        /\ UNCHANGED <<stopVars, eos>>
     \/ /\ ~shuttingDown /\ ~stopping /\ mode = "producing"
        /\ timers < MaxTimers
        /\ stopping' = TRUE /\ timers' = timers + 1 /\ eos' = TRUE
        /\ UNCHANGED stdout
  /\ UNCHANGED <<proc, mode, shuttingDown, authVars, wedged, sigterm, faults>>

\* _finish_stop with `stopping` set.
FinishStop ==
  /\ stopping' = FALSE
  /\ Emit(<<"stopped">>)
  /\ ResetSession
  /\ RebuildSearching

\* Mutant of StopTimer: _finish_stop runs though no timer is armed.
StopTimerUnarmed ==
  /\ MainLoop
  /\ timers' = timers - 1
  /\ IF stopping THEN FinishStop
                 ELSE UNCHANGED <<stopping, mode, eos, authVars, stdout>>
  /\ UNCHANGED <<proc, shuttingDown, wedged, sigterm, stdin, faults>>

\* The 5 s timer of some stop; a timer whose stop already finished does nothing.
StopTimer ==
  /\ MainLoop /\ timers > 0
  /\ timers' = timers - 1
  /\ IF stopping THEN FinishStop
                 ELSE UNCHANGED <<stopping, mode, eos, authVars, stdout>>
  /\ UNCHANGED <<proc, shuttingDown, wedged, sigterm, stdin, faults>>

\* The bus reports EOS: the flush of a stop is done, or that of a signal.
BusEos ==
  /\ MainLoop /\ eos
  /\ \/ /\ stopping
        /\ FinishStop
        /\ UNCHANGED <<proc, timers, shuttingDown, wedged, stdin>>
     \/ ~stopping /\ Exit /\ UNCHANGED stdout
  /\ UNCHANGED <<sigterm, faults>>

\* _on_pipeline_error: producing falls back to searching, searching exits.
PipelineError ==
  /\ "pipelineError" \in faults
  /\ MainLoop
  /\ \/ /\ mode = "producing"
        /\ Emit(<<"stopped">>) /\ ResetSession /\ RebuildSearching
        /\ UNCHANGED <<proc, stopVars, shuttingDown, wedged, stdin>>
     \/ mode = "searching" /\ Exit /\ UNCHANGED stdout
  /\ UNCHANGED <<sigterm, faults>>

\* _on_signal: EOS into the pipeline; the flush gets 5 s.
OnSignal ==
  /\ MainLoop /\ sigterm /\ ~shuttingDown
  /\ shuttingDown' = TRUE /\ eos' = TRUE
  /\ UNCHANGED <<proc, mode, stopVars, authVars, wedged, sigterm, pipeVars, faults>>

\* The 5 s timer of _on_signal.
SignalTimer ==
  /\ MainLoop /\ shuttingDown
  /\ Exit
  /\ UNCHANGED <<sigterm, stdout, faults>>

\* The process dies without a word.
Crash ==
  /\ "crash" \in faults
  /\ proc \in {"booting", "running"}
  /\ Exit
  /\ UNCHANGED <<sigterm, stdout, faults>>

\* The main loop gets stuck; the streaming thread and kvssink may go on.
Wedge ==
  /\ "crash" \in faults
  /\ proc \in {"booting", "running"} /\ ~wedged
  /\ wedged' = TRUE
  /\ UNCHANGED <<proc, mode, stopVars, shuttingDown, eos, authVars, sigterm,
                 pipeVars, faults>>

\* SIGTERM kills a process that has not installed its handler yet.
KilledBooting ==
  /\ proc = "booting" /\ sigterm
  /\ Exit
  /\ UNCHANGED <<sigterm, stdout, faults>>

=============================================================================
