--------------------------- MODULE UnencryptedPort ---------------------------
(***************************************************************************)
(* One port of the unencrypted path as one instance runs it: the packet    *)
(* handler of index.ts, StreamStateManager, KinesisIngestionPipeline, and  *)
(* the row they share with other instances and the cleanup lambda.         *)
(*                                                                         *)
(* Node runs one callback at a time, so an action is the code between two  *)
(* awaits.  A DynamoDB call is three of them: it is sent, it takes effect  *)
(* at the table, and its answer is acted upon.  A pipeline start is three  *)
(* as well: credentials, the spawn, the FIFO opened by the child; the last *)
(* two may fail.  A stopped child drains for up to 15 s, beside whatever   *)
(* is started next.  An 'error' event without a listener ends the process  *)
(* in the step that causes it.                                             *)
(*                                                                         *)
(* Bounds: one acquisition, one refresh, one release and one restart timer *)
(* at a time; the packets that wait for one pending start count as one.    *)
(* Packets are counted towards the threshold one by one, and the threshold *)
(* is more than one, as 10 MB are more than one datagram; so onStreamStart,*)
(* which only the first packet ever causes (a resumed stream emits         *)
(* streamResume, to which nobody listens), never finds the lock held, and  *)
(* is left out.                                                            *)
(***************************************************************************)
EXTENDS Naturals, FiniteSets, StreamRow

CONSTANTS Me,
          Procs,       \* names for GStreamer processes, reused
          NoProc,
          Threshold    \* packets that make kinesisMinBytesBeforeStart

ASSUME UnencryptedAssumption ==
  /\ Me \in Instances /\ NoProc \notin Procs
  /\ Threshold \in Nat \ {0, 1}

VARIABLES
  status,      \* StreamStateManager: none, active, inactive
  timer,       \* its inactivity timer is armed
  buffered,    \* packets in preStartBufferByPort, 0 when there is no buffer
  lockHeld,    \* kinesisLockHeldForPorts has the port
  acquire,     \* tryAcquireKinesisLock in flight: none, sent, won, refused
  refresh,     \* updateLastPacketTime in flight: none, sent, done, lost
  release,     \* releaseKinesisLock in flight: none, sent, done
  starter,     \* onPacket waits for pipeline.start
  pending,     \* pendingStarts: none, creds, fifo
  startData,   \* ... with initialData
  startProc,   \* the child of the pending start
  entry,       \* the child in activePipelines
  procs,       \* per child: none, booting (nobody hears its exit yet), running, ended
               \* (its input is closed), dead (registered after its exit)
  fed,         \* children that were given video data
  dropped,     \* history: live children that activePipelines does not have, because
               \* another's exit took their entry, their start was rejected, or it is gone
  restart,     \* the timer of a pipelineExited restart
  life,        \* the service: up, closing, stopping, exited
  quiet,       \* no more packets come
  failed,      \* history: none, acquire (it threw but took effect) or refresh (the last
               \* one threw)
  row

stream == <<status, timer, buffered>>
calls == <<acquire, refresh, release>>
start == <<pending, startData, startProc>>
children == <<entry, procs, fed, dropped>>
pipeline == <<start, children, restart>>
vars == <<stream, lockHeld, calls, starter, pipeline, life, quiet, failed, row>>

Rivals == Instances \ {Me}

TypeOK ==
  /\ status \in {"none", "active", "inactive"} /\ timer \in BOOLEAN
  /\ buffered \in 0..(Threshold - 1) /\ lockHeld \in BOOLEAN
  /\ acquire \in {"none", "sent", "won", "refused"}
  /\ refresh \in {"none", "sent", "done", "lost"} /\ release \in {"none", "sent", "done"}
  /\ starter \in BOOLEAN /\ startData \in BOOLEAN
  /\ restart \in BOOLEAN
  /\ pending \in {"none", "creds", "fifo"}
  /\ startProc \in Procs \cup {NoProc} /\ entry \in Procs \cup {NoProc}
  /\ procs \in [Procs -> {"none", "booting", "running", "ended", "dead"}]
  /\ fed \subseteq Procs /\ dropped \subseteq Procs
  /\ life \in {"up", "closing", "stopping", "exited"}
  /\ quiet \in BOOLEAN /\ failed \in {"none", "acquire", "refresh"}
  /\ row \in LockRow

Init ==
  /\ status = "none" /\ timer = FALSE /\ buffered = 0 /\ lockHeld = FALSE
  /\ acquire = "none" /\ refresh = "none" /\ release = "none" /\ starter = FALSE
  /\ pending = "none" /\ startData = FALSE /\ startProc = NoProc
  /\ entry = NoProc /\ procs = [p \in Procs |-> "none"] /\ fed = {} /\ dropped = {}
  /\ restart = FALSE
  /\ life = "up" /\ quiet = FALSE /\ failed = "none"
  /\ row = FreeRow

-----------------------------------------------------------------------------
\* onPacketReceived: the stream is active and its inactivity timer starts over.
Received == status' = "active" /\ timer' = TRUE

\* Mutant of StartPipeline: concurrent starts are not deduped.
StartPipelineTwice(data) ==
  IF entry = NoProc
    THEN pending' = "creds" /\ startData' = data /\ startProc' = NoProc
    ELSE UNCHANGED start

\* KinesisIngestionPipeline.start up to its first await: nothing if there is a
\* pipeline, and a second caller waits for the start in flight.
StartPipeline(data) ==
  IF entry = NoProc /\ pending = "none"
    THEN pending' = "creds" /\ startData' = data /\ startProc' = NoProc
    ELSE UNCHANGED start

\* The child in activePipelines once its input is closed.
Closed(state) == IF state = "dead" THEN "none" ELSE "ended"

\* stop up to its await: only a registered pipeline is stopped, not one that is
\* being started.
StopPipeline ==
  /\ entry' = NoProc
  /\ procs' = IF entry = NoProc THEN procs ELSE [procs EXCEPT ![entry] = Closed(@)]
  /\ UNCHANGED <<start, fed, dropped, restart>>

\* writePacket: nothing reaches a child that is dead.
Feed == fed' = fed \cup {p \in Procs : p = entry /\ procs[p] = "running"}

\* Mutant of Buffering: a stream that resumes does not fill a buffer again.
BufferingOnce == ~lockHeld /\ (status = "none" \/ buffered > 0)

\* A first packet, a resumed stream, or a buffer that is filling.
Buffering == ~lockHeld /\ (status # "active" \/ buffered > 0)

Arrives == life = "up" /\ ~quiet

\* Mutant of PacketBuffered: the threshold is off by one.
PacketBufferedPast ==
  /\ Arrives /\ Buffering /\ buffered < Threshold
  /\ buffered' = buffered + 1
  /\ Received
  /\ UNCHANGED <<lockHeld, calls, starter, pipeline, life, quiet, failed, row>>

\* onPacket while the buffer fills.
PacketBuffered ==
  /\ Arrives /\ Buffering /\ buffered + 1 < Threshold
  /\ buffered' = buffered + 1
  /\ Received
  /\ UNCHANGED <<lockHeld, calls, starter, pipeline, life, quiet, failed, row>>

\* onPacket with the packet that fills it: the buffer goes into the call, and the
\* stream state waits for the answer.
PacketFillsBuffer ==
  /\ Arrives /\ Buffering /\ buffered + 1 = Threshold
  /\ acquire = "none"
  /\ buffered' = 0 /\ acquire' = "sent"
  /\ UNCHANGED <<status, timer, lockHeld, refresh, release, starter, pipeline, life,
                 quiet, failed, row>>

\* onPacket otherwise: with the lock the lease is refreshed, or was within the
\* throttle and the packet goes straight on; without it the packet is dropped.
PacketPasses ==
  /\ Arrives /\ ~Buffering
  /\ Received
  /\ \/ lockHeld /\ refresh = "none" /\ refresh' = "sent" /\ UNCHANGED fed
     \/ lockHeld /\ Feed /\ UNCHANGED refresh
     \/ ~lockHeld /\ UNCHANGED <<refresh, fed>>
  /\ UNCHANGED <<buffered, lockHeld, acquire, release, starter, start, entry, procs,
                 dropped, restart, life, quiet, failed, row>>

\* tryAcquireKinesisLock at the table.  A call that throws ends like a refusal, whether
\* or not it took effect.
AcquireApplied ==
  /\ acquire = "sent"
  /\ \/ CanAcquire(row, Me) /\ row' = Acquired(Me) /\ acquire' = "won" /\ failed' = "none"
     \/ acquire' = "refused" /\ UNCHANGED <<row, failed>>
     \/ /\ CanAcquire(row, Me) /\ row' = Acquired(Me)
        /\ acquire' = "refused" /\ failed' = "acquire"
  /\ UNCHANGED <<stream, lockHeld, refresh, release, starter, pipeline, life, quiet>>

\* ... and its answer: the flag, then the start that onPacket waits for.
AcquireReturns ==
  /\ acquire # "none" /\ acquire # "sent" /\ life # "exited"
  /\ acquire' = "none"
  /\ \/ /\ acquire = "won"
        /\ lockHeld' = TRUE /\ starter' = TRUE
        /\ StartPipeline(TRUE)
        /\ UNCHANGED <<status, timer>>
     \/ /\ acquire = "refused"
        /\ Received
        /\ UNCHANGED <<lockHeld, starter, start>>
  /\ UNCHANGED <<buffered, refresh, release, children, restart, life, quiet, failed,
                 row>>

\* onPacket goes on once the start is settled, whichever way.
StarterContinues ==
  /\ starter /\ pending = "none" /\ life # "exited"
  /\ starter' = FALSE
  /\ Received
  /\ refresh' = IF lockHeld /\ refresh = "none" THEN "sent" ELSE refresh
  /\ UNCHANGED <<buffered, lockHeld, acquire, release, pipeline, life, quiet, failed,
                 row>>

\* updateLastPacketTime at the table; after a failed write the lease stands.
RefreshApplied ==
  /\ refresh = "sent"
  /\ \/ /\ CanRefresh(row, Me) /\ row' = Refreshed(row)
        /\ refresh' = "done" /\ failed' = "none"
     \/ ~CanRefresh(row, Me) /\ refresh' = "lost" /\ UNCHANGED <<row, failed>>
     \/ refresh' = "done" /\ failed' = "refresh" /\ UNCHANGED row
  /\ UNCHANGED <<stream, lockHeld, acquire, release, starter, pipeline, life, quiet>>

\* onPacket goes on: with the lock, the packet is fed unless it was part of the
\* initial data.
RefreshReturns ==
  /\ refresh = "done" /\ life # "exited"
  /\ refresh' = "none"
  /\ (lockHeld /\ Feed) \/ UNCHANGED fed
  /\ UNCHANGED <<stream, lockHeld, acquire, release, starter, start, entry, procs,
                 dropped, restart, life, quiet, failed, row>>

\* The lock is lost: stop producing.
RefreshReturnsLost ==
  /\ refresh = "lost" /\ life # "exited"
  /\ refresh' = "none" /\ lockHeld' = FALSE
  /\ StopPipeline
  /\ UNCHANGED <<stream, acquire, release, starter, life, quiet, failed, row>>

-----------------------------------------------------------------------------
\* handleStreamInactivity and onStreamStop up to its await.  The lock is released
\* before the pipeline is stopped.  Timing: DynamoDB answers within the inactivity
\* timeout of a minute; a pipeline start may take longer.
InactivityFires ==
  /\ timer /\ life # "exited"
  /\ acquire = "none" /\ refresh = "none" /\ release = "none"
  /\ timer' = FALSE /\ status' = "inactive" /\ buffered' = 0
  /\ IF lockHeld THEN release' = "sent" /\ UNCHANGED pipeline
                 ELSE UNCHANGED release /\ StopPipeline
  /\ UNCHANGED <<lockHeld, acquire, refresh, starter, life, quiet, failed, row>>

\* The process ends, and its memory with it.  Children whose input it held open see
\* it closed, those in opened included; one that still waits for its FIFO is left
\* waiting.
ProcessEnds(opened) ==
  /\ life' = "exited" /\ quiet' = TRUE /\ failed' = "none"
  /\ status' = "none" /\ timer' = FALSE /\ buffered' = 0
  /\ lockHeld' = FALSE /\ starter' = FALSE /\ restart' = FALSE
  /\ pending' = "none" /\ startData' = FALSE /\ startProc' = NoProc /\ entry' = NoProc
  /\ procs' = [p \in Procs |->
                 CASE procs[p] = "running" \/ p \in opened -> "ended"
                   [] procs[p] = "dead" -> "none"
                   [] OTHER -> procs[p]]
  /\ dropped' = {p \in Procs \ opened : procs[p] = "booting"}
  /\ fed' = fed \cup opened

ProcessExit == ProcessEnds({})

\* Mutant of ReleaseApplied: the flag falls although the call threw.
ReleaseAppliedForgets ==
  /\ release = "sent"
  /\ \/ /\ release' = "done" /\ row' = Released(row, Me)
        /\ UNCHANGED <<stream, lockHeld, starter, pipeline, life, quiet, failed>>
     \/ /\ release' = "none" /\ row' \in {row, Released(row, Me)}
        /\ \/ life = "stopping" /\ ProcessExit
           \/ life # "stopping" /\ lockHeld' = FALSE
              /\ UNCHANGED <<stream, starter, pipeline, life, quiet, failed>>
  /\ UNCHANGED <<acquire, refresh>>

\* releaseKinesisLock at the table.  A call that throws ends onStreamStop with the
\* flag set and the pipeline running, and a shutdown with the process.
ReleaseApplied ==
  /\ release = "sent"
  /\ \/ /\ release' = "done" /\ row' = Released(row, Me)
        /\ UNCHANGED <<stream, lockHeld, starter, pipeline, life, quiet, failed>>
     \/ /\ release' = "none" /\ row' \in {row, Released(row, Me)}
        /\ \/ life = "stopping" /\ ProcessExit
           \/ life # "stopping" /\ UNCHANGED <<stream, lockHeld, starter, pipeline, life,
                                                quiet, failed>>
  /\ UNCHANGED <<acquire, refresh>>

ReleaseReturns ==
  /\ release = "done" /\ life # "exited"
  /\ release' = "none" /\ lockHeld' = FALSE
  /\ StopPipeline
  /\ UNCHANGED <<stream, acquire, refresh, starter, life, quiet, failed, row>>

-----------------------------------------------------------------------------
\* runStartForPort after the credentials: FIFO and child, or an early return.
CredentialsResolve ==
  /\ pending = "creds" /\ life # "exited"
  /\ \/ \E p \in Procs :
          /\ procs[p] = "none"
          /\ procs' = [procs EXCEPT ![p] = "booting"]
          /\ startProc' = p /\ pending' = "fifo" /\ UNCHANGED startData
     \/ pending' = "none" /\ startData' = FALSE /\ UNCHANGED <<procs, startProc>>
  /\ UNCHANGED <<stream, lockHeld, calls, starter, entry, fed, dropped, restart, life,
                 quiet, failed, row>>

StartEnds == pending' = "none" /\ startData' = FALSE /\ startProc' = NoProc

\* The child opened the FIFO and took the initial data: it is registered.  An exit
\* before this is not heard, and the entry then stands for a dead child.
FifoOpens ==
  /\ pending = "fifo" /\ life # "exited"
  /\ startProc # NoProc /\ procs[startProc] = "booting"
  /\ StartEnds /\ entry' = startProc
  /\ \/ /\ procs' = [procs EXCEPT ![startProc] = "running"]
        /\ fed' = IF startData THEN fed \cup {startProc} ELSE fed
     \/ /\ procs' = [procs EXCEPT ![startProc] = "dead"]
        /\ UNCHANGED fed
  /\ UNCHANGED <<stream, lockHeld, calls, starter, dropped, restart, life, quiet,
                 failed, row>>

\* The FIFO cannot be opened: the start is rejected, and a child it has spawned is left
\* to itself.
FifoFails ==
  /\ pending = "fifo" /\ life # "exited"
  /\ StartEnds
  /\ dropped' = dropped \cup ({startProc} \ {NoProc})
  /\ UNCHANGED <<stream, lockHeld, calls, starter, entry, procs, fed, restart, life,
                 quiet, failed, row>>

\* The child opened the FIFO but did not take all of the initial data: the start is
\* rejected, and the error the stream emits once it is closed, which nobody listens to,
\* ends the process.
FirstWriteFails ==
  /\ pending = "fifo" /\ life # "exited"
  /\ startData /\ startProc # NoProc /\ procs[startProc] = "booting"
  /\ ProcessEnds({startProc})
  /\ UNCHANGED <<calls, row>>

\* Nor does anybody listen to the error of a spawn that failed.
SpawnFails ==
  /\ pending = "creds" /\ life # "exited"
  /\ ProcessExit
  /\ UNCHANGED <<calls, row>>

\* A child exits before anybody listens: the FIFO it has not opened is waited for
\* for good.
ExitsUnheard(p) ==
  /\ procs[p] = "booting"
  /\ procs' = [procs EXCEPT ![p] = "none"]
  /\ startProc' = IF p = startProc THEN NoProc ELSE startProc
  /\ fed' = fed \ {p} /\ dropped' = dropped \ {p}
  /\ UNCHANGED <<stream, lockHeld, calls, starter, pending, startData, entry, restart,
                 life, quiet, failed, row>>

\* A child exits: after its input was closed (or the SIGTERM 15 s later), or on its
\* own.  Whichever child it was, a registered pipeline is taken for the one that
\* exited and loses its entry; an active stream then gets a restart.
ProcExits(p) ==
  /\ procs[p] \in {"running", "ended"}
  /\ procs' = [q \in Procs |-> IF q = p \/ (q = entry /\ procs[q] = "dead")
                                 THEN "none" ELSE procs[q]]
  /\ dropped' = (dropped \cup {q \in Procs : q = entry /\ procs[q] = "running"}) \ {p}
  /\ fed' = fed \ {p}
  /\ entry' = NoProc
  /\ restart' = (restart \/ (entry # NoProc /\ status = "active" /\ life # "exited"))
  /\ UNCHANGED <<stream, lockHeld, calls, starter, start, life, quiet, failed, row>>

\* The restart timer: it asks neither for the lock nor for the stream's state.
RestartFires ==
  /\ restart /\ life # "exited"
  /\ restart' = FALSE
  /\ StartPipeline(FALSE)
  /\ UNCHANGED <<stream, lockHeld, calls, starter, children, life, quiet, failed, row>>

-----------------------------------------------------------------------------
\* shutdown(), to its first await: sockets, timers, buffers.
ShutDown ==
  /\ life = "up"
  /\ life' = "closing" /\ quiet' = TRUE /\ timer' = FALSE /\ buffered' = 0
  /\ UNCHANGED <<status, lockHeld, calls, starter, pipeline, failed, row>>

\* Once the SRTP transport is down: release, then stop.
ShutDownReleases ==
  /\ life = "closing" /\ release = "none"
  /\ life' = "stopping"
  /\ IF lockHeld THEN release' = "sent" /\ UNCHANGED pipeline
                 ELSE UNCHANGED release /\ StopPipeline
  /\ UNCHANGED <<stream, lockHeld, acquire, refresh, starter, quiet, failed, row>>

\* The end of shutdown(): stopAll waited for the children, or for 15 s.
ServiceExits ==
  /\ life = "stopping" /\ release = "none"
  /\ ProcessExit
  /\ UNCHANGED <<calls, row>>

RowStep(newRow) ==
  /\ row' = newRow
  /\ UNCHANGED <<stream, lockHeld, calls, starter, pipeline, life, quiet, failed>>

RivalAcquires ==
  \E r \in Rivals : row.owner # r /\ CanAcquire(row, r) /\ RowStep(Acquired(r))

RivalReleases == \E r \in Rivals : row.owner = r /\ RowStep(Released(row, r))

\* Five minutes without a refresh.  While our timer is armed there was a packet in
\* the last minute, and a lock we hold was refreshed unless the last write failed.
LeaseGoesStale ==
  /\ row.owner # NoOwner /\ ~row.stale
  /\ row.owner = Me /\ life # "exited" =>
       acquire = "none" /\ ~(lockHeld /\ timer /\ failed # "refresh")
  /\ RowStep([row EXCEPT !.stale = TRUE])

CleanupRemoves == CanClean(row) /\ RowStep(Cleaned(row))

TrafficEnds ==
  /\ ~quiet /\ quiet' = TRUE
  /\ UNCHANGED <<stream, lockHeld, calls, starter, pipeline, life, failed, row>>

Next ==
  \/ PacketBuffered \/ PacketFillsBuffer \/ PacketPasses
  \/ AcquireApplied \/ AcquireReturns \/ StarterContinues
  \/ RefreshApplied \/ RefreshReturns \/ RefreshReturnsLost
  \/ InactivityFires \/ ReleaseApplied \/ ReleaseReturns
  \/ CredentialsResolve \/ FifoOpens \/ FifoFails \/ FirstWriteFails \/ SpawnFails
  \/ \E p \in Procs : ExitsUnheard(p) \/ ProcExits(p)
  \/ RestartFires
  \/ ShutDown \/ ShutDownReleases \/ ServiceExits
  \/ RivalAcquires \/ RivalReleases \/ LeaseGoesStale \/ CleanupRemoves \/ TrafficEnds

Spec == Init /\ [][Next]_vars

\* Fairness: packets come until they are over, DynamoDB answers or fails, timers fire,
\* time passes, and the lambda runs on its schedule.
FairSpec ==
  /\ Spec
  /\ WF_vars(PacketBuffered \/ PacketFillsBuffer)
  /\ WF_vars(AcquireApplied \/ AcquireReturns)
  /\ WF_vars(RefreshApplied \/ RefreshReturns \/ RefreshReturnsLost)
  /\ WF_vars(ReleaseApplied \/ ReleaseReturns)
  /\ WF_vars(InactivityFires) /\ WF_vars(LeaseGoesStale) /\ WF_vars(CleanupRemoves)

-----------------------------------------------------------------------------
\* One pipeline per port, as far as pendingStarts and activePipelines can tell:
\* however acquisitions, restart timers, stops and failing starts race, a second child
\* comes to life only beside one that was dropped from the map by another's exit or by
\* a rejected start ("Concurrent calls for the same port are deduped",
\* KinesisIngestionPipeline.ts start).
OnePipeline ==
  Cardinality({p \in Procs : procs[p] \in {"booting", "running"}} \ dropped) <= 1

\* The lock is not left behind: while the service runs, the row names it only if it
\* knows, so that it will release the lock some day; after a release that threw it
\* still knows.  Only an acquisition that threw may have taken effect unnoticed, and
\* even that only until the next one succeeds.
NoLockLeftBehind ==
  life = "up" /\ failed # "acquire" /\ row.owner = Me => lockHeld \/ acquire = "won"

\* Once traffic has ended, the port does not stay ours, through failed releases,
\* stuck starts and a service that exits with the lock (the lambda "Frees the
\* Kinesis lock so another instance can acquire").
IdlePortIsFreed == <>quiet => <>[](row.owner # Me)

\* A port that was refused is asked for again: not while its stream stays active, but
\* after every pause, if the packets that follow it fill a buffer without another
\* (onPacket, isResume), and whatever became of an earlier start of its pipeline.
AsksAgain ==
  <>[][buffered > 0 => timer']_vars => (acquire = "refused" ~> acquire = "sent" \/ quiet)

\* "Only the instance that holds the lock may send video data to Kinesis"
\* (StreamMetadataService.ts:131-132): a port whose lease is live leaves our name
\* only when no child of ours has data it may still send, and no child is given data
\* while kinesisLockHeldForPorts does not have the port.
OnlyHolderSends ==
  [][ /\ row.owner = Me /\ ~row.stale /\ row'.owner # Me => fed' = {}
      /\ fed' \subseteq fed \/ lockHeld ]_vars

\* "One GStreamer process per active port" (KinesisIngestionPipeline.ts:59): no
\* second child ever sends beside one that serves the port.
OneProcessPerPort == Cardinality({p \in Procs : procs[p] = "running"}) <= 1

=============================================================================
