# TLA+ verification of the video ingestion service

This directory specifies and checks the parts of the ingestion service in
`src/backend` (and of the two lambdas beside it) that decide **who writes to a
port's Kinesis stream**, **which packets are ever accepted again**, and **whether
a port comes back** after something goes wrong. Modules are model-checked with
TLC on small instances, and nearly all of their safety properties are proved
with TLAPS for every value of the constants. `PROJECT.json` is the index: parts,
runs, mutants, the map from definitions to source lines, hazards and theorems.

Run a check with `tlc -config X.cfg M` and a proof with `tlapm MProofs.tla`, in
this directory.

## 1. The system

The service runs on several EC2 instances. Each binds every port of a range and
ingests video sent there over UDP; for each port one instance at a time forwards
it to one Kinesis Video stream. DynamoDB holds one row per port.

| Part | State it keeps | Operations | Talks to |
|---|---|---|---|
| Port row, lock half (`StreamMetadataService`) | owner, status, time of the last packet | tryAcquireKinesisLock, releaseKinesisLock, updateLastPacketTime: conditional updates | every instance, the lambda |
| Port row, floor half (`StreamMetadataService`) | replay index, key identity and generation, reset epoch | getSrtpIndexFloor, getSrtpFloorEpoch, raiseSrtpIndexFloor, resetSrtpIndexFloor | supervisors, reset API |
| Inactivity-cleanup lambda | none | scan, then one conditional REMOVE per stale row | row |
| SRTP port supervisor | state, lock flag, child, retry time, epochs, carried search position | queued steps for frames, exits, ticks, resets, shutdown | helper (stdin/stdout/signals), row |
| SRTP helper (`srtp_port.py`) | mode, stop in progress and its timers, authentication counters, admission floor, search | commands start and stop, tick, bus messages, signals, packets | supervisor; kvssink |
| Search for the rollover counter (`Search`) | floor base, far and near climb, re-sweep | next candidate, start over | helper; supervisor carries its position |
| Unencrypted path (`index.ts`, `StreamStateManager`, `KinesisIngestionPipeline`) | pre-start buffer, lock flags, stream states and timers, pipelines and pending starts | packet, inactivity, pipeline start/stop/exit/restart, shutdown | row, GStreamer child |
| Ending a child (`ChildProcessExit`) | listeners | SIGTERM, SIGKILL, wait for the exit | both supervisors of children |
| Helper protocol (`SrtpHelperProtocol`) | the unfinished line, whether it is over-long | push a chunk | supervisor |
| Traffic metrics | bytes per transport since the last publish, serving flags, chain of publishes | recordReceived, setServing, publish, stop | CloudWatch |
| Service (`index.ts`), UDP listener, transport, reset API, health server | sockets, supervisors, keys, what start() has brought up | start, bind with retries, shutdown on a signal, resetFloor | all of the above |
| Key store, provisioning script | keys and their generation | load at start, overwrite | SSM, transport |

What is hard in it:

* **Two processes that describe each other through pipes.** The supervisor acts on
  frames about a state the helper may have left; commands and frames cross.
* **A lease, not a mutex.** The row can go to another instance while a writer is
  paused, while a write fails, or while the release is still being applied.
* **Reads that do not happen together.** A session start reads the reset epoch and
  the floor in two calls; a reset may land between them.
* **Late, lost and repeated reports** from replaced sessions of several instances,
  some of which run an older key.
* **Crashes, wedged main loops, timers of an earlier stop, exits of an earlier
  child** attributed to a later one.
* **Node's awaits.** Every `await` in the packet handler lets other packets, the
  inactivity timer, the exit of a child or a shutdown run in between.
* **Two threads over one set of counters.** GStreamer's streaming thread asks for a
  key, authenticates and counts; the main loop's tick judges the trial, steps on and
  removes the key. libsrtp decides in between, by an estimate both must share.
* **A process that may be told to stop twice, or before it is up**, whose parts feed
  each other until the last of them is down.

What makes each part correct: nobody writes without the lock; the lock is not
taken from a live lease; there is one helper, and one GStreamer, per port; a
terminated port holds nothing; the fences of the floor never go back, a reset is
neither undone nor missed, and what was persisted is refused; nothing below the
floor is tried and everything above it eventually is; a key that authenticated is
kept and a packet is accepted once; what a helper wrote is what its supervisor
handles, and ending a helper returns; every byte is reported; and, once faults
stop, the port serves or its row is free, and a shutdown ends.

## 2. Modules

| Module | Models | Used by |
|---|---|---|
| `StreamRow` | lock half of the row: each conditional update as `Can...` (its ConditionExpression) and its effect | the three below it |
| `SrtpHelper` | the helper process as far as production is concerned | `SrtpSupervisor` |
| `SrtpSupervisor` | the supervisor's queued steps | `PortOwnership` |
| `PortOwnership` | composition: helper, supervisor, row, rivals, lambda; specifications and properties | runs `ownership_*`, `late_auth_loss` |
| `ExclusiveWriter` | abstract: what a port promises the instances that compete for it | implemented by `PortOwnership` |
| `PortOwnershipProofs` | theorems about `PortOwnership`: types, lock and state, processes | `PortWriterProofs` |
| `PortWriterProofs` | theorems about `PortOwnership`: who writes, leases, the promise | |
| `FloorRow` | floor half of the row | `ReplayFloor` |
| `FloorRegister` | abstract: what the floor promises the sessions that read it | implemented by `ReplayFloor` |
| `ReplayFloor` | sessions of several instances, reports in flight, rotation, reset | `MCReplayFloor` |
| `MCReplayFloor` | the keys that the versions of the parameter carry in the small instances | runs `replay_floor`, `old_key_respawn` |
| `ReplayFloorProofs` | theorems about `ReplayFloor` | |
| `RocSearch` | class `Search` and the position carried across sessions | run `roc_search` |
| `RocSearchProofs` | theorems about `RocSearch` | |
| `KeyTrial` | the two threads of a helper over its counters, and libsrtp as they use it | run `key_trial` |
| `KeyTrialProofs` | theorems about `KeyTrial` | |
| `HelperChannel` | the supervisor's parser and the ends of its children | run `helper_channel` |
| `HelperChannelProofs` | theorems about `HelperChannel` | |
| `TrafficMetrics` | counters and chain of publishes | `Service` |
| `Service` | the process: start(), shutdown(), UDP listener, transport, composed with the metrics | run `service` |
| `ServiceProofs` | theorems about `Service` and `TrafficMetrics` | |
| `UnencryptedPort` | packet handler, stream state, GStreamer pipeline, row | runs `unencrypted_port`, `release_before_stop`, `second_pipeline` |
| `UnencryptedPortProofs` | theorems about `UnencryptedPort` | |

A definition called "Mutant of X" in its comment is a plausible bug of X. It is
not part of the model; substituting it for X must make one property fail.

### StreamRow

Timestamps are reduced to one bit: `stale` says that the last packet is older
than the five minutes which both the acquisition and the lambda compare with.
`active` is the status attribute, which the lambda's condition tests and the
release clears. Every write is atomic because it is one conditional UpdateItem.
The scan of the lambda only proposes rows; the condition is evaluated again at
the write, so `CleanupRemoves` is enabled by the row as it is then.

### SrtpHelper, SrtpSupervisor, PortOwnership

`proc`, `mode`, `stopping`, `shuttingDown`, `confirmed` are the helper's own
fields. `timers` counts armed GLib timeouts that will call `_finish_stop`: they
are never cancelled, so more than one may be pending. `lastAuth` and `keyAuth`
abstract the authentication counters to what the tick tells apart. `wedged` is
the fault the stall timeout exists for: a main loop that runs no more. `stdin`
and `stdout` are the pipes, as sequences of commands and frames. A command stays
in `stdin` until the GLib loop reads it, a frame in `stdout` until Node's queue
comes to it; both are in order.

In the supervisor an action is a queued step. `pc` says where a step waits in the
middle (for a child's exit, for the acknowledgement of a stop at shutdown, between
the end of one session and the spawn of the next); while it is not `"idle"` no
other event is handled, as `enqueue` guarantees, but the helper, the row and the
rivals go on. `helperUp` is `this.helper !== undefined`.

A DynamoDB call of the supervisor takes effect inside its step. Nothing of the
supervisor can come between sending and answer, because the queue is blocked, and
of the row only the moment of the conditional update matters.

The environment: packets authenticate or cease (`silence`), a flush takes longer
than the auth-loss window (`slowFlush`), the pipeline reports an error
(`pipelineError`), calls to DynamoDB fail with or without effect
(`leaseFailure`), processes crash or wedge (`crash`), the floor is reset
(`floorReset`). `faults` holds the kinds a behaviour allows, one of `FaultSets`;
`CalmDown` ends them all, for liveness.

`ExclusiveWriter` says what this comes to for the other instances: a row that is
taken only when it is free or stale, and a writer that begins and ends within its
lease, undisturbed, as long as leases are kept. The refinement maps its four
variables to the owner and the staleness of the row, to "kvssink is attached" and to
the fault set; supervisor, frames and timers are not seen.

### FloorRow, ReplayFloor

The identity of a key (SSRC and fingerprint) is one value, `KeyOf[g]` for the
generation `g` (the version of the SSM parameter). Two versions may carry one key: the
provisioning script takes whatever key it is given, and `SrtpKeyStore.ts:57-62` expects
the identical one to be provisioned again. A session of an instance goes
through `down`, `epochRead`, `up`; those are the two reads of `spawnSession` in
their order. `writes` holds the `raiseSrtpIndexFloor` calls in flight as a set:
they are applied in any order, or lost, at any later time, also after the session
is gone. Accepting an index above the admission floor, reporting the highest,
rebuilding the helper's session in place, ending it, rotating the key, restarting
the service and resetting the floor are actions. `reached`, `earned`,
`floorEpoch` and `due` are history that no guard reads. `reached` is the highest index
persisted by each version of the key since the last reset. `due` is what a session had to
refuse when it read its floor (`Owed`): what was persisted by the version the row
belongs to, if that carries the session's key, and otherwise by the session's own. A
report carries the `due` of its session.

`FloorRegister` says what the conditional writes come to: a register that goes up in the
order of (reset epoch, key generation, index), whose index was set by a reset or accepted
since (`accepted`, implemented by `earned`). It knows no sessions, no reports in flight
and no conditions.

### RocSearch

The fields of `Search` keep their names. `Offer` and the actions around it are
`__next__`: the floor again after every `FloorEvery` candidates, then the window
above it (`resweep`), otherwise the near and the far climb in turn. `Rebuild` and
`Spawn` are the two ways a search starts over, in the same helper and in a new
one; `carried`, `carry`, `sessionBase` and `report` follow the position of the far
climb through the helper, the `auth fail` frame and the supervisor. `recent` is
history.

### UnencryptedPort

One port on one instance. An action is the code between two awaits. A DynamoDB
call is sent, applied at the row, and answered, in three steps. A pipeline start
is credentials, spawn, FIFO. `fed` names the children that were given video data
and have not exited: kvssink may send what they hold. `life` follows `shutdown()`, and
`ProcessExit` clears everything that was only in the process's memory.

A child is `booting` until the start that spawned it has opened the FIFO and written the
initial data; its exit listener is attached only then, so an exit before it is not heard
(`ExitsUnheard`), and a child that dies between the two is registered `dead`. It is
`running` while registered or dropped, and `ended` once its input is closed. `stop()`
takes it out of the map first and then waits up to 15 s, and `start()` does not wait for
`stop()`, so an ended child may drain beside its successor. `ProcExits` is faithful to
the exit listener, which looks at the map of pipelines and not at which child exited.
`dropped` is history: children that live outside the map although nobody stopped them,
because another child's exit took their entry, because their start was rejected, or
because they wait for a FIFO whose opener has exited.

A start fails in each way the code has: without credentials it returns; the FIFO cannot
be opened (`FifoFails`); the first write fails, which rejects the start and leaves the
stream's own `error` without a listener (`FirstWriteFails`); the spawn fails, whose
`error` has no listener either (`SpawnFails`). The last two end the process, in the
model in the same step; Node emits that of a spawn on its next tick, that of
a write once the descriptor is closed. The packets that wait for one pending start count as one.

### KeyTrial

A packet is its true index. libsrtp (external) estimates an index from its own
highest one and authenticates the packet iff the estimate is right and it has not
seen it under the stream it holds; `lib` is that stream. The streaming thread goes
through input probe, key request, verdict and record; the tick through its look at
the counters, the judgement of the trial, the step, `remove-key` and the new trial.
A section under the counters lock is one action. srtpdec's own lock is held from the
key request to the verdict, and `remove-key` needs it. Every rebuild of the pipeline
waits for the streaming thread; only an auth loss while searching resets the session
in place, with the thread running (`LostInPlace`, `WipeInPlace`). `blind` and `raced`
mark the two windows in which the guarantees do not hold (see 6).

### HelperChannel

A line is a run of characters that know the line they belong to and their place in
it, so a parsed line can be compared with what was written, whatever it was mixed
with. A chunk is any prefix of a session's pipe, and the pipe of a dead child is read
on. `push` is modelled by the places of the newlines in the buffer with the chunk
appended: `Raw` is what the loop cuts out for one of them, `Accepts` says that it is
parsed, `Frames` is what comes out, `Kept` and `StillOverlong` are what the loop and the
closing check leave in the two fields. `late` and `lost` are history. `child` is what
Node shows of the process; a failed spawn is reported by `error` alone, and an
`error` may also come up on a child that lives. `pc` is where `endChildProcess`
waits. The supervisor never passes `drainMs`; the drain is the closed input of
`UnencryptedPort`.

### TrafficMetrics, Service

`received`, `serving`, `timer` are the fields; `queued` and `sample` are the chain:
publishes that have not begun, and the snapshot of the one that awaits its answer. A
request fails without effect, or with effect and a lost answer (`doubled`). In
`Service` an action is the code of `start()` or of one `shutdown()` between two
awaits; `down[i]` is what the i-th `shutdown()` awaits. A supervisor is reduced to
the states the transport reacts to. `load` is a bound: either traffic with one signal
once the service is up, or two signals at any time and no traffic.

## 3. Runs

Twelve runs; eight must pass. The states are those TLC found.

| Run | Question | Distinct states |
|---|---|---|
| `ownership_safety` | Three fault sets that hold every kind of fault between them. Under all: does the lock match the state, is there one helper at a time, is a rival's live lease left alone, does a shut-down port hold nothing? Where leases are kept: is `ExclusiveWriter` implemented (`ImplementsPromise`), so that only the row's owner writes? Where helpers stop only when told: does a writer hold the lock although lease writes fail (`OrderlyWriterHoldsLock`)? | 904,000 |
| `ownership_recovery` | Once pauses, slow flushes and lease failures, or pauses, crashes, resets and pipeline errors stop: does the port serve (`EventuallyServes`), does a shutdown end (`ShutdownFinishes`), does a writer that lost its row stop (`LostWriterStops`)? | 287,000 |
| `late_auth_loss` | Violated, see 6.1 | |
| `replay_floor` | Is `FloorRegister` implemented (`ImplementsRegister`), so that neither epoch nor generation goes back, does the floor of a key fall between resets only through an accepted index of a newer version of it (`FloorOnlyRises`), does a reset stand and reach every session, and is refused what was persisted (`PersistedIsRefused`)? One key in two versions, then another. | 1,193,000 |
| `old_key_respawn` | Violated, see 6.2 | |
| `roc_search` | Does the search stay between the floor and the top, do the likely counters keep coming round, and does every counter get its turn? | 44,000 |
| `unencrypted_port` | Is the pre-start buffer bounded, does a second GStreamer live only beside one that was dropped from the map (`OnePipeline`), is no lock left behind? Is an idle port freed (`IdlePortIsFreed`), and is a port that was refused asked for again after a pause (`AsksAgain`)? | 509,000 |
| `release_before_stop` | Violated, see 6.3 | |
| `second_pipeline` | Violated, see 6.4 | |
| `key_trial` | Does the tracker agree with libsrtp (`TrackerAgrees`), is a key that authenticated kept (`RightKeyKept`), is what `auth ok` reports authentic, is a packet accepted once? | 2,813,000 |
| `helper_channel` | Does the parser hand over exactly the lines of the running session (`FramesExact`), what does a late chunk cost, is there one child at a time, does ending a child return? | 572,000 |
| `service` | Is every byte accounted for (`BytesConserved`), does serving not flap, does a shutdown end, and does an orderly exit leave nothing behind and nothing unreported? | 1,008,000 |

What `ownership_safety` says of writers is said of its first two fault sets only
(`LeasesKept`, `StopsOnlyWhenTold`): with pauses (`silence`), or with slow flushes and
lease failures together, `WriterHoldsLock` does not hold: `late_auth_loss` shows the first,
and the same run with `{"slowFlush", "leaseFailure"}` for its fault set the second (6.1).

### Bounds and why they are enough

* **Two instances.** The conditions on the row compare an owner with oneself; a
  third instance behaves to both as the second does.
* **`MaxFrames` 3 (2 for liveness), `MaxCommands` 1, `MaxTimers` 2 (1 for
  liveness).** The stdout pipe holds three unread frames: enough for a report to cross a command
  and for a second report behind it, which is what the races need. A command is
  read by the same loop that ticks, so a tick finds at most one unread. Two stop
  timers are the case in which an old one finishes a later stop.
* **Three generations, indexes up to 1, one reset, one report in flight.** Both a
  version of the same key and one of another follow the first, and one reset is what the
  fence distinguishes. Index 0 and 1 give a lower and a higher report, and no floor is
  below both. A session may report at any later time, so that a lower report of one still
  arrives after a higher one of another, after a rotation or a reset; that two are in
  flight at once adds nothing the table could see. The proofs cover any number.
* **`RocMax` 6, `Window` 2, `FloorEvery` 3.** The counter space has room for
  the floor, the window, a near part, a far part and its wrap-around, at any
  position of the floor, the last one included.
* **`MinTrials` 4.** A session must reach one far step: the floor, the window
  (two) and one more. With a shorter session no far step is ever taken and the
  far climb cannot progress; so the source's sessions must last that long, which
  the respawn interval gives them.
* **`Threshold` 3, two child names.** The pre-start buffer has
  a first, a middle and a last packet. The names of children are reused after their
  exit. A start that finds no free name waits for one; two are a
  child that drains and its successor, and the two children of `OnePipeline`. Neither
  liveness property waits for one to start. In the violated runs the threshold is 2.
* **`SeqMod` 4, indexes up to 8, gaps and delays of 1, a floor of 2.** Three rollover
  counters and two wraps, a late packet and a gap on either side of each, a floor in
  the middle of a counter. Half the sequence space (2) exceeds gap and delay, which
  is what RFC 3711 assumes of 2^15.
* **A line limit of 2, lines of 2 and 4, two sessions, three lines.** A line that just
  fits and one that is cut off twice; a session, its successor, and enough lines for
  one before, in and after a late chunk. Lines and `error` events are not combined
  (`chatty`): neither reads the other's state.
* **Two SRTP ports, two UDP ports, one retry, two signals, two bytes per transport,
  one lost answer, one publish queued by the timer.** One port may have given up while
  the other restarts; a second byte arrives while the first is in flight or restored.
  The deadlock check is off in `service` and `helper_channel`: a process exits, and the
  bounds end the other.

### Fairness and why the code justifies it

* Weak fairness of every helper step that GLib's main loop runs, unless the loop
  is wedged, and of every step of Node's queue: neither starves an event.
* Strong fairness of `FrameStatsRetry` and `FrameStatsRefresh` only: heartbeats
  keep coming, and the throttle and the retry interval have passed for infinitely
  many of them, though not for each one.
* Timeouts fire (weak fairness). In calm times they fire only for a wedged helper
  (`Overdue`): they are many times the helper's own timers, so a live helper has
  answered before.
* `CalmDown` is fair in the recovery runs: faults do not go on for ever, and a
  rival without traffic gives the lock up. Without this no system serves.
* `replay_floor`: only the tick that compares epochs, and the read of a started
  session, are fair; nothing is assumed of reports.
* `roc_search`: the tick advances the search and frames are handled. The property
  itself states the rest as its hypothesis: from some point on the floor stays put
  and sessions are unhurried.
* `unencrypted_port`: packets come until they are over, DynamoDB answers or fails, timers fire, five minutes
  pass, the lambda runs. Nothing is assumed of GStreamer or of credentials. It is a
  modelling assumption that a DynamoDB call ends before the inactivity timeout of
  a minute; a pipeline start may take longer. `AsksAgain` states the rest as its
  hypothesis: from some point on no pause empties the buffer while it fills. Its name for a pause is the inactivity timer: a port that was refused drops
  the packets of its stream until that fires.
* `helper_channel`: what is due on the event loop happens, a failed spawn is reported,
  and SIGKILL kills. Nothing is assumed of SIGTERM.
* `service`: awaited calls return, the CloudWatch client answers or fails, and a
  supervisor's stop() ends, which is `ShutdownFinishes` of `ownership_recovery`.
  Nothing is assumed of start(), of helpers or of further signals.
* `key_trial` has no liveness property and no fairness.

## 4. What is proved

TLAPS checks the following for every set of instances, every set of faults and
every bound. The proofs use the named assumptions of the modules (types of the
constants; `NoOwner` and `NoKey` are no instance and no key) and nothing else. In each module the invariant named here was checked
with TLC on the run's instance before it was proved.

**PortOwnershipProofs.** `SpecTypeOK`; `SpecLockMatchesState`;
`SpecTerminatedHoldsNothing`; `SpecOneHelperAtATime`. The type invariant is split
into names, flags and pipes (`NamesOK`, `FlagsOK`, `PipesOK`) because the provers
treat Boolean variables, sequences and enumerations differently; one lemma per
actor and part. Neither of the other three is inductive: that the lock matches the
state needs to know what state each wait of a step belongs to, and that a live
child exists exactly where the supervisor has one. `ControlInv` says that, and
`SupervisorInv` is `ControlInv` with `LockMatchesState`. It is preserved by
each group of steps (helper, spawn, frame, end, shutdown), one lemma each.

**PortWriterProofs.** `SpecOrderlyWriterHoldsLock`, `SpecLiveLeaseIsSafe`,
`SpecImplementsPromise` (the refinement of `ExclusiveWriter`: initial states and every
step). The argument is about what is in the pipes. A production goes through stages
(`Unasked`, `Asked`, `Producing`, `Told`, `Flushing`, `Acknowledged`) in which exactly
one of the command, the attached kvssink and the acknowledgement exists; `Phase` says
that the supervisor's state and the stage fit, and `Steady` that the watchdog has
nothing to report. Together with `SignalInv`, `BootInv` and `LeaseInv` (a kept lease is
ours and fresh while we hold the lock) this is `ProductionInv`. It is exactly where
`Phase` breaks, with pauses or with slow flushes and failing lease writes together,
that the two traces of 6.1 find their violations.

**ReplayFloorProofs.** `SpecTypeOK`; `SpecResetStands`;
`SpecCurrentEpochCurrentFloor`; `SpecImplementsRegister` (the refinement of
`FloorRegister`: initial states and every step); `SpecFloorOnlyRises` and
`SpecPersistedIsRefused`. All of them hold whichever versions of the parameter carry the
same key. The argument of the reset
theorems is `ResetInv`: no session and no report carries an epoch later than the
row's (`EpochsOrdered`), and what a session or report of the current epoch carries
was earned in it (`CarriedIsEarned`); the epoch being read before the floor is what
keeps both. The refinement needs all of it: a report that passes the epoch fence is of
the present epoch, so its index was earned in it, and the row has an index exactly when
it has a generation (`RowCoherent`), so that the alternatives of the condition order
generation and index together.
The persistence theorems rest on `RowIsHighest`, which is said of versions and not of
keys: the row is at or above everything its own version has persisted, and no newer
version has persisted anything. So a session that reads its floor under the row's key gets at
least what it owes, and its own reports are above that (`CarriedIsNew`). Of keys the same
would not hold: see 6 on `FloorOnlyRises`.

**RocSearchProofs.** `SpecTypeOK`, `SpecNothingBelowFloor`, `SpecClimbsAboveFloor`.
The three are one inductive invariant, `SearchInv`: that the next candidate is in
range follows from the climbs being above the floor, and the other way round.
`SpecLikelyCountersReturn` needs to know when each of the likely counters was offered
last: `RecentInv` gives every element of the history its place in the cycle of floor,
swept window and climb (`Place`), counted back from `sinceFloor` and `resweep`, and says
what is offered at the places of the window (`AtPlace`). A history of a full cycle then
holds every such place once. `NextPlaceStep` and `FloorPlaceStep` advance it by an
offer of the cycle and by the floor, `StartRecent` starts it over in a new session.

**UnencryptedPortProofs.** `SpecTypeOK`; `SpecOnePipeline`; `SpecNoLockLeftBehind`.
`PipelineInv`: a start is pending only while no pipeline is registered, and but for the
children that were dropped from the map, the one that boots is that start's and the one
that runs is the registered one. Nothing is said of children that drain, so they may do
so beside any successor; what their exits do to it is in `dropped`.
`TenureInv`, within `LockInv`: the calls of two tenures do not overlap,
because a stream asks for the lock only after an inactive spell and that waits for the
calls in flight.

**KeyTrialProofs.** `SpecTypeOK`, `SpecTrackerAgrees`, `SpecRightKeyKept`,
`SpecReportedIsAuthentic`, `SpecAcceptedOnce`, for every even size of the sequence space,
every number of packets and every pattern of loss and lateness. First the arithmetic of
an index (`Split`, `Join`) and of the estimate (`EstimateType`: it stays within the
counters at both ends; `EstimateSelf`: it is exact for the local index itself, which is
how the first packet of a stream is estimated). Then `TrialInv`: tracker and stream are
`InStep`; between verdict and record libsrtp is `OneAhead`, by a packet the tracker is
going to estimate as libsrtp did; every counter the tracker comes to was seen
(`SeedIsSeen`, `RocIsSeen`); and what was accepted is `Refused`: it is in libsrtp's
window or at or below the floor, and at or below the floor wherever the window has
gone, is about to go, or has no credit. That the estimate agrees is no assumption
about gaps or lateness: tracker and libsrtp start from one index and use one rule.

**HelperChannelProofs.** `SpecOneChildAtATime`, with `ChildInv`: a child that lives is
the running session's or the one being ended that the watch has not seen go, and what
the watch and the queue believe of a child is so. `SpecTypeOK`, `SpecFramesExact` and
`SpecLateChunkCostsOneLine`, for any number of sessions and lines, lines of any length
and any chunking, with `ParserInv`:

* What a helper writes, and what is left of it in a pipe, is a run of lines (`Running`):
  a character is where its line says, and before the first character of a line stands a
  newline. Lines are appended (`Grows`) and read away (`Shrinks`) without changing that.
  So the newline before the end of a line is as far away as the line is long
  (`BeforeLine`), and what the loop cuts out is that line (`LineRead`).
* The parser is in step with a stream (`Synced`) when the buffer holds what was read of
  the line the stream goes on with, or else that line is over-long and the flag says so.
  In step, every line that ends in the next chunk is read right (`InStepReads`), which is
  `FramesExact`.
* A chunk of an earlier session may put it out of step. Then the next chunk of the
  running session misses at most the first line that ends in it (`OneMissed`), and after
  any newline, or if it was in step, the parser is in step (`Resync`). `LossOK` counts:
  `lost <= late`, and less while it is out of step.

With the flag set `Synced` says nothing about the buffer: the rest of an over-long line
goes on being collected, and dropped again, until its newline comes.

**ServiceProofs.** `SpecTypeOK`; `SpecBytesConserved`, from `BaselineInv` (the baseline
is the last frame handled, and a frame on its way lies between it and the helper's own
count) and `Account`, which is the property without its restriction to a running
process; `SpecNoFlapping`; `SpecExitHoldsNothing`, from `ShutdownInv`: what start() had
brought up when a shutdown() began, and what each of several overlapping shutdown()
calls has done by the time it awaits its next part (`StartInv`, `SocketInv`,
`SupervisorInv`, `PublishInv`). That nothing is unreported is the last of these: a
shutdown() whose publish is through left nothing to report (`Drained`), although the
other's publish may have begun before or after it.

Only model-checked:

* everything under fairness (`EventuallyServes`, `ShutdownFinishes`, `LostWriterStops`,
  `ResetReachesEveryone`, `EveryCounterReached`, `IdlePortIsFreed`, `AsksAgain`,
  `EndAlwaysReturns`, `ShutdownEnds`): liveness is out of the prover's reach. Every other property of the
  passing runs is a theorem, and so are the type invariants of `KeyTrial` and
  `ReplayFloor`, which no run states.

Not proved either is that the code of `push`, a loop over the lines, comes to what
`HelperChannel` says of it place by place: for chunks of any length that needs induction
over data, and the model has been written without a recursion for that reason. The loop,
written as a recursive operator, and the model were compared with TLC for every chunk in
every state of the run's instance, and agree on the frames and their order, the buffer and
the flag.

## 5. What is not modelled

* A helper that speaks another protocol version; the arithmetic of the retry
  backoff; the helper's exit when its stdin closes; its argument, environment and
  socket set-up.
* stdin of the helper is buffered above the descriptor that is watched
  (`srtp_port.py:776`): listed as a hazard.
* The packet order inside `writePacket`: its queue is emptied in the call that fills
  it, so there is nothing to reorder; back-pressure of the FIFO, log throttling,
  pipeline strings.
* The cache of the helpers' AWS credentials and the adapter around the child
  (`SrtpTransport.ts`): no decision depends on them but that a spawn may fail.
* HTTP and signature checks of the reset API and validation of key parameters: pure
  functions of one request or parameter, tested as such.
* A service without `STACK_NAME`, which publishes nothing.
* The restart-on-alarm lambda (one reboot per alarm, no state), `updateStreamStatus`
  and `createStreamMetadata` (no caller), `KinesisVideoSender` and `MetricsService` (not
  reachable from the entry point), infrastructure, senders and test tooling.

## 6. Where code and comments disagree

1. **`late_auth_loss`.** The supervisor releases the lock on `auth lost` in state
   producing, because `stopped` must have come first. A helper that has not yet
   executed `start` reports `auth lost` without it, and then starts to produce.
   Two other causes have the same effect, and can be seen with another fault set in
   `LateAuthLoss.cfg`. With `{"slowFlush", "leaseFailure"}`: the auth-loss branch of the
   helper's tick acknowledges a stop in progress and leaves the flag set; the timer
   acknowledges it again, and the second acknowledgement releases a lock acquired in the
   meantime. With `{"pipelineError", "leaseFailure"}`: a stop that reaches a helper
   already back in searching is still acknowledged, and the acknowledgement may arrive
   after the next acquisition.
2. **`old_key_respawn`.** A session of an instance that still runs the previous key
   after a rotation has no floor at all.
3. **`release_before_stop`.** The unencrypted path gives the lock up before it stops
   the pipeline that sends under it, in `onStreamStop` and in `shutdown`. And a stop that
   comes while a start waits for its credentials or its FIFO finds no pipeline to stop: the
   start goes on, writes the initial data and registers its child, without the lock. The
   first is the half of `OnlyHolderSends` about the row, the second the half about `fed`;
   checked alone, each half is violated.
4. **`second_pipeline`.** A stream that resumes while its stopped GStreamer still drains
   gets a new one; the exit of the old child is then taken for a crash of the new one,
   which is dropped from the map, runs on unsupervised, and is joined by a restarted one.

These have a run of their own. The other disagreements are in the exceptions the properties
of the passing runs make, or in the actions:

* `ReplayFloor`: the condition of `raiseSrtpIndexFloor` takes a newer version of the key
  parameter for another index space (`StreamMetadataService.ts:450-454`). If it carries the
  same key, a report of one of its sessions lowers the floor of that key when reports of
  the older version came in after the session read its floor. `FloorOnlyRises` bounds the
  damage: the report is above everything that was persisted when its session started.
  Without that exception it is violated in `replay_floor`.
* `UnencryptedPort`, `ExitsUnheard`: a GStreamer that dies before its FIFO is open is not
  restarted, since its exit has no listener yet (`index.ts:235` promises a restart). The
  start that opens the FIFO waits for good, and so does every later start of the port.
* `Service`, `early`: a signal before `start()` is through does not stop it. Helpers started
  after the shutdown passed the transport are left at exit, and sockets bound while others
  close are forgotten. `ExitHoldsNothing` leaves out a shutdown that began that early, and
  is violated without the exception.
* `KeyTrial`, `blind`: an auth loss while searching clears the tracker but keeps the
  pipeline, so srtpdec keeps its stream, and the next packet is judged against an index
  the tracker no longer has. `srtp_port.py:186-189` says the tracker "has to make the
  same decision about the same packet the authenticator makes". Without the exception
  `TrackerAgrees` fails. So does `ReportedIsAuthentic`, which the attempt to prove it
  showed: with `SeqMod` 6, `MaxIndex` 12, `Late` 2 and no floors, a late packet from
  before a wrap is the first one recorded after the reset and is taken for the current
  cycle; the next packet then moves the tracker, and with it the reported counter and
  the highest index, one cycle too far. If the stream wraps during the silence, the
  tracker stays one behind instead. The instance of `key_trial` is too small for this
  one; the exception in the property is needed all the same.
* `KeyTrial`, `raced`: a packet accepted between the step of the search and `remove-key`
  is forgotten by the replay window that goes with the stream, and the key is handed
  back; a copy of it is accepted again. The same holds for an in-place reset.
* The counter a handed-back key is seeded with is the one it had when first tried; if
  the stream has wrapped since, nothing authenticates until the auth loss.
* `_emit_stats` asks srtpdec for its drop count while it holds the counters lock; the
  comment in `_advance_search_if_tried` says why that order of the two locks could
  deadlock.
* `HelperChannel`: the parser says "One instance per child process"
  (`SrtpHelperProtocol.ts:329`), but the listener of a replaced session pushes into the
  current one (`SrtpPortSupervisor.ts:379`). A newline cut off from its line can complete
  a line of the successor, which is then handled as a frame of the replaced session and
  ignored. `LateChunkCostsOneLine` bounds the loss. And the other way round: a whole line
  of the replaced session that arrives without its newline, between a line of the running
  one and that line's newline, is completed by it and handed to the running session's
  handler as its own. An invariant that says a frame handed to the running session was
  written by it fails on the instance of `helper_channel`, after one late chunk.
* `Service`: the transitions of stopping supervisors set `serving` again after
  `SrtpTransport.stop()` cleared it, so the last publish reports a transport that serves.
* `UnencryptedPort`: a first write to the FIFO that fails, and a spawn that fails, end in an
  `error` event without a listener, so one port's GStreamer takes the whole service down
  (`FirstWriteFails`, `SpawnFails`). `IdlePortIsFreed` says that the lambda frees the row even so.
* `Service`: a second signal while the sockets close makes `close()` throw, and the
  process exits with 1 in the middle of the first shutdown.
* Two shutdowns at the end: the second `stopAll` finds no pipeline and exits the process
  while the first still waits for GStreamer's flush.

And one that needs no model: `onStreamStart` says it resumes a pipeline "after brief
inactivity", but a resumed stream emits `streamResume`, which nobody listens to.

## 7. Plan

Done: 1. row, helper, supervisor, their composition and the promise it implements;
2. replay floor; 3. rollover-counter search; 4. unencrypted path; 5. the trial of a key;
6. the helper's channel; 7. metrics and the service; theorems on all of them, which
state every safety property and every type invariant of the passing runs (section 4).

Left: the layer under `FloorOnlyRises` and `PersistedIsRefused`, a register for each
version of the key, which `FloorRegister` is not; and the properties under fairness, which
stay with TLC.
