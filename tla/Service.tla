-------------------------------- MODULE Service --------------------------------
(***************************************************************************)
(* The service process (index.ts) around its parts: start(), which binds   *)
(* the unencrypted ports and then brings up what is additive, shutdown(),  *)
(* which a signal begins and a second signal begins again, UDPListener,    *)
(* SrtpTransport and the traffic metrics they feed.                        *)
(*                                                                         *)
(* An action is the code between two awaits.  A supervisor is reduced to   *)
(* the states that SrtpTransport reacts to: "searching" stands for every   *)
(* state of a helper that came up (see SrtpSupervisor), and its stop() is  *)
(* known to end (PortOwnership).  The locks and pipelines of the           *)
(* unencrypted path, which shutdown() sees to last, are UnencryptedPort's. *)
(* A signal may come before start() is through, and start() goes on.       *)
(***************************************************************************)
EXTENDS TrafficMetrics

CONSTANTS LastPort,     \* the unencrypted ports are 1..LastPort
          MaxRetries,   \* bindPort's maxRetries
          SrtpPorts,
          Busy,         \* bound: the SRTP port that has traffic, which has a key if any has
          MaxSignals,   \* bound: signals the process gets
          MaxBytes      \* bound: bytes reported per transport

ASSUME ServiceAssumption ==
  /\ LastPort \in Nat /\ MaxRetries \in Nat /\ Busy \in SrtpPorts
  /\ MaxSignals \in Nat /\ MaxBytes \in Nat

UdpPorts == 1..LastPort
Shutdowns == 1..MaxSignals   \* one call of shutdown() per signal

VARIABLES
  start,      \* what start() awaits, or up
  binding,    \* the port being bound
  retries,    \* retryCount
  sock,       \* per unencrypted port: none, open, closing, closed, forgotten
  api,        \* the floor reset server listens
  transport,  \* srtpTransport !== undefined
  hasMetrics, \* trafficMetrics !== undefined
  sup,        \* per SRTP port: none, or its supervisor's state
  everReady,  \* portsEverReady
  told,       \* supervisors whose stop() was called
  input,      \* the busy port's helper: input_bytes ...
  frame,      \* ... the stats frame on its way, or -1 ...
  last,       \* ... and lastInputBytes, 0 when there is none
  down,       \* per shutdown(): none, or what it awaits
  ticket,     \* per shutdown(): publishes until its own is through
  exit,       \* no, or the exit code
  load,       \* bound: traffic, on one SRTP port and with one signal once the service
              \* is up; or signals at any time, and no publish but those they cause
  \* History, for stating properties only.
  early,      \* a signal came before start() was through
  seen,       \* input_bytes in the last stats frame handled of this helper
  total       \* bytes that were to be reported, per transport

udp == <<binding, retries, sock>>
srtp == <<sup, everReady, told, input, frame, last, seen>>
main == <<start, api, transport, hasMetrics, early, load>>
ends == <<down, ticket>>
vars == <<udp, srtp, main, ends, exit, total, metrics>>

Running == exit = "no"

-----------------------------------------------------------------------------
\* start(), to the listening health port.
StartCredentials ==
  /\ Running /\ start = "credentials"
  /\ \/ start' = "udp" /\ UNCHANGED exit
     \/ exit' = "1" /\ UNCHANGED start
  /\ UNCHANGED <<udp, srtp, api, transport, hasMetrics, early, load, ends, total, metrics>>

BindSucceeds ==
  /\ Running /\ start = "udp" /\ binding <= LastPort
  /\ sock' = [sock EXCEPT ![binding] = "open"]
  /\ binding' = binding + 1 /\ retries' = 0
  /\ UNCHANGED <<srtp, main, ends, exit, total, metrics>>

\* Mutant of BindFails: one retry too many.
BindFailsOnceMore ==
  /\ Running /\ start = "udp" /\ binding <= LastPort
  /\ \/ retries <= MaxRetries /\ retries' = retries + 1 /\ UNCHANGED exit
     \/ retries > MaxRetries /\ exit' = "1" /\ UNCHANGED retries
  /\ UNCHANGED <<binding, sock, srtp, main, ends, total, metrics>>

\* bindPort's error handler: a new socket after the backoff, or start() fails.
BindFails ==
  /\ Running /\ start = "udp" /\ binding <= LastPort
  /\ \/ retries < MaxRetries /\ retries' = retries + 1 /\ UNCHANGED exit
     \/ retries = MaxRetries /\ exit' = "1" /\ UNCHANGED retries
  /\ UNCHANGED <<binding, sock, srtp, main, ends, total, metrics>>

\* Every port is bound: the metrics start, and SRTP if it is configured.
StartMetrics ==
  /\ Running /\ start = "udp" /\ binding > LastPort
  /\ hasMetrics' = TRUE /\ timer' = TRUE /\ queued' = queued + 1
  /\ SetServing("unencrypted", TRUE)
  /\ \/ start' = "srtp" /\ transport' = TRUE
     \/ start' = "up" /\ UNCHANGED transport
  /\ UNCHANGED <<udp, srtp, api, early, load, ends, exit, total, received, sample, published>>

\* SrtpTransport.start: no credentials, no keys or an error leave it without a
\* supervisor; else every keyed port gets one.
StartSrtp ==
  /\ Running /\ start = "srtp"
  /\ \/ start' = "up" /\ UNCHANGED sup
     \/ /\ start' = "floorApi"
        /\ \E keyed \in SUBSET SrtpPorts :
             /\ Busy \in keyed /\ (load = "traffic" => keyed = {Busy})
             /\ sup' = [p \in SrtpPorts |-> IF p \in keyed THEN "idle" ELSE "none"]
  /\ SetServing("srtp", FALSE)
  /\ UNCHANGED <<udp, everReady, told, input, frame, last, seen, api, transport,
                 hasMetrics, early, load, ends, exit, total, received, timer, queued, sample,
                 published>>

\* The floor reset API listens, or cannot.
StartFloorApi ==
  /\ Running /\ start = "floorApi"
  /\ start' = "up" /\ api' \in BOOLEAN
  /\ UNCHANGED <<udp, srtp, transport, hasMetrics, early, load, ends, exit, total, metrics>>

-----------------------------------------------------------------------------
\* A datagram on an unencrypted port, and the listener start() added.
PacketReceived ==
  /\ Running /\ \E p \in UdpPorts : sock[p] = "open"
  /\ hasMetrics /\ load = "traffic" /\ total["unencrypted"] < MaxBytes
  /\ RecordReceived("unencrypted", 1)
  /\ total' = [total EXCEPT !["unencrypted"] = @ + 1]
  /\ UNCHANGED <<udp, srtp, main, ends, exit, serving, timer, queued, sample, published>>

\* Mutant of RecomputeServing: what is searching now decides.
RecomputeServingNow(s, ready) ==
  SetServing("srtp", \E p \in SrtpPorts : s[p] = "searching")

\* recomputeServing, with the supervisors' states and the ports ever ready.
RecomputeServing(s, ready) ==
  SetServing("srtp", ready # {} /\ \E p \in SrtpPorts : s[p] \notin {"none", "disabled"})

\* onTransition: the states follow, and the metric with them.
Transition(p, to) ==
  /\ sup' = [sup EXCEPT ![p] = to]
  /\ everReady' = IF to = "searching" THEN everReady \cup {p} ELSE everReady
  /\ RecomputeServing(sup', everReady')
  /\ UNCHANGED <<udp, told, main, ends, exit, received, timer, queued, sample, published>>

\* Mutant of HelperStarting: the dead helper's count stays the baseline.
HelperStartingKeepsBaseline(p) ==
  /\ Running /\ sup[p] \in {"idle", "cooldown"}
  /\ Transition(p, "starting")
  /\ IF p = Busy THEN input' = 0 /\ frame' = -1 /\ seen' = 0 /\ UNCHANGED last
                 ELSE UNCHANGED <<input, frame, last, seen>>
  /\ UNCHANGED total

\* A helper is spawned: it counts from zero, and the baseline goes.
HelperStarting(p) ==
  /\ Running /\ sup[p] \in {"idle", "cooldown"}
  /\ Transition(p, "starting")
  /\ IF p = Busy THEN input' = 0 /\ frame' = -1 /\ last' = 0 /\ seen' = 0
                 ELSE UNCHANGED <<input, frame, last, seen>>
  /\ UNCHANGED total

\* Any other transition; a frame of a helper that is gone does nothing.
HelperMoves(p) ==
  /\ Running
  /\ \/ sup[p] = "idle" /\ Transition(p, "cooldown")
     \/ sup[p] = "starting" /\ \E to \in {"searching", "cooldown", "disabled"} :
                                 Transition(p, to)
     \/ sup[p] = "searching" /\ \E to \in {"cooldown", "disabled"} : Transition(p, to)
  /\ frame' = IF p = Busy THEN -1 ELSE frame
  /\ UNCHANGED <<input, last, seen, total>>

\* The helper's socket takes a datagram.
HelperReceives ==
  /\ Running /\ sup[Busy] \in {"starting", "searching"} /\ load = "traffic"
  /\ total["srtp"] - seen + input < MaxBytes
  /\ input' = input + 1
  /\ UNCHANGED <<udp, sup, everReady, told, frame, last, seen, main, ends, exit,
                 total, metrics>>

HelperStats ==
  /\ Running /\ sup[Busy] = "searching" /\ frame = -1 /\ load = "traffic"
  /\ frame' = input
  /\ UNCHANGED <<udp, sup, everReady, told, input, last, seen, main, ends, exit,
                 total, metrics>>

\* onStats: the delta against the last sample of this helper.
OnStats ==
  /\ Running /\ sup[Busy] = "searching" /\ frame # -1
  /\ RecordReceived("srtp", IF frame >= last THEN frame - last ELSE frame)
  /\ last' = frame /\ frame' = -1
  /\ total' = [total EXCEPT !["srtp"] = @ + frame - seen] /\ seen' = frame
  /\ UNCHANGED <<udp, sup, everReady, told, input, main, ends, exit,
                 serving, timer, queued, sample, published>>

-----------------------------------------------------------------------------
\* SIGTERM or SIGINT: shutdown() begins with the health port.
Signal(i) ==
  /\ Running /\ down[i] = "none"
  /\ \A j \in 1..(i - 1) : down[j] # "none"
  /\ load = "traffic" => start = "up" /\ i = 1
  /\ down' = [down EXCEPT ![i] = "health"]
  /\ early' = (early \/ start # "up")
  /\ UNCHANGED <<udp, srtp, start, api, transport, hasMetrics, load, ticket, exit, total, metrics>>

\* udpListener.stop, which throws on a socket another shutdown() is closing.
CloseSockets(i) ==
  /\ Running /\ down[i] = "health"
  /\ \/ /\ \E p \in UdpPorts : sock[p] = "closing"
        /\ exit' = "1" /\ UNCHANGED <<sock, down>>
     \/ /\ \A p \in UdpPorts : sock[p] # "closing"
        /\ sock' = [p \in UdpPorts |-> IF sock[p] = "open" THEN "closing" ELSE sock[p]]
        /\ down' = [down EXCEPT ![i] = "udp"] /\ UNCHANGED exit
  /\ UNCHANGED <<binding, retries, srtp, main, ticket, total, metrics>>

\* The sockets are closed, one bound in the meantime is forgotten; the floor reset
\* server is next.
StopFloorApi(i) ==
  /\ Running /\ down[i] = "udp"
  /\ sock' = [p \in UdpPorts |-> CASE sock[p] = "closing" -> "closed"
                                   [] sock[p] = "open" -> "forgotten"
                                   [] OTHER -> sock[p]]
  /\ api' = FALSE
  /\ down' = [down EXCEPT ![i] = "floorApi"]
  /\ UNCHANGED <<binding, retries, srtp, start, transport, hasMetrics, early, load, ticket, exit,
                 total, metrics>>

\* SrtpTransport.stop, to its await: every supervisor is told.
StopTransport(i) ==
  /\ Running /\ down[i] = "floorApi" /\ transport
  /\ down' = [down EXCEPT ![i] = "srtp"]
  /\ SetServing("srtp", FALSE)
  /\ told' = {p \in SrtpPorts : sup[p] # "none"}
  /\ UNCHANGED <<udp, sup, everReady, input, frame, last, seen, main, ticket, exit,
                 total, received, timer, queued, sample, published>>

\* Mutant of SupervisorStops: a port that gave up does not answer.
SupervisorStopsUnlessDisabled(p) ==
  /\ Running /\ p \in told /\ sup[p] \notin {"none", "terminated", "disabled"}
  /\ Transition(p, "terminated")
  /\ frame' = IF p = Busy THEN -1 ELSE frame
  /\ UNCHANGED <<input, last, seen, total>>

\* A supervisor's turn to shut down comes: its helper is ended, its lock released.
SupervisorStops(p) ==
  /\ Running /\ p \in told /\ sup[p] \notin {"none", "terminated"}
  /\ Transition(p, "terminated")
  /\ frame' = IF p = Busy THEN -1 ELSE frame
  /\ UNCHANGED <<input, last, seen, total>>

\* Mutant of StopMetrics: nobody waits for the supervisors.
StopMetricsAtOnce(i) ==
  /\ Running /\ down[i] = "srtp"
  /\ transport' = FALSE
  /\ down' = [down EXCEPT ![i] = "metrics"]
  /\ timer' = FALSE /\ queued' = queued + 1
  /\ ticket' = [ticket EXCEPT ![i] = queued' + (IF InFlight THEN 1 ELSE 0)]
  /\ UNCHANGED <<udp, srtp, start, api, hasMetrics, early, load, exit, total, received, serving,
                 sample, published>>

\* The transport, if there is one, holds nothing any more; the metrics publish once
\* more.
StopMetrics(i) ==
  /\ Running
  /\ \/ /\ down[i] = "srtp" /\ \A p \in told : sup[p] \in {"none", "terminated"}
        /\ transport' = FALSE
        /\ sup' = [p \in SrtpPorts |-> IF p \in told THEN "none" ELSE sup[p]]
     \/ down[i] = "floorApi" /\ ~transport /\ UNCHANGED <<transport, sup>>
  /\ down' = [down EXCEPT ![i] = "metrics"]
  /\ IF hasMetrics
       THEN /\ timer' = FALSE /\ queued' = queued + 1
            /\ ticket' = [ticket EXCEPT ![i] = queued' + (IF InFlight THEN 1 ELSE 0)]
       ELSE UNCHANGED <<timer, queued, ticket>>
  /\ UNCHANGED <<udp, everReady, told, input, frame, last, seen, start, api,
                 hasMetrics, early, load, exit, total, received, serving, sample, published>>

\* Its publish is through; the unencrypted path's locks and pipelines follow, then
\* the process exits.
Finish(i) ==
  /\ Running
  /\ \/ /\ down[i] = "metrics" /\ ticket[i] = 0
        /\ down' = [down EXCEPT ![i] = "pipelines"] /\ hasMetrics' = FALSE
        /\ UNCHANGED exit
     \/ down[i] = "pipelines" /\ exit' = "0" /\ UNCHANGED <<down, hasMetrics>>
  /\ UNCHANGED <<udp, srtp, start, api, transport, early, load, ticket, total, metrics>>

-----------------------------------------------------------------------------
\* The metrics' own steps; a publish that is through brings the waiting ones closer.
MetricsStep ==
  /\ Running
  /\ \/ load = "traffic" /\ TimerFires /\ UNCHANGED ticket
     \/ PublishNow /\ UNCHANGED ticket
     \/ /\ SendSucceeds \/ SendFails
        /\ ticket' = [i \in Shutdowns |-> IF ticket[i] > 0 THEN ticket[i] - 1 ELSE 0]
  /\ UNCHANGED <<udp, srtp, main, down, exit, total>>

Init ==
  /\ start = "credentials" /\ binding = 1 /\ retries = 0
  /\ sock = [p \in UdpPorts |-> "none"]
  /\ api = FALSE /\ transport = FALSE /\ hasMetrics = FALSE
  /\ sup = [p \in SrtpPorts |-> "none"] /\ everReady = {} /\ told = {}
  /\ input = 0 /\ frame = -1 /\ last = 0 /\ seen = 0
  /\ down = [i \in Shutdowns |-> "none"] /\ ticket = [i \in Shutdowns |-> 0]
  /\ load \in {"traffic", "signals"}
  /\ exit = "no" /\ early = FALSE /\ total = Nothing
  /\ MetricsInit

Starting == StartCredentials \/ BindSucceeds \/ BindFails \/ StartMetrics \/ StartSrtp
            \/ StartFloorApi

Traffic == PacketReceived \/ HelperReceives \/ HelperStats \/ OnStats

Down(i) == CloseSockets(i) \/ StopFloorApi(i) \/ StopTransport(i) \/ StopMetrics(i)
           \/ Finish(i)

Next ==
  \/ Starting \/ Traffic \/ MetricsStep
  \/ \E p \in SrtpPorts : HelperStarting(p) \/ HelperMoves(p) \/ SupervisorStops(p)
  \/ \E i \in Shutdowns : Signal(i) \/ Down(i)

\* Fairness: what is awaited comes, a supervisor's stop() and CloudWatch's answer, or
\* its timeout, among it.
Fairness ==
  /\ WF_vars(MetricsStep)
  /\ \A p \in SrtpPorts : WF_vars(SupervisorStops(p))
  /\ \A i \in Shutdowns : WF_vars(Down(i))

Spec == Init /\ [][Next]_vars /\ Fairness

-----------------------------------------------------------------------------
TypeOK ==
  /\ MetricsTypeOK
  /\ start \in {"credentials", "udp", "srtp", "floorApi", "up"}
  /\ binding \in 1..(LastPort + 1) /\ retries \in 0..MaxRetries
  /\ sock \in [UdpPorts -> {"none", "open", "closing", "closed", "forgotten"}]
  /\ api \in BOOLEAN /\ transport \in BOOLEAN /\ hasMetrics \in BOOLEAN
  /\ sup \in [SrtpPorts -> {"none", "idle", "starting", "searching", "cooldown",
                            "disabled", "terminated"}]
  /\ everReady \subseteq SrtpPorts /\ told \subseteq SrtpPorts
  /\ {input, last, seen} \subseteq 0..MaxBytes /\ frame \in -1..MaxBytes
  /\ down \in [Shutdowns -> {"none", "health", "udp", "floorApi", "srtp", "metrics",
                             "pipelines"}]
  /\ ticket \in [Shutdowns -> Nat] /\ exit \in {"no", "0", "1"}
  /\ early \in BOOLEAN /\ load \in {"traffic", "signals"} /\ total \in [Transports -> Nat]

\* Every byte that was to be reported is at CloudWatch, in the request in flight or
\* waiting for the next one, through failed requests, overlapping publishes, a
\* helper's restart and a shutdown; none is reported twice but where CloudWatch took
\* a request whose answer was lost (publishNow, onStats).
BytesConserved ==
  Running => \A t \in Transports :
    total[t] + doubled[t] = counted[t] + received[t] + (IF InFlight THEN sample[t] ELSE 0)

\* SRTP stops being reported as serving only when every keyed port has given up or
\* the transport is stopped; a helper that dies and restarts does not flap it
\* (recomputeServing).
NoFlapping ==
  [][serving["srtp"] /\ ~serving'["srtp"] =>
       told' # {} \/ \A p \in SrtpPorts : sup'[p] \in {"none", "disabled"}]_vars

\* An orderly exit leaves nothing of the service behind, with one signal or several
\* ("nothing of it may outlive this process", shutdown): no socket, no reset API, no
\* supervisor with a helper and, if CloudWatch took the last request, no byte that is
\* not reported - unless a signal overtook start().
ExitHoldsNothing ==
  exit = "0" /\ ~early =>
    /\ \A p \in UdpPorts : sock[p] = "closed"
    /\ ~api
    /\ \A p \in SrtpPorts : sup[p] = "none"
    /\ ~sendFailed => counted = Plus(total, doubled)

\* A shutdown that began comes to an end, whatever state each port is in, whether
\* CloudWatch answers and however many signals follow (shutdown).
ShutdownEnds == (\E i \in Shutdowns : down[i] # "none") ~> exit # "no"

=============================================================================
