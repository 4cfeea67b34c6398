---------------------------- MODULE ServiceProofs ----------------------------
(***************************************************************************)
(* Proofs about Service and TrafficMetrics, for every number of ports,     *)
(* retries, signals and bytes: the types, that no byte goes missing or is  *)
(* counted twice on its way to CloudWatch, that the serving metric does    *)
(* not flap, and that an orderly exit leaves nothing behind.               *)
(***************************************************************************)
EXTENDS Service, TLAPS

-----------------------------------------------------------------------------
\* The counters of one helper: the baseline is the last frame that was handled, a
\* frame on its way lies between it and the helper's own count, and what the bound
\* on bytes leaves.
BaselineInv ==
  /\ last = seen /\ seen <= input
  /\ frame # -1 => seen <= frame /\ frame <= input
  /\ seen <= total["srtp"] /\ total["srtp"] - seen + input <= MaxBytes

\* The account of every transport, also after the process has exited.
Account ==
  \A t \in Transports :
    total[t] + doubled[t] = counted[t] + received[t] + (IF InFlight THEN sample[t] ELSE 0)

\* How far start() is when a shutdown() begins.
StartInv ==
  /\ (\E i \in Shutdowns : down[i] # "none") => start = "up"
  /\ start \notin {"credentials", "udp"} => binding > LastPort
  /\ start \in {"srtp", "floorApi"} => transport
  /\ \A p \in UdpPorts : p < binding => sock[p] \in {"open", "closing", "closed"}

\* What each shutdown() has done by the time it awaits its next part.
SocketInv ==
  \A i \in Shutdowns : \A p \in UdpPorts :
    /\ down[i] = "udp" => sock[p] \in {"closing", "closed"}
    /\ down[i] \in {"floorApi", "srtp", "metrics", "pipelines"} => sock[p] = "closed"

SupervisorInv ==
  /\ ~transport => \A p \in SrtpPorts : sup[p] = "none"
  /\ \A i \in Shutdowns :
       /\ down[i] \in {"floorApi", "srtp", "metrics", "pipelines"} => ~api
       /\ down[i] = "srtp" => \A p \in SrtpPorts : sup[p] # "none" => p \in told
       /\ down[i] \in {"metrics", "pipelines"} => ~transport

\* Nothing waits behind the request in flight; and nothing is left to report, or the
\* last request failed.
Drained ==
  /\ InFlight => received = Nothing
  /\ ~sendFailed => received = Nothing /\ (InFlight => sample = Nothing)

\* A shutdown() whose publish is through left nothing to report; while that publish is
\* in flight, nothing waits behind it.
PublishInv ==
  /\ start \notin {"credentials", "udp"} /\ ~hasMetrics =>
       \E i \in Shutdowns : down[i] = "pipelines"
  /\ \A i \in Shutdowns :
       /\ down[i] = "metrics" /\ ticket[i] = 1 /\ InFlight => received = Nothing
       /\ down[i] = "metrics" /\ ticket[i] = 0 => Drained
       /\ down[i] = "pipelines" => Drained
  /\ exit = "0" => \E i \in Shutdowns : down[i] = "pipelines"

ShutdownInv == ~early => StartInv /\ SocketInv /\ SupervisorInv /\ PublishInv

-----------------------------------------------------------------------------
\* The types in parts: the counters, the Boolean variables, and the others.
CountsOK ==
  /\ received \in [Transports -> Nat] /\ sample \in [Transports -> Nat] \cup {NoSample}
  /\ counted \in [Transports -> Nat] /\ doubled \in [Transports -> Nat]
  /\ total \in [Transports -> Nat]
  /\ queued \in Nat /\ lostAnswers \in 0..MaxLostAnswers

FlagsOK ==
  /\ serving \in [Transports -> BOOLEAN] /\ timer \in BOOLEAN /\ sendFailed \in BOOLEAN
  /\ api \in BOOLEAN /\ transport \in BOOLEAN /\ hasMetrics \in BOOLEAN /\ early \in BOOLEAN

BytesOK == {input, last, seen} \subseteq 0..MaxBytes /\ frame \in -1..MaxBytes

ValuesOK ==
  /\ start \in {"credentials", "udp", "srtp", "floorApi", "up"}
  /\ binding \in 1..(LastPort + 1) /\ retries \in 0..MaxRetries
  /\ sock \in [UdpPorts -> {"none", "open", "closing", "closed", "forgotten"}]
  /\ sup \in [SrtpPorts -> {"none", "idle", "starting", "searching", "cooldown",
                            "disabled", "terminated"}]
  /\ everReady \subseteq SrtpPorts /\ told \subseteq SrtpPorts
  /\ down \in [Shutdowns -> {"none", "health", "udp", "floorApi", "srtp", "metrics",
                             "pipelines"}]
  /\ ticket \in [Shutdowns -> Nat] /\ exit \in {"no", "0", "1"}
  /\ load \in {"traffic", "signals"}

LEMMA TypeParts == TypeOK <=> CountsOK /\ FlagsOK /\ BytesOK /\ ValuesOK
BY DEF TypeOK, MetricsTypeOK, CountsOK, FlagsOK, BytesOK, ValuesOK

\* Sums of counters are counters, and no snapshot looks like the lack of one.
LEMMA Counters ==
  /\ Nothing \in [Transports -> Nat]
  /\ \A f \in [Transports -> Nat], g \in [Transports -> Nat] :
       /\ Plus(f, g) \in [Transports -> Nat]
       /\ \A t \in Transports : Plus(f, g)[t] = f[t] + g[t]
  /\ \A f \in [Transports -> Nat] : f # NoSample
<1>1. Nothing \in [Transports -> Nat]
  BY DEF Nothing
<1>2. ASSUME NEW f \in [Transports -> Nat], NEW g \in [Transports -> Nat]
      PROVE  /\ Plus(f, g) \in [Transports -> Nat]
             /\ \A t \in Transports : Plus(f, g)[t] = f[t] + g[t]
  BY DEF Plus
<1>3. ASSUME NEW f \in [Transports -> Nat] PROVE f # NoSample
  <2>1. "srtp" \in Transports
    BY DEF Transports
  <2>2. NoSample["srtp"] = -1
    BY <2>1 DEF NoSample
  <2>3. f["srtp"] # -1
    BY <2>1
  <2>4. QED
    BY <2>2, <2>3
<1>4. QED
  BY <1>1, <1>2, <1>3

LEMMA Bumped ==
  ASSUME NEW f \in [Transports -> Nat], NEW u \in Transports, NEW n \in Nat
  PROVE  [f EXCEPT ![u] = @ + n] \in [Transports -> Nat]
OBVIOUS

\* onTransition keeps the states of the supervisors in their set.
LEMMA TransitionStep ==
  ASSUME ValuesOK, NEW p \in SrtpPorts,
         NEW to \in {"starting", "searching", "cooldown", "disabled", "terminated"},
         Transition(p, to)
  PROVE  ValuesOK'
BY DEF ValuesOK, Transition, udp, main, ends

\* Every step keeps the counters.
LEMMA CountsStep ==
  ASSUME CountsOK, BytesOK, BaselineInv, [Next]_vars
  PROVE  CountsOK'
<1> USE ServiceAssumption, MetricsAssumption
<1>1. CASE StartCredentials
  BY Counters, <1>1
       DEF StartCredentials, CountsOK, BytesOK, udp, srtp, ends, metrics, published
<1>2. CASE BindSucceeds
  BY Counters, <1>2
       DEF BindSucceeds, CountsOK, BytesOK, udp, srtp, main, ends, metrics, published
<1>3. CASE BindFails
  BY Counters, <1>3
       DEF BindFails, CountsOK, BytesOK, udp, srtp, main, ends, metrics, published
<1>4. CASE StartMetrics
  BY Counters, <1>4 DEF StartMetrics, CountsOK, BytesOK, udp, srtp, ends, published
<1>5. CASE StartSrtp
  BY Counters, <1>5 DEF StartSrtp, CountsOK, BytesOK, udp, srtp, ends, published
<1>6. CASE StartFloorApi
  BY Counters, <1>6
       DEF StartFloorApi, CountsOK, BytesOK, udp, srtp, ends, metrics, published
<1>7. CASE PacketReceived
  <2>1. 1 \in Nat /\ "unencrypted" \in Transports
    BY DEF Transports
  <2>2. received' \in [Transports -> Nat] /\ total' \in [Transports -> Nat]
    BY <1>7, <2>1, Bumped DEF PacketReceived, RecordReceived, CountsOK
  <2>3. QED
    BY <1>7, <2>2 DEF PacketReceived, CountsOK, metrics, published
<1>8. CASE HelperReceives
  BY Counters, <1>8
       DEF HelperReceives, CountsOK, BytesOK, udp, srtp, main, ends, metrics, published
<1>9. CASE HelperStats
  BY Counters, <1>9 DEF HelperStats, CountsOK, BytesOK, udp, main, ends, metrics, published
<1>10. CASE OnStats
  <2>1. frame \in Nat /\ seen \in Nat /\ last = seen /\ seen <= frame
    BY <1>10 DEF OnStats, BytesOK, BaselineInv
  <2>2. frame - last \in Nat /\ frame - seen \in Nat /\ frame >= last
    BY <2>1
  <2>3. received' \in [Transports -> Nat]
    BY <1>10, <2>2, Bumped DEF OnStats, RecordReceived, CountsOK, Transports
  <2>4. total["srtp"] \in Nat /\ total["srtp"] + frame - seen \in Nat
    BY <2>1 DEF CountsOK, Transports
  <2>5. total' \in [Transports -> Nat]
    BY <1>10, <2>4 DEF OnStats, CountsOK, Transports
  <2>6. QED
    BY <1>10, <2>3, <2>5 DEF OnStats, CountsOK, metrics, published
<1>11. CASE MetricsStep
  BY Counters, <1>11 DEF MetricsStep, TimerFires, PublishNow, SendSucceeds, SendFails,
     CountsOK, InFlight, metrics, published
<1>12. ASSUME NEW p \in SrtpPorts, HelperStarting(p) PROVE CountsOK'
  BY Counters, <1>12
       DEF HelperStarting, Transition, CountsOK, BytesOK, udp, main, ends, published
<1>13. ASSUME NEW p \in SrtpPorts, HelperMoves(p) PROVE CountsOK'
  BY Counters, <1>13
       DEF HelperMoves, Transition, CountsOK, BytesOK, udp, main, ends, published
<1>14. ASSUME NEW p \in SrtpPorts, SupervisorStops(p) PROVE CountsOK'
  BY Counters, <1>14
       DEF SupervisorStops, Transition, CountsOK, BytesOK, udp, main, ends, published
<1>15. ASSUME NEW i \in Shutdowns, Signal(i) PROVE CountsOK'
  BY Counters, <1>15 DEF Signal, CountsOK, BytesOK, udp, srtp, metrics, published
<1>16. ASSUME NEW i \in Shutdowns, CloseSockets(i) PROVE CountsOK'
  BY Counters, <1>16
       DEF CloseSockets, CountsOK, BytesOK, udp, srtp, main, metrics, published
<1>17. ASSUME NEW i \in Shutdowns, StopFloorApi(i) PROVE CountsOK'
  BY Counters, <1>17 DEF StopFloorApi, CountsOK, BytesOK, udp, srtp, metrics, published
<1>18. ASSUME NEW i \in Shutdowns, StopTransport(i) PROVE CountsOK'
  BY Counters, <1>18 DEF StopTransport, CountsOK, BytesOK, udp, srtp, main, published
<1>19. ASSUME NEW i \in Shutdowns, StopMetrics(i) PROVE CountsOK'
  BY Counters, <1>19 DEF StopMetrics, CountsOK, BytesOK, udp, srtp, metrics, published
<1>20. ASSUME NEW i \in Shutdowns, Finish(i) PROVE CountsOK'
  BY Counters, <1>20 DEF Finish, CountsOK, BytesOK, udp, srtp, metrics, published
<1>21. CASE UNCHANGED vars
  BY Counters, <1>21 DEF vars, CountsOK, BytesOK, udp, srtp, main, ends, metrics, published
<1>22. QED
  BY <1>1, <1>2, <1>3, <1>4, <1>5, <1>6, <1>7, <1>8, <1>9, <1>10, <1>11, <1>12, <1>13,
     <1>14, <1>15, <1>16, <1>17, <1>18, <1>19, <1>20, <1>21
       DEF Next, Starting, Traffic, Down

\* Every step keeps the flags.
LEMMA FlagsStep ==
  ASSUME FlagsOK, [Next]_vars
  PROVE  FlagsOK'
<1> USE ServiceAssumption, MetricsAssumption
<1>1. CASE StartCredentials
  BY <1>1 DEF StartCredentials, FlagsOK, udp, srtp, ends, metrics, published
<1>2. CASE BindSucceeds
  BY <1>2 DEF BindSucceeds, FlagsOK, udp, srtp, main, ends, metrics, published
<1>3. CASE BindFails
  BY <1>3 DEF BindFails, FlagsOK, udp, srtp, main, ends, metrics, published
<1>4. CASE StartMetrics
  BY <1>4 DEF StartMetrics, SetServing, FlagsOK, udp, srtp, ends, published
<1>5. CASE StartSrtp
  BY <1>5 DEF StartSrtp, SetServing, FlagsOK, udp, srtp, ends, published
<1>6. CASE StartFloorApi
  BY <1>6 DEF StartFloorApi, FlagsOK, udp, srtp, ends, metrics, published
<1>7. CASE PacketReceived
  BY <1>7 DEF PacketReceived, RecordReceived, FlagsOK, udp, srtp, main, ends, published
<1>8. CASE HelperReceives
  BY <1>8 DEF HelperReceives, FlagsOK, udp, srtp, main, ends, metrics, published
<1>9. CASE HelperStats
  BY <1>9 DEF HelperStats, FlagsOK, udp, main, ends, metrics, published
<1>10. CASE OnStats
  BY <1>10 DEF OnStats, RecordReceived, FlagsOK, udp, srtp, main, ends, published
<1>11. CASE MetricsStep
  BY <1>11
       DEF MetricsStep, TimerFires, PublishNow, SendSucceeds, SendFails, FlagsOK, udp, srtp,
           main, published
<1>12. ASSUME NEW p \in SrtpPorts, HelperStarting(p) PROVE FlagsOK'
  BY <1>12
       DEF HelperStarting, Transition, RecomputeServing, SetServing, FlagsOK, udp, srtp,
           main, ends, published
<1>13. ASSUME NEW p \in SrtpPorts, HelperMoves(p) PROVE FlagsOK'
  BY <1>13
       DEF HelperMoves, Transition, RecomputeServing, SetServing, FlagsOK, udp, srtp, main,
           ends, published
<1>14. ASSUME NEW p \in SrtpPorts, SupervisorStops(p) PROVE FlagsOK'
  BY <1>14
       DEF SupervisorStops, Transition, RecomputeServing, SetServing, FlagsOK, udp, srtp,
           main, ends, published
<1>15. ASSUME NEW i \in Shutdowns, Signal(i) PROVE FlagsOK'
  BY <1>15 DEF Signal, FlagsOK, udp, srtp, metrics, published
<1>16. ASSUME NEW i \in Shutdowns, CloseSockets(i) PROVE FlagsOK'
  BY <1>16 DEF CloseSockets, FlagsOK, udp, srtp, main, metrics, published
<1>17. ASSUME NEW i \in Shutdowns, StopFloorApi(i) PROVE FlagsOK'
  BY <1>17 DEF StopFloorApi, FlagsOK, udp, srtp, metrics, published
<1>18. ASSUME NEW i \in Shutdowns, StopTransport(i) PROVE FlagsOK'
  BY <1>18 DEF StopTransport, SetServing, FlagsOK, udp, srtp, main, published
<1>19. ASSUME NEW i \in Shutdowns, StopMetrics(i) PROVE FlagsOK'
  BY <1>19 DEF StopMetrics, FlagsOK, udp, srtp, metrics, published
<1>20. ASSUME NEW i \in Shutdowns, Finish(i) PROVE FlagsOK'
  BY <1>20 DEF Finish, FlagsOK, udp, srtp, metrics, published
<1>21. CASE UNCHANGED vars
  BY <1>21 DEF vars, FlagsOK, udp, srtp, main, ends, metrics, published
<1>22. QED
  BY <1>1, <1>2, <1>3, <1>4, <1>5, <1>6, <1>7, <1>8, <1>9, <1>10, <1>11, <1>12, <1>13,
     <1>14, <1>15, <1>16, <1>17, <1>18, <1>19, <1>20, <1>21
       DEF Next, Starting, Traffic, Down

\* Every step keeps the counters of the helper in order.
LEMMA BaselineStep ==
  ASSUME CountsOK, BytesOK, BaselineInv, [Next]_vars
  PROVE  BytesOK' /\ BaselineInv'
<1> USE ServiceAssumption, MetricsAssumption
<1>1. CASE StartCredentials
  BY <1>1
       DEF StartCredentials, CountsOK, BytesOK, BaselineInv, Transports, udp, srtp, ends,
           metrics, published
<1>2. CASE BindSucceeds
  BY <1>2
       DEF BindSucceeds, CountsOK, BytesOK, BaselineInv, Transports, udp, srtp, main, ends,
           metrics, published
<1>3. CASE BindFails
  BY <1>3
       DEF BindFails, CountsOK, BytesOK, BaselineInv, Transports, udp, srtp, main, ends,
           metrics, published
<1>4. CASE StartMetrics
  BY <1>4
       DEF StartMetrics, CountsOK, BytesOK, BaselineInv, Transports, udp, srtp, ends,
           published
<1>5. CASE StartSrtp
  BY <1>5
       DEF StartSrtp, CountsOK, BytesOK, BaselineInv, Transports, udp, srtp, ends, published
<1>6. CASE StartFloorApi
  BY <1>6
       DEF StartFloorApi, CountsOK, BytesOK, BaselineInv, Transports, udp, srtp, ends,
           metrics, published
<1>7. CASE PacketReceived
  BY <1>7
       DEF PacketReceived, RecordReceived, CountsOK, BytesOK, BaselineInv, Transports, udp,
           srtp, main, ends, published
<1>8. CASE HelperReceives
  BY <1>8
       DEF HelperReceives, CountsOK, BytesOK, BaselineInv, Transports, udp, srtp, main,
           ends, metrics, published
<1>9. CASE HelperStats
  BY <1>9
       DEF HelperStats, CountsOK, BytesOK, BaselineInv, Transports, udp, main, ends,
           metrics, published
<1>10. CASE OnStats
  BY <1>10
       DEF OnStats, RecordReceived, CountsOK, BytesOK, BaselineInv, Transports, udp, srtp,
           main, ends, published
<1>11. CASE MetricsStep
  BY <1>11
       DEF MetricsStep, TimerFires, PublishNow, SendSucceeds, SendFails, CountsOK, BytesOK,
           BaselineInv, Transports, udp, srtp, main, published
<1>12. ASSUME NEW p \in SrtpPorts, HelperStarting(p) PROVE BytesOK' /\ BaselineInv'
  BY <1>12
       DEF HelperStarting, Transition, CountsOK, BytesOK, BaselineInv, Transports, udp,
           main, ends, published
<1>13. ASSUME NEW p \in SrtpPorts, HelperMoves(p) PROVE BytesOK' /\ BaselineInv'
  BY <1>13
       DEF HelperMoves, Transition, CountsOK, BytesOK, BaselineInv, Transports, udp, main,
           ends, published
<1>14. ASSUME NEW p \in SrtpPorts, SupervisorStops(p) PROVE BytesOK' /\ BaselineInv'
  BY <1>14
       DEF SupervisorStops, Transition, CountsOK, BytesOK, BaselineInv, Transports, udp,
           main, ends, published
<1>15. ASSUME NEW i \in Shutdowns, Signal(i) PROVE BytesOK' /\ BaselineInv'
  BY <1>15
       DEF Signal, CountsOK, BytesOK, BaselineInv, Transports, udp, srtp, metrics, published
<1>16. ASSUME NEW i \in Shutdowns, CloseSockets(i) PROVE BytesOK' /\ BaselineInv'
  BY <1>16
       DEF CloseSockets, CountsOK, BytesOK, BaselineInv, Transports, udp, srtp, main,
           metrics, published
<1>17. ASSUME NEW i \in Shutdowns, StopFloorApi(i) PROVE BytesOK' /\ BaselineInv'
  BY <1>17
       DEF StopFloorApi, CountsOK, BytesOK, BaselineInv, Transports, udp, srtp, metrics,
           published
<1>18. ASSUME NEW i \in Shutdowns, StopTransport(i) PROVE BytesOK' /\ BaselineInv'
  BY <1>18
       DEF StopTransport, CountsOK, BytesOK, BaselineInv, Transports, udp, srtp, main,
           published
<1>19. ASSUME NEW i \in Shutdowns, StopMetrics(i) PROVE BytesOK' /\ BaselineInv'
  BY <1>19
       DEF StopMetrics, CountsOK, BytesOK, BaselineInv, Transports, udp, srtp, metrics,
           published
<1>20. ASSUME NEW i \in Shutdowns, Finish(i) PROVE BytesOK' /\ BaselineInv'
  BY <1>20
       DEF Finish, CountsOK, BytesOK, BaselineInv, Transports, udp, srtp, metrics, published
<1>21. CASE UNCHANGED vars
  BY <1>21
       DEF vars, CountsOK, BytesOK, BaselineInv, Transports, udp, srtp, main, ends, metrics,
           published
<1>22. QED
  BY <1>1, <1>2, <1>3, <1>4, <1>5, <1>6, <1>7, <1>8, <1>9, <1>10, <1>11, <1>12, <1>13,
     <1>14, <1>15, <1>16, <1>17, <1>18, <1>19, <1>20, <1>21
       DEF Next, Starting, Traffic, Down

\* Every step keeps the other variables in their sets.
LEMMA ValuesStep ==
  ASSUME CountsOK, ValuesOK, [Next]_vars
  PROVE  ValuesOK'
<1> USE ServiceAssumption, MetricsAssumption
<1>1. CASE StartCredentials
  BY <1>1
       DEF StartCredentials, ValuesOK, UdpPorts, Shutdowns, udp, srtp, ends, metrics,
           published
<1>2. CASE BindSucceeds
  BY <1>2
       DEF BindSucceeds, ValuesOK, UdpPorts, Shutdowns, udp, srtp, main, ends, metrics,
           published
<1>3. CASE BindFails
  BY <1>3
       DEF BindFails, ValuesOK, UdpPorts, Shutdowns, udp, srtp, main, ends, metrics,
           published
<1>4. CASE StartMetrics
  BY <1>4 DEF StartMetrics, ValuesOK, UdpPorts, Shutdowns, udp, srtp, ends, published
<1>5. CASE StartSrtp
  BY <1>5 DEF StartSrtp, ValuesOK, UdpPorts, Shutdowns, udp, srtp, ends, published
<1>6. CASE StartFloorApi
  BY <1>6
       DEF StartFloorApi, ValuesOK, UdpPorts, Shutdowns, udp, srtp, ends, metrics, published
<1>7. CASE PacketReceived
  BY <1>7
       DEF PacketReceived, RecordReceived, ValuesOK, UdpPorts, Shutdowns, udp, srtp, main,
           ends, published
<1>8. CASE HelperReceives
  BY <1>8
       DEF HelperReceives, ValuesOK, UdpPorts, Shutdowns, udp, srtp, main, ends, metrics,
           published
<1>9. CASE HelperStats
  BY <1>9
       DEF HelperStats, ValuesOK, UdpPorts, Shutdowns, udp, main, ends, metrics, published
<1>10. CASE OnStats
  BY <1>10
       DEF OnStats, RecordReceived, ValuesOK, UdpPorts, Shutdowns, udp, srtp, main, ends,
           published
<1>11. CASE MetricsStep
  <2>1. ticket' \in [Shutdowns -> Nat]
    BY <1>11 DEF MetricsStep, ValuesOK
  <2>2. QED
    BY <1>11, <2>1 DEF MetricsStep, ValuesOK, udp, srtp, main
<1>12. ASSUME NEW p \in SrtpPorts, HelperStarting(p) PROVE ValuesOK'
  BY <1>12, TransitionStep DEF HelperStarting
<1>13. ASSUME NEW p \in SrtpPorts, HelperMoves(p) PROVE ValuesOK'
  BY <1>13, TransitionStep DEF HelperMoves
<1>14. ASSUME NEW p \in SrtpPorts, SupervisorStops(p) PROVE ValuesOK'
  BY <1>14, TransitionStep DEF SupervisorStops
<1>15. ASSUME NEW i \in Shutdowns, Signal(i) PROVE ValuesOK'
  BY <1>15 DEF Signal, ValuesOK, UdpPorts, Shutdowns, udp, srtp, metrics, published
<1>16. ASSUME NEW i \in Shutdowns, CloseSockets(i) PROVE ValuesOK'
  BY <1>16
       DEF CloseSockets, ValuesOK, UdpPorts, Shutdowns, udp, srtp, main, metrics, published
<1>17. ASSUME NEW i \in Shutdowns, StopFloorApi(i) PROVE ValuesOK'
  BY <1>17 DEF StopFloorApi, ValuesOK, UdpPorts, Shutdowns, udp, srtp, metrics, published
<1>18. ASSUME NEW i \in Shutdowns, StopTransport(i) PROVE ValuesOK'
  BY <1>18 DEF StopTransport, ValuesOK, UdpPorts, Shutdowns, udp, srtp, main, published
<1>19. ASSUME NEW i \in Shutdowns, StopMetrics(i) PROVE ValuesOK'
  <2>1. ticket' \in [Shutdowns -> Nat]
    BY <1>19 DEF StopMetrics, ValuesOK, CountsOK
  <2>2. sup' \in [SrtpPorts -> {"none", "idle", "starting", "searching", "cooldown",
                                "disabled", "terminated"}]
    BY <1>19 DEF StopMetrics, ValuesOK
  <2>3. QED
    BY <1>19, <2>1, <2>2 DEF StopMetrics, ValuesOK, udp
<1>20. ASSUME NEW i \in Shutdowns, Finish(i) PROVE ValuesOK'
  BY <1>20 DEF Finish, ValuesOK, UdpPorts, Shutdowns, udp, srtp, metrics, published
<1>21. CASE UNCHANGED vars
  BY <1>21
       DEF vars, ValuesOK, UdpPorts, Shutdowns, udp, srtp, main, ends, metrics, published
<1>22. QED
  BY <1>1, <1>2, <1>3, <1>4, <1>5, <1>6, <1>7, <1>8, <1>9, <1>10, <1>11, <1>12, <1>13,
     <1>14, <1>15, <1>16, <1>17, <1>18, <1>19, <1>20, <1>21
       DEF Next, Starting, Traffic, Down

\* Every step keeps the types and the order of the counters.
LEMMA TypeStep ==
  ASSUME TypeOK, BaselineInv, [Next]_vars
  PROVE  TypeOK' /\ BaselineInv'
<1>1. CountsOK /\ FlagsOK /\ BytesOK /\ ValuesOK
  BY TypeParts
<1>2. CountsOK' /\ FlagsOK' /\ BytesOK' /\ ValuesOK' /\ BaselineInv'
  BY <1>1, CountsStep, FlagsStep, BaselineStep, ValuesStep
<1>3. QED
  BY <1>2 DEF TypeOK, MetricsTypeOK, CountsOK, FlagsOK, BytesOK, ValuesOK

LEMMA InitTypeOK == Init => TypeOK /\ BaselineInv
<1> SUFFICES ASSUME Init PROVE TypeOK /\ BaselineInv
  OBVIOUS
<1> USE ServiceAssumption, MetricsAssumption DEF Init, MetricsInit
<1>1. CountsOK
  BY Counters DEF CountsOK
<1>2. FlagsOK
  BY DEF FlagsOK
<1>3. BytesOK
  BY DEF BytesOK
<1>4. ValuesOK
  BY DEF ValuesOK, UdpPorts, Shutdowns
<1>5. BaselineInv
  BY DEF BaselineInv, Nothing, Transports
<1>6. QED
  BY <1>1, <1>2, <1>3, <1>4, <1>5, TypeParts

\* Types (Service.TypeOK): in particular the delta that onStats reports is never
\* negative, and bindPort never counts past its retries.
THEOREM SpecTypeOK == Spec => []TypeOK
BY InitTypeOK, TypeStep, PTL DEF Spec

-----------------------------------------------------------------------------
\* No step loses a byte or counts one twice.
LEMMA AccountStep ==
  ASSUME CountsOK, BytesOK, BaselineInv, Account, [Next]_vars
  PROVE  Account'
<1>1. CASE StartCredentials
  BY <1>1 DEF StartCredentials, Account, InFlight, metrics, published
<1>2. CASE BindSucceeds
  BY <1>2 DEF BindSucceeds, Account, InFlight, metrics, published
<1>3. CASE BindFails
  BY <1>3 DEF BindFails, Account, InFlight, metrics, published
<1>4. CASE StartMetrics
  BY <1>4 DEF StartMetrics, SetServing, Account, InFlight, metrics, published
<1>5. CASE StartSrtp
  BY <1>5 DEF StartSrtp, SetServing, Account, InFlight, metrics, published
<1>6. CASE StartFloorApi
  BY <1>6 DEF StartFloorApi, Account, InFlight, metrics, published
<1>7. CASE PacketReceived
  BY <1>7 DEF PacketReceived, RecordReceived, Account, InFlight, CountsOK, Transports, published
<1>8. CASE HelperReceives
  BY <1>8 DEF HelperReceives, Account, InFlight, metrics, published
<1>9. CASE HelperStats
  BY <1>9 DEF HelperStats, Account, InFlight, metrics, published
<1>10. CASE OnStats
  <2>1. frame \in Nat /\ seen \in Nat /\ last = seen /\ seen <= frame
    BY <1>10 DEF OnStats, BytesOK, BaselineInv
  <2>2. received' = [received EXCEPT !["srtp"] = @ + (frame - seen)]
    BY <1>10, <2>1 DEF OnStats, RecordReceived
  <2>3. QED
    BY <1>10, <2>1, <2>2 DEF OnStats, Account, InFlight, CountsOK, Transports, published
<1>11. CASE MetricsStep
  <2>1. CASE TimerFires
    BY <1>11, <2>1 DEF MetricsStep, TimerFires, Account, InFlight, published
  <2>2. CASE PublishNow
    BY <1>11, <2>2, Counters DEF MetricsStep, PublishNow, Account, InFlight, Nothing, CountsOK, published
  <2>3. CASE SendSucceeds
    <3>1. sample \in [Transports -> Nat]
      BY <2>3 DEF SendSucceeds, InFlight, CountsOK
    <3>2. QED
      BY <1>11, <2>3, <3>1, Counters DEF MetricsStep, SendSucceeds, Account, InFlight, CountsOK
  <2>4. CASE SendFails
    <3>1. sample \in [Transports -> Nat]
      BY <2>4 DEF SendFails, InFlight, CountsOK
    <3>2. received' = Plus(received, sample) /\ ~InFlight' /\ total' = total
      BY <1>11, <2>4 DEF MetricsStep, SendFails, InFlight
    <3>3. \/ counted' = counted /\ doubled' = doubled
          \/ counted' = Plus(counted, sample) /\ doubled' = Plus(doubled, sample)
      BY <2>4 DEF SendFails
    <3>4. ASSUME NEW t \in Transports
          PROVE  /\ Plus(received, sample)[t] = received[t] + sample[t]
                 /\ Plus(counted, sample)[t] = counted[t] + sample[t]
                 /\ Plus(doubled, sample)[t] = doubled[t] + sample[t]
                 /\ {received[t], counted[t], doubled[t], sample[t], total[t]} \subseteq Nat
                 /\ total[t] + doubled[t] = counted[t] + received[t] + sample[t]
      BY <2>4, <3>1, Counters DEF SendFails, Account, CountsOK
    <3>5. QED
      BY <3>2, <3>3, <3>4 DEF Account
  <2>5. QED
    BY <1>11, <2>1, <2>2, <2>3, <2>4 DEF MetricsStep
<1>12. ASSUME NEW p \in SrtpPorts, HelperStarting(p) PROVE Account'
  BY <1>12 DEF HelperStarting, Transition, SetServing, Account, InFlight, metrics, published
<1>13. ASSUME NEW p \in SrtpPorts, HelperMoves(p) PROVE Account'
  BY <1>13 DEF HelperMoves, Transition, SetServing, Account, InFlight, metrics, published
<1>14. ASSUME NEW p \in SrtpPorts, SupervisorStops(p) PROVE Account'
  BY <1>14 DEF SupervisorStops, Transition, SetServing, Account, InFlight, metrics, published
<1>15. ASSUME NEW i \in Shutdowns, Signal(i) PROVE Account'
  BY <1>15 DEF Signal, Account, InFlight, metrics, published
<1>16. ASSUME NEW i \in Shutdowns, CloseSockets(i) PROVE Account'
  BY <1>16 DEF CloseSockets, Account, InFlight, metrics, published
<1>17. ASSUME NEW i \in Shutdowns, StopFloorApi(i) PROVE Account'
  BY <1>17 DEF StopFloorApi, Account, InFlight, metrics, published
<1>18. ASSUME NEW i \in Shutdowns, StopTransport(i) PROVE Account'
  BY <1>18 DEF StopTransport, SetServing, Account, InFlight, metrics, published
<1>19. ASSUME NEW i \in Shutdowns, StopMetrics(i) PROVE Account'
  BY <1>19 DEF StopMetrics, Account, InFlight, metrics, published
<1>20. ASSUME NEW i \in Shutdowns, Finish(i) PROVE Account'
  BY <1>20 DEF Finish, Account, InFlight, metrics, published
<1>21. CASE UNCHANGED vars
  BY <1>21 DEF vars, Account, InFlight, udp, srtp, main, ends, metrics, published
<1>22. QED
  BY <1>1, <1>2, <1>3, <1>4, <1>5, <1>6, <1>7, <1>8, <1>9, <1>10, <1>11, <1>12, <1>13,
     <1>14, <1>15, <1>16, <1>17, <1>18, <1>19, <1>20, <1>21
       DEF Next, Starting, Traffic, Down

\* Every byte is accounted for (Service.BytesConserved): at CloudWatch, in the
\* request in flight or waiting for the next one, for any traffic, any number of
\* failed requests, restarted helpers and shutdowns.
THEOREM SpecBytesConserved == Spec => []BytesConserved
<1>1. Init => Account
  BY DEF Init, MetricsInit, Account, InFlight, Nothing
<1>2. TypeOK /\ BaselineInv /\ Account /\ [Next]_vars => Account'
  BY TypeParts, AccountStep
<1>3. Account => BytesConserved
  BY DEF Account, BytesConserved
<1>4. QED
  BY <1>1, <1>2, <1>3, InitTypeOK, TypeStep, PTL DEF Spec

-----------------------------------------------------------------------------
\* SRTP serves only after some port was ready, and never before the supervisors are
\* made.
ServingInv ==
  /\ serving["srtp"] => everReady # {}
  /\ start \in {"credentials", "udp", "srtp"} =>
       ~serving["srtp"] /\ \A p \in SrtpPorts : sup[p] = "none"

\* Every step keeps what serving means.
LEMMA ServingStep ==
  ASSUME FlagsOK, ValuesOK, ServingInv, [Next]_vars
  PROVE  ServingInv'
<1> USE ServiceAssumption, MetricsAssumption
<1>1. CASE StartCredentials
  BY <1>1
       DEF StartCredentials, FlagsOK, ValuesOK, ServingInv, Transports, udp, srtp, ends,
           metrics, published
<1>2. CASE BindSucceeds
  BY <1>2
       DEF BindSucceeds, FlagsOK, ValuesOK, ServingInv, Transports, udp, srtp, main, ends,
           metrics, published
<1>3. CASE BindFails
  BY <1>3
       DEF BindFails, FlagsOK, ValuesOK, ServingInv, Transports, udp, srtp, main, ends,
           metrics, published
<1>4. CASE StartMetrics
  BY <1>4
       DEF StartMetrics, SetServing, FlagsOK, ValuesOK, ServingInv, Transports, udp, srtp,
           ends, published
<1>5. CASE StartSrtp
  BY <1>5
       DEF StartSrtp, SetServing, FlagsOK, ValuesOK, ServingInv, Transports, udp, srtp,
           ends, published
<1>6. CASE StartFloorApi
  BY <1>6
       DEF StartFloorApi, FlagsOK, ValuesOK, ServingInv, Transports, udp, srtp, ends,
           metrics, published
<1>7. CASE PacketReceived
  BY <1>7
       DEF PacketReceived, RecordReceived, FlagsOK, ValuesOK, ServingInv, Transports, udp,
           srtp, main, ends, published
<1>8. CASE HelperReceives
  BY <1>8
       DEF HelperReceives, FlagsOK, ValuesOK, ServingInv, Transports, udp, srtp, main, ends,
           metrics, published
<1>9. CASE HelperStats
  BY <1>9
       DEF HelperStats, FlagsOK, ValuesOK, ServingInv, Transports, udp, main, ends, metrics,
           published
<1>10. CASE OnStats
  BY <1>10
       DEF OnStats, RecordReceived, FlagsOK, ValuesOK, ServingInv, Transports, udp, srtp,
           main, ends, published
<1>11. CASE MetricsStep
  BY <1>11
       DEF MetricsStep, TimerFires, PublishNow, SendSucceeds, SendFails, FlagsOK, ValuesOK,
           ServingInv, Transports, udp, srtp, main, published
<1>12. ASSUME NEW p \in SrtpPorts, HelperStarting(p) PROVE ServingInv'
  BY <1>12
       DEF HelperStarting, Transition, RecomputeServing, SetServing, FlagsOK, ValuesOK,
           ServingInv, Transports, udp, srtp, main, ends, published
<1>13. ASSUME NEW p \in SrtpPorts, HelperMoves(p) PROVE ServingInv'
  BY <1>13
       DEF HelperMoves, Transition, RecomputeServing, SetServing, FlagsOK, ValuesOK,
           ServingInv, Transports, udp, srtp, main, ends, published
<1>14. ASSUME NEW p \in SrtpPorts, SupervisorStops(p) PROVE ServingInv'
  BY <1>14
       DEF SupervisorStops, Transition, RecomputeServing, SetServing, FlagsOK, ValuesOK,
           ServingInv, Transports, udp, srtp, main, ends, published
<1>15. ASSUME NEW i \in Shutdowns, Signal(i) PROVE ServingInv'
  BY <1>15
       DEF Signal, FlagsOK, ValuesOK, ServingInv, Transports, udp, srtp, metrics, published
<1>16. ASSUME NEW i \in Shutdowns, CloseSockets(i) PROVE ServingInv'
  BY <1>16
       DEF CloseSockets, FlagsOK, ValuesOK, ServingInv, Transports, udp, srtp, main,
           metrics, published
<1>17. ASSUME NEW i \in Shutdowns, StopFloorApi(i) PROVE ServingInv'
  BY <1>17
       DEF StopFloorApi, FlagsOK, ValuesOK, ServingInv, Transports, udp, srtp, metrics,
           published
<1>18. ASSUME NEW i \in Shutdowns, StopTransport(i) PROVE ServingInv'
  BY <1>18
       DEF StopTransport, SetServing, FlagsOK, ValuesOK, ServingInv, Transports, udp, srtp,
           main, published
<1>19. ASSUME NEW i \in Shutdowns, StopMetrics(i) PROVE ServingInv'
  BY <1>19
       DEF StopMetrics, FlagsOK, ValuesOK, ServingInv, Transports, udp, srtp, metrics,
           published
<1>20. ASSUME NEW i \in Shutdowns, Finish(i) PROVE ServingInv'
  BY <1>20
       DEF Finish, FlagsOK, ValuesOK, ServingInv, Transports, udp, srtp, metrics, published
<1>21. CASE UNCHANGED vars
  BY <1>21
       DEF vars, FlagsOK, ValuesOK, ServingInv, Transports, udp, srtp, main, ends, metrics,
           published
<1>22. QED
  BY <1>1, <1>2, <1>3, <1>4, <1>5, <1>6, <1>7, <1>8, <1>9, <1>10, <1>11, <1>12, <1>13,
     <1>14, <1>15, <1>16, <1>17, <1>18, <1>19, <1>20, <1>21
       DEF Next, Starting, Traffic, Down

\* What a step may never do: end serving with a keyed port that neither gave up nor
\* was told to stop.
NoFlap ==
  serving["srtp"] /\ ~serving'["srtp"] =>
    told' # {} \/ \A p \in SrtpPorts : sup'[p] \in {"none", "disabled"}

\* No step flaps the metric.
LEMMA NoFlapStep ==
  ASSUME FlagsOK, ValuesOK, ServingInv, [Next]_vars
  PROVE  NoFlap
<1> USE ServiceAssumption, MetricsAssumption
<1>1. CASE StartCredentials
  BY <1>1
       DEF StartCredentials, FlagsOK, ValuesOK, ServingInv, NoFlap, Transports, udp, srtp,
           ends, metrics, published
<1>2. CASE BindSucceeds
  BY <1>2
       DEF BindSucceeds, FlagsOK, ValuesOK, ServingInv, NoFlap, Transports, udp, srtp, main,
           ends, metrics, published
<1>3. CASE BindFails
  BY <1>3
       DEF BindFails, FlagsOK, ValuesOK, ServingInv, NoFlap, Transports, udp, srtp, main,
           ends, metrics, published
<1>4. CASE StartMetrics
  BY <1>4
       DEF StartMetrics, SetServing, FlagsOK, ValuesOK, ServingInv, NoFlap, Transports, udp,
           srtp, ends, published
<1>5. CASE StartSrtp
  BY <1>5
       DEF StartSrtp, SetServing, FlagsOK, ValuesOK, ServingInv, NoFlap, Transports, udp,
           srtp, ends, published
<1>6. CASE StartFloorApi
  BY <1>6
       DEF StartFloorApi, FlagsOK, ValuesOK, ServingInv, NoFlap, Transports, udp, srtp,
           ends, metrics, published
<1>7. CASE PacketReceived
  BY <1>7
       DEF PacketReceived, RecordReceived, FlagsOK, ValuesOK, ServingInv, NoFlap,
           Transports, udp, srtp, main, ends, published
<1>8. CASE HelperReceives
  BY <1>8
       DEF HelperReceives, FlagsOK, ValuesOK, ServingInv, NoFlap, Transports, udp, srtp,
           main, ends, metrics, published
<1>9. CASE HelperStats
  BY <1>9
       DEF HelperStats, FlagsOK, ValuesOK, ServingInv, NoFlap, Transports, udp, main, ends,
           metrics, published
<1>10. CASE OnStats
  BY <1>10
       DEF OnStats, RecordReceived, FlagsOK, ValuesOK, ServingInv, NoFlap, Transports, udp,
           srtp, main, ends, published
<1>11. CASE MetricsStep
  BY <1>11
       DEF MetricsStep, TimerFires, PublishNow, SendSucceeds, SendFails, FlagsOK, ValuesOK,
           ServingInv, NoFlap, Transports, udp, srtp, main, published
<1>12. ASSUME NEW p \in SrtpPorts, HelperStarting(p) PROVE NoFlap
  BY <1>12
       DEF HelperStarting, Transition, RecomputeServing, SetServing, FlagsOK, ValuesOK,
           ServingInv, NoFlap, Transports, udp, srtp, main, ends, published
<1>13. ASSUME NEW p \in SrtpPorts, HelperMoves(p) PROVE NoFlap
  BY <1>13
       DEF HelperMoves, Transition, RecomputeServing, SetServing, FlagsOK, ValuesOK,
           ServingInv, NoFlap, Transports, udp, srtp, main, ends, published
<1>14. ASSUME NEW p \in SrtpPorts, SupervisorStops(p) PROVE NoFlap
  BY <1>14
       DEF SupervisorStops, Transition, RecomputeServing, SetServing, FlagsOK, ValuesOK,
           ServingInv, NoFlap, Transports, udp, srtp, main, ends, published
<1>15. ASSUME NEW i \in Shutdowns, Signal(i) PROVE NoFlap
  BY <1>15
       DEF Signal, FlagsOK, ValuesOK, ServingInv, NoFlap, Transports, udp, srtp, metrics,
           published
<1>16. ASSUME NEW i \in Shutdowns, CloseSockets(i) PROVE NoFlap
  BY <1>16
       DEF CloseSockets, FlagsOK, ValuesOK, ServingInv, NoFlap, Transports, udp, srtp, main,
           metrics, published
<1>17. ASSUME NEW i \in Shutdowns, StopFloorApi(i) PROVE NoFlap
  BY <1>17
       DEF StopFloorApi, FlagsOK, ValuesOK, ServingInv, NoFlap, Transports, udp, srtp,
           metrics, published
<1>18. ASSUME NEW i \in Shutdowns, StopTransport(i) PROVE NoFlap
  BY <1>18
       DEF StopTransport, SetServing, FlagsOK, ValuesOK, ServingInv, NoFlap, Transports,
           udp, srtp, main, published
<1>19. ASSUME NEW i \in Shutdowns, StopMetrics(i) PROVE NoFlap
  BY <1>19
       DEF StopMetrics, FlagsOK, ValuesOK, ServingInv, NoFlap, Transports, udp, srtp,
           metrics, published
<1>20. ASSUME NEW i \in Shutdowns, Finish(i) PROVE NoFlap
  BY <1>20
       DEF Finish, FlagsOK, ValuesOK, ServingInv, NoFlap, Transports, udp, srtp, metrics,
           published
<1>21. CASE UNCHANGED vars
  BY <1>21
       DEF vars, FlagsOK, ValuesOK, ServingInv, NoFlap, Transports, udp, srtp, main, ends,
           metrics, published
<1>22. QED
  BY <1>1, <1>2, <1>3, <1>4, <1>5, <1>6, <1>7, <1>8, <1>9, <1>10, <1>11, <1>12, <1>13,
     <1>14, <1>15, <1>16, <1>17, <1>18, <1>19, <1>20, <1>21
       DEF Next, Starting, Traffic, Down

\* The serving metric does not flap (Service.NoFlapping), for any number of ports and
\* in any order of their helpers' deaths and restarts.
THEOREM SpecNoFlapping == Spec => NoFlapping
<1>1. Init => ServingInv
  BY DEF Init, MetricsInit, ServingInv, Transports
<1>2. TypeOK /\ ServingInv /\ [Next]_vars => ServingInv'
  BY TypeParts, ServingStep
<1>3. TypeOK /\ ServingInv /\ [Next]_vars =>
        [serving["srtp"] /\ ~serving'["srtp"] =>
           told' # {} \/ \A p \in SrtpPorts : sup'[p] \in {"none", "disabled"}]_vars
  BY TypeParts, NoFlapStep DEF NoFlap
<1>4. QED
  BY <1>1, <1>2, <1>3, InitTypeOK, TypeStep, PTL DEF Spec, NoFlapping

-----------------------------------------------------------------------------
\* start() is through before a shutdown() begins, and undoes nothing after.
LEMMA StartStep ==
  ASSUME CountsOK, FlagsOK, ValuesOK, ~early', ~early, StartInv, SocketInv, [Next]_vars
  PROVE  StartInv'
<1> USE ServiceAssumption, MetricsAssumption
<1>1. CASE StartCredentials
  BY <1>1
       DEF StartCredentials, ValuesOK, FlagsOK, StartInv, SocketInv, UdpPorts, Shutdowns,
           udp, srtp, ends, metrics, published
<1>2. CASE BindSucceeds
  BY <1>2
       DEF BindSucceeds, ValuesOK, FlagsOK, StartInv, SocketInv, UdpPorts, Shutdowns, udp,
           srtp, main, ends, metrics, published
<1>3. CASE BindFails
  BY <1>3
       DEF BindFails, ValuesOK, FlagsOK, StartInv, SocketInv, UdpPorts, Shutdowns, udp,
           srtp, main, ends, metrics, published
<1>4. CASE StartMetrics
  BY <1>4
       DEF StartMetrics, SetServing, ValuesOK, FlagsOK, StartInv, SocketInv, UdpPorts,
           Shutdowns, udp, srtp, ends, published
<1>5. CASE StartSrtp
  BY <1>5
       DEF StartSrtp, SetServing, ValuesOK, FlagsOK, StartInv, SocketInv, UdpPorts,
           Shutdowns, udp, srtp, ends, published
<1>6. CASE StartFloorApi
  BY <1>6
       DEF StartFloorApi, ValuesOK, FlagsOK, StartInv, SocketInv, UdpPorts, Shutdowns, udp,
           srtp, ends, metrics, published
<1>7. CASE PacketReceived
  BY <1>7
       DEF PacketReceived, RecordReceived, ValuesOK, FlagsOK, StartInv, SocketInv, UdpPorts,
           Shutdowns, udp, srtp, main, ends, published
<1>8. CASE HelperReceives
  BY <1>8
       DEF HelperReceives, ValuesOK, FlagsOK, StartInv, SocketInv, UdpPorts, Shutdowns, udp,
           srtp, main, ends, metrics, published
<1>9. CASE HelperStats
  BY <1>9
       DEF HelperStats, ValuesOK, FlagsOK, StartInv, SocketInv, UdpPorts, Shutdowns, udp,
           main, ends, metrics, published
<1>10. CASE OnStats
  BY <1>10
       DEF OnStats, RecordReceived, ValuesOK, FlagsOK, StartInv, SocketInv, UdpPorts,
           Shutdowns, udp, srtp, main, ends, published
<1>11. CASE MetricsStep
  BY <1>11
       DEF MetricsStep, TimerFires, PublishNow, SendSucceeds, SendFails, ValuesOK, FlagsOK,
           StartInv, SocketInv, UdpPorts, Shutdowns, udp, srtp, main, published
<1>12. ASSUME NEW p \in SrtpPorts, HelperStarting(p) PROVE StartInv'
  BY <1>12
       DEF HelperStarting, Transition, RecomputeServing, SetServing, ValuesOK, FlagsOK,
           StartInv, SocketInv, UdpPorts, Shutdowns, udp, srtp, main, ends, published
<1>13. ASSUME NEW p \in SrtpPorts, HelperMoves(p) PROVE StartInv'
  BY <1>13
       DEF HelperMoves, Transition, RecomputeServing, SetServing, ValuesOK, FlagsOK,
           StartInv, SocketInv, UdpPorts, Shutdowns, udp, srtp, main, ends, published
<1>14. ASSUME NEW p \in SrtpPorts, SupervisorStops(p) PROVE StartInv'
  BY <1>14
       DEF SupervisorStops, Transition, RecomputeServing, SetServing, ValuesOK, FlagsOK,
           StartInv, SocketInv, UdpPorts, Shutdowns, udp, srtp, main, ends, published
<1>15. ASSUME NEW i \in Shutdowns, Signal(i) PROVE StartInv'
  BY <1>15
       DEF Signal, ValuesOK, FlagsOK, StartInv, SocketInv, UdpPorts, Shutdowns, udp, srtp,
           metrics, published
<1>16. ASSUME NEW i \in Shutdowns, CloseSockets(i) PROVE StartInv'
  BY <1>16
       DEF CloseSockets, ValuesOK, FlagsOK, StartInv, SocketInv, UdpPorts, Shutdowns, udp,
           srtp, main, metrics, published
<1>17. ASSUME NEW i \in Shutdowns, StopFloorApi(i) PROVE StartInv'
  BY <1>17
       DEF StopFloorApi, ValuesOK, FlagsOK, StartInv, SocketInv, UdpPorts, Shutdowns, udp,
           srtp, metrics, published
<1>18. ASSUME NEW i \in Shutdowns, StopTransport(i) PROVE StartInv'
  BY <1>18
       DEF StopTransport, SetServing, ValuesOK, FlagsOK, StartInv, SocketInv, UdpPorts,
           Shutdowns, udp, srtp, main, published
<1>19. ASSUME NEW i \in Shutdowns, StopMetrics(i) PROVE StartInv'
  BY <1>19
       DEF StopMetrics, ValuesOK, FlagsOK, StartInv, SocketInv, UdpPorts, Shutdowns, udp,
           srtp, metrics, published
<1>20. ASSUME NEW i \in Shutdowns, Finish(i) PROVE StartInv'
  BY <1>20
       DEF Finish, ValuesOK, FlagsOK, StartInv, SocketInv, UdpPorts, Shutdowns, udp, srtp,
           metrics, published
<1>21. CASE UNCHANGED vars
  BY <1>21
       DEF vars, ValuesOK, FlagsOK, StartInv, SocketInv, UdpPorts, Shutdowns, udp, srtp,
           main, ends, metrics, published
<1>22. QED
  BY <1>1, <1>2, <1>3, <1>4, <1>5, <1>6, <1>7, <1>8, <1>9, <1>10, <1>11, <1>12, <1>13,
     <1>14, <1>15, <1>16, <1>17, <1>18, <1>19, <1>20, <1>21
       DEF Next, Starting, Traffic, Down

\* A socket that one shutdown() closed stays closed.
LEMMA SocketStep ==
  ASSUME ValuesOK, FlagsOK, ~early', ~early, StartInv, SocketInv, [Next]_vars
  PROVE  SocketInv'
<1> USE ServiceAssumption, MetricsAssumption
<1>1. CASE StartCredentials
  BY <1>1
       DEF StartCredentials, ValuesOK, FlagsOK, StartInv, SocketInv, UdpPorts, Shutdowns,
           udp, srtp, ends, metrics, published
<1>2. CASE BindSucceeds
  BY <1>2
       DEF BindSucceeds, ValuesOK, FlagsOK, StartInv, SocketInv, UdpPorts, Shutdowns, udp,
           srtp, main, ends, metrics, published
<1>3. CASE BindFails
  BY <1>3
       DEF BindFails, ValuesOK, FlagsOK, StartInv, SocketInv, UdpPorts, Shutdowns, udp,
           srtp, main, ends, metrics, published
<1>4. CASE StartMetrics
  BY <1>4
       DEF StartMetrics, SetServing, ValuesOK, FlagsOK, StartInv, SocketInv, UdpPorts,
           Shutdowns, udp, srtp, ends, published
<1>5. CASE StartSrtp
  BY <1>5
       DEF StartSrtp, SetServing, ValuesOK, FlagsOK, StartInv, SocketInv, UdpPorts,
           Shutdowns, udp, srtp, ends, published
<1>6. CASE StartFloorApi
  BY <1>6
       DEF StartFloorApi, ValuesOK, FlagsOK, StartInv, SocketInv, UdpPorts, Shutdowns, udp,
           srtp, ends, metrics, published
<1>7. CASE PacketReceived
  BY <1>7
       DEF PacketReceived, RecordReceived, ValuesOK, FlagsOK, StartInv, SocketInv, UdpPorts,
           Shutdowns, udp, srtp, main, ends, published
<1>8. CASE HelperReceives
  BY <1>8
       DEF HelperReceives, ValuesOK, FlagsOK, StartInv, SocketInv, UdpPorts, Shutdowns, udp,
           srtp, main, ends, metrics, published
<1>9. CASE HelperStats
  BY <1>9
       DEF HelperStats, ValuesOK, FlagsOK, StartInv, SocketInv, UdpPorts, Shutdowns, udp,
           main, ends, metrics, published
<1>10. CASE OnStats
  BY <1>10
       DEF OnStats, RecordReceived, ValuesOK, FlagsOK, StartInv, SocketInv, UdpPorts,
           Shutdowns, udp, srtp, main, ends, published
<1>11. CASE MetricsStep
  BY <1>11
       DEF MetricsStep, TimerFires, PublishNow, SendSucceeds, SendFails, ValuesOK, FlagsOK,
           StartInv, SocketInv, UdpPorts, Shutdowns, udp, srtp, main, published
<1>12. ASSUME NEW p \in SrtpPorts, HelperStarting(p) PROVE SocketInv'
  BY <1>12
       DEF HelperStarting, Transition, RecomputeServing, SetServing, ValuesOK, FlagsOK,
           StartInv, SocketInv, UdpPorts, Shutdowns, udp, srtp, main, ends, published
<1>13. ASSUME NEW p \in SrtpPorts, HelperMoves(p) PROVE SocketInv'
  BY <1>13
       DEF HelperMoves, Transition, RecomputeServing, SetServing, ValuesOK, FlagsOK,
           StartInv, SocketInv, UdpPorts, Shutdowns, udp, srtp, main, ends, published
<1>14. ASSUME NEW p \in SrtpPorts, SupervisorStops(p) PROVE SocketInv'
  BY <1>14
       DEF SupervisorStops, Transition, RecomputeServing, SetServing, ValuesOK, FlagsOK,
           StartInv, SocketInv, UdpPorts, Shutdowns, udp, srtp, main, ends, published
<1>15. ASSUME NEW i \in Shutdowns, Signal(i) PROVE SocketInv'
  BY <1>15
       DEF Signal, ValuesOK, FlagsOK, StartInv, SocketInv, UdpPorts, Shutdowns, udp, srtp,
           metrics, published
<1>16. ASSUME NEW i \in Shutdowns, CloseSockets(i) PROVE SocketInv'
  BY <1>16
       DEF CloseSockets, ValuesOK, FlagsOK, StartInv, SocketInv, UdpPorts, Shutdowns, udp,
           srtp, main, metrics, published
<1>17. ASSUME NEW i \in Shutdowns, StopFloorApi(i) PROVE SocketInv'
  BY <1>17
       DEF StopFloorApi, ValuesOK, FlagsOK, StartInv, SocketInv, UdpPorts, Shutdowns, udp,
           srtp, metrics, published
<1>18. ASSUME NEW i \in Shutdowns, StopTransport(i) PROVE SocketInv'
  BY <1>18
       DEF StopTransport, SetServing, ValuesOK, FlagsOK, StartInv, SocketInv, UdpPorts,
           Shutdowns, udp, srtp, main, published
<1>19. ASSUME NEW i \in Shutdowns, StopMetrics(i) PROVE SocketInv'
  BY <1>19
       DEF StopMetrics, ValuesOK, FlagsOK, StartInv, SocketInv, UdpPorts, Shutdowns, udp,
           srtp, metrics, published
<1>20. ASSUME NEW i \in Shutdowns, Finish(i) PROVE SocketInv'
  BY <1>20
       DEF Finish, ValuesOK, FlagsOK, StartInv, SocketInv, UdpPorts, Shutdowns, udp, srtp,
           metrics, published
<1>21. CASE UNCHANGED vars
  BY <1>21
       DEF vars, ValuesOK, FlagsOK, StartInv, SocketInv, UdpPorts, Shutdowns, udp, srtp,
           main, ends, metrics, published
<1>22. QED
  BY <1>1, <1>2, <1>3, <1>4, <1>5, <1>6, <1>7, <1>8, <1>9, <1>10, <1>11, <1>12, <1>13,
     <1>14, <1>15, <1>16, <1>17, <1>18, <1>19, <1>20, <1>21
       DEF Next, Starting, Traffic, Down

\* A supervisor is forgotten only after it was told and has ended.
LEMMA SupervisorStep ==
  ASSUME ValuesOK, FlagsOK, ~early', ~early, StartInv, SupervisorInv, [Next]_vars
  PROVE  SupervisorInv'
<1> USE ServiceAssumption, MetricsAssumption
<1>1. CASE StartCredentials
  BY <1>1
       DEF StartCredentials, ValuesOK, FlagsOK, StartInv, SupervisorInv, UdpPorts,
           Shutdowns, udp, srtp, ends, metrics, published
<1>2. CASE BindSucceeds
  BY <1>2
       DEF BindSucceeds, ValuesOK, FlagsOK, StartInv, SupervisorInv, UdpPorts, Shutdowns,
           udp, srtp, main, ends, metrics, published
<1>3. CASE BindFails
  BY <1>3
       DEF BindFails, ValuesOK, FlagsOK, StartInv, SupervisorInv, UdpPorts, Shutdowns, udp,
           srtp, main, ends, metrics, published
<1>4. CASE StartMetrics
  BY <1>4
       DEF StartMetrics, SetServing, ValuesOK, FlagsOK, StartInv, SupervisorInv, UdpPorts,
           Shutdowns, udp, srtp, ends, published
<1>5. CASE StartSrtp
  BY <1>5
       DEF StartSrtp, SetServing, ValuesOK, FlagsOK, StartInv, SupervisorInv, UdpPorts,
           Shutdowns, udp, srtp, ends, published
<1>6. CASE StartFloorApi
  BY <1>6
       DEF StartFloorApi, ValuesOK, FlagsOK, StartInv, SupervisorInv, UdpPorts, Shutdowns,
           udp, srtp, ends, metrics, published
<1>7. CASE PacketReceived
  BY <1>7
       DEF PacketReceived, RecordReceived, ValuesOK, FlagsOK, StartInv, SupervisorInv,
           UdpPorts, Shutdowns, udp, srtp, main, ends, published
<1>8. CASE HelperReceives
  BY <1>8
       DEF HelperReceives, ValuesOK, FlagsOK, StartInv, SupervisorInv, UdpPorts, Shutdowns,
           udp, srtp, main, ends, metrics, published
<1>9. CASE HelperStats
  BY <1>9
       DEF HelperStats, ValuesOK, FlagsOK, StartInv, SupervisorInv, UdpPorts, Shutdowns,
           udp, main, ends, metrics, published
<1>10. CASE OnStats
  BY <1>10
       DEF OnStats, RecordReceived, ValuesOK, FlagsOK, StartInv, SupervisorInv, UdpPorts,
           Shutdowns, udp, srtp, main, ends, published
<1>11. CASE MetricsStep
  BY <1>11
       DEF MetricsStep, TimerFires, PublishNow, SendSucceeds, SendFails, ValuesOK, FlagsOK,
           StartInv, SupervisorInv, UdpPorts, Shutdowns, udp, srtp, main, published
<1>12. ASSUME NEW p \in SrtpPorts, HelperStarting(p) PROVE SupervisorInv'
  BY <1>12
       DEF HelperStarting, Transition, RecomputeServing, SetServing, ValuesOK, FlagsOK,
           StartInv, SupervisorInv, UdpPorts, Shutdowns, udp, srtp, main, ends, published
<1>13. ASSUME NEW p \in SrtpPorts, HelperMoves(p) PROVE SupervisorInv'
  BY <1>13
       DEF HelperMoves, Transition, RecomputeServing, SetServing, ValuesOK, FlagsOK,
           StartInv, SupervisorInv, UdpPorts, Shutdowns, udp, srtp, main, ends, published
<1>14. ASSUME NEW p \in SrtpPorts, SupervisorStops(p) PROVE SupervisorInv'
  BY <1>14
       DEF SupervisorStops, Transition, RecomputeServing, SetServing, ValuesOK, FlagsOK,
           StartInv, SupervisorInv, UdpPorts, Shutdowns, udp, srtp, main, ends, published
<1>15. ASSUME NEW i \in Shutdowns, Signal(i) PROVE SupervisorInv'
  BY <1>15
       DEF Signal, ValuesOK, FlagsOK, StartInv, SupervisorInv, UdpPorts, Shutdowns, udp,
           srtp, metrics, published
<1>16. ASSUME NEW i \in Shutdowns, CloseSockets(i) PROVE SupervisorInv'
  BY <1>16
       DEF CloseSockets, ValuesOK, FlagsOK, StartInv, SupervisorInv, UdpPorts, Shutdowns,
           udp, srtp, main, metrics, published
<1>17. ASSUME NEW i \in Shutdowns, StopFloorApi(i) PROVE SupervisorInv'
  BY <1>17
       DEF StopFloorApi, ValuesOK, FlagsOK, StartInv, SupervisorInv, UdpPorts, Shutdowns,
           udp, srtp, metrics, published
<1>18. ASSUME NEW i \in Shutdowns, StopTransport(i) PROVE SupervisorInv'
  BY <1>18
       DEF StopTransport, SetServing, ValuesOK, FlagsOK, StartInv, SupervisorInv, UdpPorts,
           Shutdowns, udp, srtp, main, published
<1>19. ASSUME NEW i \in Shutdowns, StopMetrics(i) PROVE SupervisorInv'
  BY <1>19
       DEF StopMetrics, ValuesOK, FlagsOK, StartInv, SupervisorInv, UdpPorts, Shutdowns,
           udp, srtp, metrics, published
<1>20. ASSUME NEW i \in Shutdowns, Finish(i) PROVE SupervisorInv'
  BY <1>20
       DEF Finish, ValuesOK, FlagsOK, StartInv, SupervisorInv, UdpPorts, Shutdowns, udp,
           srtp, metrics, published
<1>21. CASE UNCHANGED vars
  BY <1>21
       DEF vars, ValuesOK, FlagsOK, StartInv, SupervisorInv, UdpPorts, Shutdowns, udp, srtp,
           main, ends, metrics, published
<1>22. QED
  BY <1>1, <1>2, <1>3, <1>4, <1>5, <1>6, <1>7, <1>8, <1>9, <1>10, <1>11, <1>12, <1>13,
     <1>14, <1>15, <1>16, <1>17, <1>18, <1>19, <1>20, <1>21
       DEF Next, Starting, Traffic, Down

\* Once a shutdown() has published, nothing is received any more.
LEMMA PublishStep ==
  ASSUME CountsOK, FlagsOK, ValuesOK, ~early', ~early, StartInv, SocketInv, SupervisorInv, PublishInv, [Next]_vars
  PROVE  PublishInv'
<1> USE ServiceAssumption, MetricsAssumption
<1>1. CASE StartCredentials
  BY Counters, <1>1
       DEF StartCredentials, CountsOK, FlagsOK, ValuesOK, StartInv, SocketInv,
           SupervisorInv, PublishInv, Drained, InFlight, UdpPorts, Shutdowns, udp, srtp,
           ends, metrics, published
<1>2. CASE BindSucceeds
  BY Counters, <1>2
       DEF BindSucceeds, CountsOK, FlagsOK, ValuesOK, StartInv, SocketInv, SupervisorInv,
           PublishInv, Drained, InFlight, UdpPorts, Shutdowns, udp, srtp, main, ends,
           metrics, published
<1>3. CASE BindFails
  BY Counters, <1>3
       DEF BindFails, CountsOK, FlagsOK, ValuesOK, StartInv, SocketInv, SupervisorInv,
           PublishInv, Drained, InFlight, UdpPorts, Shutdowns, udp, srtp, main, ends,
           metrics, published
<1>4. CASE StartMetrics
  BY Counters, <1>4
       DEF StartMetrics, SetServing, CountsOK, FlagsOK, ValuesOK, StartInv, SocketInv,
           SupervisorInv, PublishInv, Drained, InFlight, UdpPorts, Shutdowns, udp, srtp,
           ends, published
<1>5. CASE StartSrtp
  BY Counters, <1>5
       DEF StartSrtp, SetServing, CountsOK, FlagsOK, ValuesOK, StartInv, SocketInv,
           SupervisorInv, PublishInv, Drained, InFlight, UdpPorts, Shutdowns, udp, srtp,
           ends, published
<1>6. CASE StartFloorApi
  BY Counters, <1>6
       DEF StartFloorApi, CountsOK, FlagsOK, ValuesOK, StartInv, SocketInv, SupervisorInv,
           PublishInv, Drained, InFlight, UdpPorts, Shutdowns, udp, srtp, ends, metrics,
           published
<1>7. CASE PacketReceived
  BY Counters, <1>7
       DEF PacketReceived, RecordReceived, CountsOK, FlagsOK, ValuesOK, StartInv, SocketInv,
           SupervisorInv, PublishInv, Drained, InFlight, UdpPorts, Shutdowns, udp, srtp,
           main, ends, published
<1>8. CASE HelperReceives
  BY Counters, <1>8
       DEF HelperReceives, CountsOK, FlagsOK, ValuesOK, StartInv, SocketInv, SupervisorInv,
           PublishInv, Drained, InFlight, UdpPorts, Shutdowns, udp, srtp, main, ends,
           metrics, published
<1>9. CASE HelperStats
  BY Counters, <1>9
       DEF HelperStats, CountsOK, FlagsOK, ValuesOK, StartInv, SocketInv, SupervisorInv,
           PublishInv, Drained, InFlight, UdpPorts, Shutdowns, udp, main, ends, metrics,
           published
<1>10. CASE OnStats
  BY Counters, <1>10
       DEF OnStats, RecordReceived, CountsOK, FlagsOK, ValuesOK, StartInv, SocketInv,
           SupervisorInv, PublishInv, Drained, InFlight, UdpPorts, Shutdowns, udp, srtp,
           main, ends, published
<1>11. CASE MetricsStep
  <2>1. CASE TimerFires /\ UNCHANGED ticket
    BY <1>11, <2>1 DEF MetricsStep, TimerFires, PublishInv, Drained, InFlight, main, published
  <2>2. CASE PublishNow /\ UNCHANGED ticket
    BY <1>11, <2>2 DEF MetricsStep, PublishNow, PublishInv, Drained, InFlight, main, published
  <2>3. CASE /\ SendSucceeds \/ SendFails
             /\ ticket' = [i \in Shutdowns |-> IF ticket[i] > 0 THEN ticket[i] - 1 ELSE 0]
    <3>1. ~InFlight' /\ InFlight
      BY <2>3 DEF SendSucceeds, SendFails, InFlight
    <3>2. UNCHANGED <<start, hasMetrics, down, exit>>
      BY <1>11 DEF MetricsStep, main
    <3>3. received = Nothing => Drained'
      <4>1. Plus(Nothing, Nothing) = Nothing
        BY DEF Plus, Nothing
      <4>2. QED
        BY <2>3, <3>1, <4>1 DEF SendSucceeds, SendFails, Drained
    <3>4. ASSUME NEW i \in Shutdowns, down'[i] = "metrics", ticket'[i] = 0
          PROVE  Drained'
      <4>1. ticket[i] = 0 \/ ticket[i] = 1
        BY <2>3, <3>4 DEF ValuesOK
      <4>2. QED
        BY <3>1, <3>2, <3>3, <3>4, <4>1 DEF PublishInv, Drained
    <3>5. ASSUME NEW i \in Shutdowns, down'[i] = "pipelines" PROVE Drained'
      BY <3>1, <3>2, <3>3, <3>5 DEF PublishInv, Drained
    <3>6. QED
      BY <3>1, <3>2, <3>4, <3>5 DEF PublishInv
  <2>4. QED
    BY <1>11, <2>1, <2>2, <2>3 DEF MetricsStep
<1>12. ASSUME NEW p \in SrtpPorts, HelperStarting(p) PROVE PublishInv'
  BY Counters, <1>12
       DEF HelperStarting, Transition, RecomputeServing, SetServing, CountsOK, FlagsOK,
           ValuesOK, StartInv, SocketInv, SupervisorInv, PublishInv, Drained, InFlight,
           UdpPorts, Shutdowns, udp, srtp, main, ends, published
<1>13. ASSUME NEW p \in SrtpPorts, HelperMoves(p) PROVE PublishInv'
  <2>1. UNCHANGED <<received, sample, sendFailed, start, hasMetrics, down, ticket, exit>>
    BY <1>13 DEF HelperMoves, Transition, main, ends, published
  <2>2. QED
    BY <2>1 DEF PublishInv, Drained, InFlight
<1>14. ASSUME NEW p \in SrtpPorts, SupervisorStops(p) PROVE PublishInv'
  BY Counters, <1>14
       DEF SupervisorStops, Transition, RecomputeServing, SetServing, CountsOK, FlagsOK,
           ValuesOK, StartInv, SocketInv, SupervisorInv, PublishInv, Drained, InFlight,
           UdpPorts, Shutdowns, udp, srtp, main, ends, published
<1>15. ASSUME NEW i \in Shutdowns, Signal(i) PROVE PublishInv'
  BY Counters, <1>15
       DEF Signal, CountsOK, FlagsOK, ValuesOK, StartInv, SocketInv, SupervisorInv,
           PublishInv, Drained, InFlight, UdpPorts, Shutdowns, udp, srtp, metrics, published
<1>16. ASSUME NEW i \in Shutdowns, CloseSockets(i) PROVE PublishInv'
  <2>1. /\ UNCHANGED <<received, sample, sendFailed, start, hasMetrics, ticket>>
        /\ exit' = exit \/ exit' = "1"
    BY <1>16 DEF CloseSockets, main, metrics, published
  <2>2. \A j \in Shutdowns : down'[j] = down[j] \/ (down[j] = "health" /\ down'[j] = "udp")
    BY <1>16 DEF CloseSockets, ValuesOK
  <2>3. QED
    BY <2>1, <2>2 DEF PublishInv, Drained, InFlight
<1>17. ASSUME NEW i \in Shutdowns, StopFloorApi(i) PROVE PublishInv'
  BY Counters, <1>17
       DEF StopFloorApi, CountsOK, FlagsOK, ValuesOK, StartInv, SocketInv, SupervisorInv,
           PublishInv, Drained, InFlight, UdpPorts, Shutdowns, udp, srtp, metrics, published
<1>18. ASSUME NEW i \in Shutdowns, StopTransport(i) PROVE PublishInv'
  BY Counters, <1>18
       DEF StopTransport, SetServing, CountsOK, FlagsOK, ValuesOK, StartInv, SocketInv,
           SupervisorInv, PublishInv, Drained, InFlight, UdpPorts, Shutdowns, udp, srtp,
           main, published
<1>19. ASSUME NEW i \in Shutdowns, StopMetrics(i) PROVE PublishInv'
  <2>1. UNCHANGED <<received, sample, sendFailed, start, hasMetrics, exit>>
    BY <1>19 DEF StopMetrics, published
  <2>2. start = "up" /\ down[i] \in {"srtp", "floorApi"}
    BY <1>19 DEF StopMetrics, StartInv
  <2>3. /\ down'[i] = "metrics"
        /\ \A j \in Shutdowns : j # i => down'[j] = down[j] /\ ticket'[j] = ticket[j]
    BY <1>19 DEF StopMetrics, ValuesOK
  <2>4. InFlight' = InFlight /\ Drained' = Drained
    BY <2>1 DEF InFlight, Drained
  <2>5. CASE hasMetrics
    <3>1. ticket'[i] # 0 /\ (ticket'[i] = 1 => ~InFlight)
      BY <1>19, <2>5 DEF StopMetrics, ValuesOK, CountsOK
    <3>2. QED
      BY <2>1, <2>2, <2>3, <2>4, <2>5, <3>1 DEF PublishInv
  <2>6. CASE ~hasMetrics
    <3>1. PICK k \in Shutdowns : down[k] = "pipelines"
      BY <2>2, <2>6 DEF PublishInv
    <3>2. Drained /\ k # i
      BY <2>2, <3>1 DEF PublishInv
    <3>3. InFlight => received = Nothing
      BY <3>2 DEF Drained
    <3>4. QED
      BY <2>1, <2>2, <2>3, <2>4, <2>6, <3>1, <3>2, <3>3 DEF PublishInv
  <2>7. QED
    BY <2>5, <2>6
<1>20. ASSUME NEW i \in Shutdowns, Finish(i) PROVE PublishInv'
  BY Counters, <1>20
       DEF Finish, CountsOK, FlagsOK, ValuesOK, StartInv, SocketInv, SupervisorInv,
           PublishInv, Drained, InFlight, UdpPorts, Shutdowns, udp, srtp, metrics, published
<1>21. CASE UNCHANGED vars
  BY Counters, <1>21
       DEF vars, CountsOK, FlagsOK, ValuesOK, StartInv, SocketInv, SupervisorInv,
           PublishInv, Drained, InFlight, UdpPorts, Shutdowns, udp, srtp, main, ends,
           metrics, published
<1>22. QED
  BY <1>1, <1>2, <1>3, <1>4, <1>5, <1>6, <1>7, <1>8, <1>9, <1>10, <1>11, <1>12, <1>13,
     <1>14, <1>15, <1>16, <1>17, <1>18, <1>19, <1>20, <1>21
       DEF Next, Starting, Traffic, Down

\* The invariant of start() and shutdown() is inductive; once a signal overtook
\* start(), early stays.
LEMMA ShutdownStep ==
  ASSUME TypeOK, ShutdownInv, [Next]_vars
  PROVE  ShutdownInv'
<1> SUFFICES ASSUME ~early' PROVE ShutdownInv'
  BY DEF ShutdownInv
<1>1. CountsOK /\ FlagsOK /\ ValuesOK
  BY TypeParts
<1>2. ~early
  BY DEF Next, Starting, Traffic, Down, vars, main, StartCredentials, BindSucceeds,
         BindFails, StartMetrics, StartSrtp, StartFloorApi, PacketReceived, HelperReceives,
         HelperStats, OnStats, MetricsStep, HelperStarting, HelperMoves, SupervisorStops,
         Transition, Signal, CloseSockets, StopFloorApi, StopTransport, StopMetrics, Finish
<1>3. StartInv /\ SocketInv /\ SupervisorInv /\ PublishInv
  BY <1>2 DEF ShutdownInv
<1>4. QED
  BY <1>1, <1>2, <1>3, StartStep, SocketStep, SupervisorStep, PublishStep DEF ShutdownInv

\* A process that exited in order had a shutdown() that did all of its work.
LEMMA ExitedClean ==
  ASSUME TypeOK, ShutdownInv, Account
  PROVE  ExitHoldsNothing
<1> SUFFICES ASSUME exit = "0", ~early
             PROVE  /\ \A p \in UdpPorts : sock[p] = "closed"
                    /\ ~api
                    /\ \A p \in SrtpPorts : sup[p] = "none"
                    /\ ~sendFailed => counted = Plus(total, doubled)
  BY DEF ExitHoldsNothing
<1>1. CountsOK /\ ValuesOK
  BY TypeParts
<1>2. PICK i \in Shutdowns : down[i] = "pipelines"
  BY DEF ShutdownInv, PublishInv
<1>3. \A p \in UdpPorts : sock[p] = "closed"
  BY <1>2 DEF ShutdownInv, SocketInv
<1>4. ~api /\ \A p \in SrtpPorts : sup[p] = "none"
  BY <1>2 DEF ShutdownInv, SupervisorInv
<1>5. ASSUME ~sendFailed PROVE counted = Plus(total, doubled)
  <2>1. received = Nothing /\ (InFlight => sample = Nothing)
    BY <1>2, <1>5 DEF ShutdownInv, PublishInv, Drained
  <2>2. \A t \in Transports : Nothing[t] = 0
    BY DEF Nothing
  <2>3. \A t \in Transports : counted[t] = total[t] + doubled[t]
    BY <1>1, <2>1, <2>2 DEF Account, CountsOK
  <2>4. QED
    BY <1>1, <2>3 DEF Plus, CountsOK
<1>6. QED
  BY <1>3, <1>4, <1>5

\* An orderly exit leaves nothing behind (Service.ExitHoldsNothing), for any number of
\* ports and signals: the shutdown() calls may overlap in any way, as long as none
\* began before start() was through.
THEOREM SpecExitHoldsNothing == Spec => []ExitHoldsNothing
<1>1. Init => ShutdownInv
  BY ServiceAssumption
     DEF Init, MetricsInit, ShutdownInv, StartInv, SocketInv, SupervisorInv, PublishInv,
         UdpPorts, Shutdowns
<1>2. Init => Account
  BY DEF Init, MetricsInit, Account, InFlight, Nothing
<1>3. TypeOK /\ BaselineInv /\ Account /\ [Next]_vars => Account'
  BY TypeParts, AccountStep
<1>4. TypeOK /\ ShutdownInv /\ Account => ExitHoldsNothing
  BY ExitedClean
<1>5. QED
  BY <1>1, <1>2, <1>3, <1>4, InitTypeOK, TypeStep, ShutdownStep, PTL DEF Spec

==============================================================================
