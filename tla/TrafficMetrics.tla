---------------------------- MODULE TrafficMetrics ----------------------------
(***************************************************************************)
(* TrafficMetrics.ts: what each transport received since the last publish, *)
(* whether it serves, and the chain of publishes to CloudWatch.  With a    *)
(* client; without STACK_NAME nothing is ever published.                   *)
(***************************************************************************)
EXTENDS Integers

CONSTANTS MaxQueued,     \* bound: publishes waiting on publishChain
          MaxLostAnswers \* bound: requests CloudWatch took whose answer was lost

ASSUME MetricsAssumption == MaxQueued \in Nat \ {0} /\ MaxLostAnswers \in Nat

Transports == {"unencrypted", "srtp"}

VARIABLES
  received, serving,
  timer,      \* the publish interval is armed
  queued,     \* publishes on the chain that have not begun
  sample,     \* the bytes of the request in flight, or NoSample
  \* History, for stating properties only.
  counted,    \* bytes CloudWatch has, per transport
  doubled,    \* of those, the ones it has twice
  lostAnswers,
  sendFailed  \* the last request failed, and it had bytes to report

published == <<counted, doubled, lostAnswers, sendFailed>>
metrics == <<received, serving, timer, queued, sample, published>>

Nothing == [t \in Transports |-> 0]
NoSample == [t \in Transports |-> -1]
InFlight == sample # NoSample

MetricsTypeOK ==
  /\ received \in [Transports -> Nat] /\ serving \in [Transports -> BOOLEAN]
  /\ timer \in BOOLEAN /\ queued \in Nat
  /\ sample \in [Transports -> Nat] \cup {NoSample}
  /\ counted \in [Transports -> Nat] /\ doubled \in [Transports -> Nat]
  /\ lostAnswers \in 0..MaxLostAnswers /\ sendFailed \in BOOLEAN

MetricsInit ==
  /\ received = Nothing /\ serving = [t \in Transports |-> FALSE]
  /\ timer = FALSE /\ queued = 0 /\ sample = NoSample
  /\ counted = Nothing /\ doubled = Nothing
  /\ lostAnswers = 0 /\ sendFailed = FALSE

Plus(f, g) == [t \in Transports |-> f[t] + g[t]]

\* recordReceived
RecordReceived(t, bytes) == received' = [received EXCEPT ![t] = @ + bytes]

\* setServing
SetServing(t, b) == serving' = [serving EXCEPT ![t] = b]

\* The interval: one more publish on the chain.
TimerFires ==
  /\ timer /\ queued < MaxQueued
  /\ queued' = queued + 1
  /\ UNCHANGED <<received, serving, timer, sample, published>>

\* publishNow up to its await: the snapshot is taken and the counters cleared.
PublishNow ==
  /\ queued > 0 /\ ~InFlight
  /\ queued' = queued - 1
  /\ sample' = received /\ received' = Nothing
  /\ UNCHANGED <<serving, timer, published>>

SendSucceeds ==
  /\ InFlight
  /\ counted' = Plus(counted, sample) /\ sample' = NoSample
  /\ sendFailed' = FALSE
  /\ UNCHANGED <<received, serving, timer, queued, doubled, lostAnswers>>

\* Mutant of SendFails: the bytes of the request are gone.
SendFailsDrops ==
  /\ InFlight
  /\ sample' = NoSample
  /\ sendFailed' = (sample # Nothing)
  /\ UNCHANGED <<received, serving, timer, queued, counted, doubled, lostAnswers>>

\* The request failed, as far as this end can tell: the snapshot is restored.
SendFails ==
  /\ InFlight
  /\ received' = Plus(received, sample) /\ sample' = NoSample
  /\ \/ UNCHANGED <<counted, doubled, lostAnswers>>
     \/ /\ sample # Nothing /\ lostAnswers < MaxLostAnswers /\ lostAnswers' = lostAnswers + 1
        /\ counted' = Plus(counted, sample) /\ doubled' = Plus(doubled, sample)
  /\ sendFailed' = (sample # Nothing)
  /\ UNCHANGED <<serving, timer, queued>>

=============================================================================
