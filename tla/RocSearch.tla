------------------------------ MODULE RocSearch ------------------------------
(***************************************************************************)
(* The search for the sender's rollover counter: class Search of           *)
(* srtp_port.py, the sessions that start it over, and the position of the  *)
(* far climb that the helper and the supervisor carry from one session to  *)
(* the next.                                                               *)
(*                                                                         *)
(* Whether a candidate authenticates is left open: a session may end, or   *)
(* be rebuilt, after any trial.                                            *)
(***************************************************************************)
EXTENDS Integers, Sequences

CONSTANTS RocMax,       \* ROC_MAX: 2^32 - 1
          Window,       \* RESWEEP_WINDOW
          FloorEvery,   \* --floor-every, at least 1
          MinTrials     \* candidates an unhurried session tries

ASSUME RocAssumption ==
  RocMax \in Nat /\ Window \in Nat /\ FloorEvery \in Nat \ {0} /\ MinTrials \in Nat

None == -1

NoCarry == [base |-> None, from |-> None]

VARIABLES
  base, farStart, far, near, sinceFloor, farTurn, resweep,  \* Search's fields
  candidate,    \* SrtpPort.candidate
  carried,      \* SrtpPort.carried_search_from
  sessionBase,  \* SrtpPortSupervisor.sessionFloorBase
  carry,        \* SrtpPortSupervisor.searchFromCarry
  report,       \* searchFrom of the last `auth fail` frame not yet handled
  recent        \* history: what this search offered last, at most Cycle of it

search == <<base, farStart, far, near, sinceFloor, farTurn, resweep>>
vars == <<search, candidate, carried, sessionBase, carry, report, recent>>

Roc == 0..RocMax

\* From one offer of the floor to the next.
Cycle == FloorEvery + Window + 1

TypeOK ==
  /\ base \in Roc /\ candidate \in Roc
  /\ far \in 1..(RocMax + 1) /\ near \in 1..(RocMax + 1)
  /\ farStart \in 1..(RocMax + 1)
  /\ sinceFloor \in -1..FloorEvery /\ resweep \in 0..Window
  /\ farTurn \in BOOLEAN
  /\ carried \in -1..(RocMax + 1) /\ report \in -1..(RocMax + 1)
  /\ sessionBase \in Roc
  /\ carry.base \in -1..RocMax /\ carry.from \in -1..RocMax
  /\ recent \in Seq(Roc)

-----------------------------------------------------------------------------
\* Mutant of FarStart: a position below the floor is taken over.
FarStartUnchecked(b, from) == IF from # None /\ from <= RocMax THEN from ELSE b + 1

\* Search.__init__: where the far climb starts.
FarStart(b, from) == IF b < from /\ from <= RocMax THEN from ELSE b + 1

\* _reset_session: a new search, and its first candidate - the seed, or the
\* first __next__, which offers the floor.
StartSearch(b, from, seed) ==
  /\ base' = b /\ near' = b + 1 /\ farTurn' = FALSE
  /\ farStart' = FarStart(b, from) /\ far' = FarStart(b, from)
  /\ \/ /\ seed = None /\ candidate' = b /\ recent' = <<b>>
        /\ sinceFloor' = IF b = RocMax THEN None ELSE 0
        /\ resweep' = IF b = RocMax THEN 0 ELSE Window
     \/ /\ seed \in b..RocMax /\ candidate' = seed /\ recent' = <<>>
        /\ sinceFloor' = None /\ resweep' = 0

\* _advance_search_if_tried around the next candidate: the far climb's position
\* is kept and reported with the failure.
Offer(c) ==
  /\ candidate' = c
  /\ carried' = far' /\ report' = far'
  /\ recent' = IF Len(recent) < Cycle THEN Append(recent, c)
                                      ELSE Append(Tail(recent), c)
  /\ UNCHANGED <<base, farStart, sessionBase, carry>>

\* The floor is the top of the counter space: nothing else to offer.
OfferTop ==
  /\ base = RocMax
  /\ UNCHANGED <<far, near, sinceFloor, farTurn, resweep>>
  /\ Offer(base)

\* Mutant of OfferFloor: the floor alone, without the counters above it.
OfferFloorOnly ==
  /\ base < RocMax
  /\ sinceFloor = None \/ sinceFloor >= FloorEvery
  /\ sinceFloor' = 0
  /\ UNCHANGED <<far, near, farTurn, resweep>>
  /\ Offer(base)

OfferFloor ==
  /\ base < RocMax
  /\ sinceFloor = None \/ sinceFloor >= FloorEvery
  /\ sinceFloor' = 0 /\ resweep' = Window
  /\ UNCHANGED <<far, near, farTurn>>
  /\ Offer(base)

Climbing == base < RocMax /\ sinceFloor # None /\ sinceFloor < FloorEvery

\* The counters just above the floor, clamped to the top.
Swept == LET c == base + (Window - resweep + 1) IN IF c < RocMax THEN c ELSE RocMax

OfferResweep ==
  /\ Climbing /\ resweep > 0
  /\ resweep' = resweep - 1
  /\ UNCHANGED <<far, near, sinceFloor, farTurn>>
  /\ Offer(Swept)

\* Mutant of NearTurn: the near climb does not stop.
NearTurnAlways == farTurn

\* The near climb's turn, unless it has reached where the far one started.
NearTurn == farTurn /\ near < farStart

ClimbNear ==
  /\ Climbing /\ resweep = 0 /\ NearTurn
  /\ sinceFloor' = sinceFloor + 1
  /\ farTurn' = FALSE /\ near' = near + 1
  /\ UNCHANGED <<far, resweep>>
  /\ Offer(near)

\* Mutant of ClimbFar: it does not wrap at the top.
ClimbFarOver ==
  /\ Climbing /\ resweep = 0 /\ ~NearTurn
  /\ sinceFloor' = sinceFloor + 1
  /\ farTurn' = TRUE
  /\ far' = far + 1
  /\ UNCHANGED <<near, resweep>>
  /\ Offer(far)

ClimbFar ==
  /\ Climbing /\ resweep = 0 /\ ~NearTurn
  /\ sinceFloor' = sinceFloor + 1
  /\ farTurn' = TRUE
  /\ far' = IF far < RocMax THEN far + 1 ELSE base + 1
  /\ UNCHANGED <<near, resweep>>
  /\ Offer(far)

Advance == OfferTop \/ OfferFloor \/ OfferResweep \/ ClimbNear \/ ClimbFar

-----------------------------------------------------------------------------
\* _reset_session in a running helper: everything accepted has raised the floor,
\* and the far climb goes on where it was.
Rebuild(b, seed) ==
  /\ b >= base
  /\ StartSearch(b, carried, seed)
  /\ UNCHANGED <<carried, sessionBase, carry, report>>

\* Mutant of Spawn: every helper starts its climb over.
SpawnAfresh(b) ==
  /\ sessionBase' = b
  /\ carried' = None
  /\ StartSearch(b, None, None)
  /\ UNCHANGED report

\* spawnSession with a floor that has base b: a position carried from another
\* base is dropped.
Spawn(b) ==
  /\ sessionBase' = b
  /\ carried' = IF carry'.base = b THEN carry'.from ELSE None
  /\ StartSearch(b, carried', None)
  /\ UNCHANGED report

\* The next helper.  The persisted floor may lag behind what the old one
\* accepted, but not behind where it started.
NextHelper(b) == b >= sessionBase /\ UNCHANGED carry /\ Spawn(b)

\* handleFloorReset: any floor may follow, and the position is dropped.
FloorReset(b) == carry' = NoCarry /\ Spawn(b)

\* handleFrame of an `auth fail`, of the running session or of a replaced one: it
\* is filed under the base of the session running now.  A value outside the
\* counter space does not parse.
HandleFail ==
  /\ report # None
  /\ report' = None
  /\ carry' = IF report <= RocMax THEN [base |-> sessionBase, from |-> report] ELSE carry
  /\ UNCHANGED <<search, candidate, carried, sessionBase, recent>>

-----------------------------------------------------------------------------
\* No floor is known, and nothing is carried.
Init ==
  /\ base = 0 /\ farStart = 1 /\ far = 1 /\ near = 1
  /\ sinceFloor = IF RocMax = 0 THEN None ELSE 0
  /\ farTurn = FALSE /\ resweep = IF RocMax = 0 THEN 0 ELSE Window
  /\ candidate = 0 /\ recent = <<0>>
  /\ carried = None /\ sessionBase = 0 /\ carry = NoCarry /\ report = None

Next ==
  \/ Advance \/ HandleFail
  \/ \E b \in Roc :
       NextHelper(b) \/ FloorReset(b) \/ \E seed \in {None} \cup Roc : Rebuild(b, seed)

Spec == Init /\ [][Next]_vars

\* Fairness: datagrams that do not authenticate keep coming, so trials fail; frames
\* are handled.
FairSpec == Spec /\ WF_vars(Advance) /\ WF_vars(HandleFail)

\* A session that lasts at least MinTrials, whose frames are handled before the
\* next helper is spawned, a restart delay later.  A reset that leaves the base
\* where it is drops the position, so none of those either.
Unhurried == Len(recent) >= MinTrials

PromptNext ==
  \/ Advance \/ HandleFail
  \/ \E b \in Roc :
       /\ Unhurried
       /\ \/ report = None /\ NextHelper(b)
          \/ report = None /\ b # base /\ FloorReset(b)
          \/ \E seed \in {None} \cup Roc : Rebuild(b, seed)

-----------------------------------------------------------------------------
\* Nothing below the floor is ever offered, nor anything outside the counter
\* space (Search: "Nothing below it is ever offered").
NothingBelowFloor == base <= candidate /\ candidate <= RocMax

\* What the far climb carries to the next session lies above the floor it climbs
\* from, and the near climb never enters the far climb's part.
ClimbsAboveFloor ==
  /\ base < near /\ near <= farStart
  /\ base < far /\ (base < RocMax => far <= RocMax /\ farStart <= RocMax)

\* However far the climbs have gone, the floor and the counters just above it
\* come round again: every Cycle candidates hold them all (the re-sweep's
\* "must be reachable again after traffic ... walked the climbing search past").
LikelyCountersReturn ==
  Len(recent) = Cycle =>
    \A c \in base..RocMax : c <= base + Window => \E n \in 1..Cycle : recent[n] = c

\* Once the floor stays put and sessions are unhurried, every counter from the floor
\* up is offered again and again, though every session ends after a few trials
\* (Search: "With the far climb carried over, every counter above the floor is
\* reached eventually").
EveryCounterReached ==
  <>[][PromptNext]_vars /\ (\E b \in Roc : <>[](base = b)) =>
    \A c \in Roc : []<>(c < base \/ candidate = c)

=============================================================================
