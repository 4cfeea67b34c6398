--------------------------- MODULE RocSearchProofs ---------------------------
(***************************************************************************)
(* The search stays above the floor for every counter space, window and    *)
(* floor interval - in particular for 2^32 counters, a window of 16 and an *)
(* interval of 512 - and whatever position is carried into a session.      *)
(***************************************************************************)
EXTENDS RocSearch, TLAPS

SearchInv == TypeOK /\ NothingBelowFloor /\ ClimbsAboveFloor

\* The arithmetic of TypeOK, without the history.
Counters ==
  /\ base \in Roc /\ candidate \in Roc
  /\ far \in 1..(RocMax + 1) /\ near \in 1..(RocMax + 1) /\ farStart \in 1..(RocMax + 1)
  /\ sinceFloor \in -1..FloorEvery /\ resweep \in 0..Window

Carries ==
  /\ carried \in -1..(RocMax + 1) /\ report \in -1..(RocMax + 1)
  /\ sessionBase \in Roc
  /\ carry.base \in -1..RocMax /\ carry.from \in -1..RocMax

\* The history of offers stays a sequence of counters.
LEMMA SequenceTypes ==
  ASSUME NEW S
  PROVE  /\ <<>> \in Seq(S) /\ \A a \in S : <<a>> \in Seq(S)
         /\ \A s \in Seq(S) : s # <<>> => Tail(s) \in Seq(S)
         /\ \A s \in Seq(S) : \A a \in S : Append(s, a) \in Seq(S)
         /\ \A s \in Seq(S) : Len(s) \in Nat /\ (Len(s) > 0 => s # <<>>)
OBVIOUS

\* Where the far climb starts: above the floor, and inside the counter space when
\* there is anything above the floor.
LEMMA FarStartAbove ==
  ASSUME NEW b \in Roc, NEW from \in -1..(RocMax + 1)
  PROVE  /\ FarStart(b, from) \in 1..(RocMax + 1) /\ b < FarStart(b, from)
         /\ b < RocMax => FarStart(b, from) <= RocMax
BY RocAssumption DEF FarStart, Roc

\* A new search (_reset_session) starts on or above its floor.
LEMMA StartStep ==
  ASSUME NEW b \in Roc, NEW from \in -1..(RocMax + 1), NEW seed, StartSearch(b, from, seed)
  PROVE  /\ Counters' /\ NothingBelowFloor' /\ ClimbsAboveFloor'
         /\ farTurn' \in BOOLEAN /\ recent' \in Seq(Roc)
<1>1. FarStart(b, from) \in 1..(RocMax + 1) /\ b < FarStart(b, from)
      /\ (b < RocMax => FarStart(b, from) <= RocMax)
  BY FarStartAbove
<1>2. base' = b /\ near' = b + 1
      /\ farStart' = FarStart(b, from) /\ far' = FarStart(b, from)
  BY DEF StartSearch
<1>3. candidate' \in b..RocMax
  BY RocAssumption DEF StartSearch, Roc
<1>3a. sinceFloor' \in -1..0
  BY DEF StartSearch, None
<1>3b. resweep' \in {0, Window}
  BY DEF StartSearch
<1>4. recent' \in Seq(Roc)
  <2>1. recent' = <<b>> \/ recent' = <<>>
    BY DEF StartSearch
  <2> QED
    BY <2>1, SequenceTypes
<1>5. Counters'
  <2>1. sinceFloor' \in -1..FloorEvery /\ resweep' \in 0..Window
    BY <1>3a, <1>3b, RocAssumption
  <2>2. candidate' \in Roc /\ near' \in 1..(RocMax + 1)
    BY <1>2, <1>3, RocAssumption DEF Roc
  <2> QED
    BY <1>1, <1>2, <2>1, <2>2 DEF Counters
<1>6. NothingBelowFloor' /\ ClimbsAboveFloor'
  BY <1>1, <1>2, <1>3, RocAssumption DEF NothingBelowFloor, ClimbsAboveFloor, Roc
<1>7. farTurn' \in BOOLEAN
  BY DEF StartSearch
<1> QED
  BY <1>4, <1>5, <1>6, <1>7

\* One failed trial (Search.__next__) offers a counter on or above the floor.
LEMMA AdvanceStep ==
  ASSUME SearchInv, Advance
  PROVE  SearchInv'
<1>0. Counters /\ Carries /\ NothingBelowFloor /\ ClimbsAboveFloor /\ recent \in Seq(Roc)
      /\ farTurn \in BOOLEAN
  BY DEF SearchInv, TypeOK, Counters, Carries
<1>1. ASSUME NEW c \in base..RocMax, Offer(c),
             far' \in 1..(RocMax + 1), near' \in 1..(RocMax + 1), farTurn' \in BOOLEAN,
             sinceFloor' \in -1..FloorEvery, resweep' \in 0..Window,
             ClimbsAboveFloor'
      PROVE  SearchInv'
  <2>1. /\ candidate' = c /\ carried' = far' /\ report' = far'
        /\ UNCHANGED <<base, farStart, sessionBase, carry>>
    BY <1>1 DEF Offer
  <2>2. c \in Roc
    BY <1>0, RocAssumption DEF Counters, Roc
  <2>3. recent' \in Seq(Roc)
    <3>1. CASE Len(recent) < Cycle
      BY <1>0, <1>1, <2>2, <3>1, SequenceTypes DEF Offer
    <3>2. CASE ~(Len(recent) < Cycle)
      <4>1. Cycle \in Nat /\ Cycle > 0
        BY RocAssumption DEF Cycle
      <4>2. recent # <<>>
        BY <1>0, <3>2, <4>1, SequenceTypes
      <4>3. Tail(recent) \in Seq(Roc)
        BY <1>0, <4>2, SequenceTypes
      <4>4. recent' = Append(Tail(recent), c)
        BY <1>1, <3>2 DEF Offer
      <4> QED
        BY <2>2, <4>3, <4>4, SequenceTypes
    <3> QED
      BY <3>1, <3>2
  <2>4. Counters'
    BY <1>0, <1>1, <2>1, <2>2 DEF Counters
  <2>5. Carries'
    BY <1>0, <1>1, <2>1, RocAssumption DEF Carries
  <2>6. NothingBelowFloor'
    BY <1>0, <2>1, RocAssumption DEF NothingBelowFloor, Counters, Roc
  <2> QED
    BY <1>1, <2>3, <2>4, <2>5, <2>6 DEF SearchInv, TypeOK, Counters, Carries
<1> USE RocAssumption DEF Counters, NothingBelowFloor, ClimbsAboveFloor, Roc
<1>2. CASE OfferTop
  <2>1. base \in base..RocMax /\ UNCHANGED <<base, far, near, farStart, sinceFloor, farTurn, resweep>>
    BY <1>0, <1>2 DEF OfferTop, Offer
  <2> QED
    BY <1>0, <1>1, <1>2, <2>1 DEF OfferTop
<1>3. CASE OfferFloor
  <2>1. base \in base..RocMax /\ UNCHANGED <<base, far, near, farStart, farTurn>>
        /\ sinceFloor' = 0 /\ resweep' = Window
    BY <1>0, <1>3 DEF OfferFloor, Offer
  <2> QED
    BY <1>0, <1>1, <1>3, <2>1 DEF OfferFloor
<1>4. CASE OfferResweep
  <2>1. Swept \in base..RocMax
    BY <1>0, <1>4 DEF OfferResweep, Climbing, Swept
  <2>2. UNCHANGED <<base, far, near, farStart, sinceFloor, farTurn>>
        /\ resweep' = resweep - 1 /\ resweep > 0
    BY <1>4 DEF OfferResweep, Offer
  <2> QED
    BY <1>0, <1>1, <1>4, <2>1, <2>2 DEF OfferResweep
<1>5. CASE ClimbNear
  <2>1. /\ near < farStart /\ near' = near + 1 /\ UNCHANGED <<base, far, farStart, resweep>>
        /\ sinceFloor' = sinceFloor + 1 /\ sinceFloor < FloorEvery /\ farTurn' = FALSE
        /\ base < RocMax
    BY <1>5 DEF ClimbNear, Climbing, NearTurn, Offer
  <2>2. near \in base..RocMax /\ near' \in 1..(RocMax + 1)
    BY <1>0, <2>1
  <2>3. sinceFloor' \in -1..FloorEvery
    BY <1>0, <2>1
  <2>4. ClimbsAboveFloor'
    BY <1>0, <2>1
  <2> QED
    BY <1>0, <1>1, <1>5, <2>1, <2>2, <2>3, <2>4 DEF ClimbNear
<1>6. CASE ClimbFar
  <2>1. /\ far' = (IF far < RocMax THEN far + 1 ELSE base + 1)
        /\ UNCHANGED <<base, near, farStart, resweep>>
        /\ sinceFloor' = sinceFloor + 1 /\ sinceFloor < FloorEvery /\ farTurn' = TRUE
        /\ base < RocMax
    BY <1>6 DEF ClimbFar, Climbing, Offer
  <2>2. far \in base..RocMax
    BY <1>0, <2>1
  <2> QED
    BY <1>0, <1>1, <1>6, <2>1, <2>2 DEF ClimbFar
<1> QED
  BY <1>2, <1>3, <1>4, <1>5, <1>6 DEF Advance

\* The fields of Search and the carried position keep to their parts of the
\* counter space, through every session.
LEMMA SpecSearchInv == Spec => []SearchInv
<1>1. Init => SearchInv
  <2> SUFFICES ASSUME Init PROVE SearchInv
    OBVIOUS
  <2>1. recent \in Seq(Roc)
    BY RocAssumption, SequenceTypes DEF Init, Roc
  <2>2. Counters
    <3>1. sinceFloor \in {-1, 0} /\ resweep \in {0, Window}
      BY DEF Init, None
    <3>2. sinceFloor \in -1..FloorEvery /\ resweep \in 0..Window
      BY <3>1, RocAssumption
    <3> QED
      BY <3>2, RocAssumption DEF Init, Counters, Roc
  <2>2a. Carries
    BY RocAssumption DEF Init, Carries, Roc, None, NoCarry
  <2>2b. farTurn \in BOOLEAN
    BY DEF Init
  <2>3. NothingBelowFloor /\ ClimbsAboveFloor
    BY RocAssumption DEF Init, NothingBelowFloor, ClimbsAboveFloor
  <2> QED
    BY <2>1, <2>2, <2>2a, <2>2b, <2>3 DEF SearchInv, TypeOK, Counters, Carries
<1>2. SearchInv /\ [Next]_vars => SearchInv'
  <2> SUFFICES ASSUME SearchInv, [Next]_vars PROVE SearchInv'
    OBVIOUS
  <2>1. CASE Advance
    BY <2>1, AdvanceStep
  <2>2. CASE HandleFail
    <3>1. UNCHANGED <<search, candidate, carried, sessionBase, recent>>
      BY <2>2 DEF HandleFail
    <3>2. report' \in -1..(RocMax + 1)
      BY <2>2, RocAssumption DEF HandleFail, None
    <3>3. carry'.base \in -1..RocMax /\ carry'.from \in -1..RocMax
      <4>1. report \in -1..(RocMax + 1) /\ sessionBase \in 0..RocMax
            /\ carry.base \in -1..RocMax /\ carry.from \in -1..RocMax
        BY DEF SearchInv, TypeOK, Roc
      <4> QED
        BY <2>2, <4>1, RocAssumption DEF HandleFail
    <3> QED
      BY <3>1, <3>2, <3>3
      DEF search, SearchInv, TypeOK, NothingBelowFloor, ClimbsAboveFloor
  <2>3. ASSUME NEW b \in Roc, NEW seed \in {None} \cup Roc, Rebuild(b, seed)
        PROVE  SearchInv'
    <3>1. Counters' /\ NothingBelowFloor' /\ ClimbsAboveFloor' /\ recent' \in Seq(Roc)
          /\ farTurn' \in BOOLEAN
      BY <2>3, StartStep DEF Rebuild, SearchInv, TypeOK
    <3>2. Carries'
      BY <2>3 DEF Rebuild, SearchInv, TypeOK, Carries
    <3> QED
      BY <3>1, <3>2 DEF SearchInv, TypeOK, Counters, Carries
  <2>4. ASSUME NEW b \in Roc, NextHelper(b) \/ FloorReset(b) PROVE SearchInv'
    <3>1. carry'.base \in -1..RocMax /\ carry'.from \in -1..RocMax
      BY <2>4, RocAssumption DEF NextHelper, FloorReset, NoCarry, None, SearchInv, TypeOK
    <3>2. carried' \in -1..(RocMax + 1) /\ sessionBase' = b /\ report' = report
          /\ StartSearch(b, carried', None)
      BY <2>4, <3>1, RocAssumption DEF NextHelper, FloorReset, Spawn, None
    <3>3. Counters' /\ NothingBelowFloor' /\ ClimbsAboveFloor' /\ recent' \in Seq(Roc)
          /\ farTurn' \in BOOLEAN
      BY <3>2, StartStep
    <3> QED
      BY <3>1, <3>2, <3>3 DEF SearchInv, TypeOK, Counters
  <2>5. CASE UNCHANGED vars
    BY <2>5 DEF vars, search, SearchInv, TypeOK, NothingBelowFloor, ClimbsAboveFloor
  <2> QED
    BY <2>1, <2>2, <2>3, <2>4, <2>5 DEF Next
<1> QED
  BY <1>1, <1>2, PTL DEF Spec

\* Type correctness: the fields of Search stay inside the counter space.
THEOREM SpecTypeOK == Spec => []TypeOK
<1>1. SearchInv => TypeOK
  BY DEF SearchInv
<1> QED
  BY <1>1, SpecSearchInv, PTL

\* Nothing below the floor is ever offered, and nothing outside the counter space,
\* whatever sessions, rebuilds, resets and carried positions come in between.
THEOREM SpecNothingBelowFloor == Spec => []NothingBelowFloor
<1>1. SearchInv => NothingBelowFloor
  BY DEF SearchInv
<1> QED
  BY <1>1, SpecSearchInv, PTL

\* The two climbs of Search stay above the floor, and the near one stays out of
\* the far one's part.
THEOREM SpecClimbsAboveFloor == Spec => []ClimbsAboveFloor
<1>1. SearchInv => ClimbsAboveFloor
  BY DEF SearchInv
<1> QED
  BY <1>1, SpecSearchInv, PTL

-----------------------------------------------------------------------------
\* Offers since the floor was offered last, and the place in the cycle of each of
\* the recent ones: the floor has place 0, the swept counters 1 to Window.
Since == Window - resweep + sinceFloor

Place(i) == LET o == i - (Len(recent) - Since) IN IF o >= 0 THEN o ELSE o + Cycle

\* What __next__ offers at the first places of a cycle.
AtPlace(p) == IF base + p < RocMax THEN base + p ELSE RocMax

\* The recent offers are the end of one cycle and the start of the next.
Placed ==
  /\ resweep > 0 => sinceFloor = 0
  /\ Since < Len(recent)
  /\ \A i \in 1..Len(recent) : Place(i) <= Window => recent[i] = AtPlace(Place(i))

RecentInv ==
  /\ Len(recent) <= Cycle
  /\ base = RocMax => \A i \in 1..Len(recent) : recent[i] = base
  /\ base < RocMax /\ sinceFloor = None => recent = <<>>
  /\ base < RocMax /\ sinceFloor # None => Placed

\* A sequence with an element more, and one with a first element less as well.
LEMMA ShiftedIndexes ==
  ASSUME NEW S, NEW s \in Seq(S), NEW c \in S
  PROVE  /\ Len(Append(s, c)) = Len(s) + 1
         /\ Append(s, c)[Len(s) + 1] = c
         /\ \A i \in 1..Len(s) : Append(s, c)[i] = s[i]
         /\ s # <<>> => /\ Len(Append(Tail(s), c)) = Len(s)
                        /\ Append(Tail(s), c)[Len(s)] = c
                        /\ \A i \in 1..(Len(s) - 1) : Append(Tail(s), c)[i] = s[i + 1]
<1>1. Len(Append(s, c)) = Len(s) + 1 /\ Append(s, c)[Len(s) + 1] = c
      /\ \A i \in 1..Len(s) : Append(s, c)[i] = s[i]
  OBVIOUS
<1>2. ASSUME s # <<>>
      PROVE  /\ Len(Append(Tail(s), c)) = Len(s)
             /\ Append(Tail(s), c)[Len(s)] = c
             /\ \A i \in 1..(Len(s) - 1) : Append(Tail(s), c)[i] = s[i + 1]
  <2>1. Tail(s) \in Seq(S) /\ Len(Tail(s)) = Len(s) - 1 /\ Len(s) \in Nat \ {0}
        /\ \A i \in 1..(Len(s) - 1) : Tail(s)[i] = s[i + 1]
    BY <1>2
  <2>2. /\ Len(Append(Tail(s), c)) = Len(Tail(s)) + 1
        /\ Append(Tail(s), c)[Len(Tail(s)) + 1] = c
        /\ \A i \in 1..Len(Tail(s)) : Append(Tail(s), c)[i] = Tail(s)[i]
    BY <2>1
  <2> QED
    BY <2>1, <2>2
<1> QED
  BY <1>1, <1>2

\* What an offer does to the history: k is 1 when the oldest offer leaves it.
LEMMA OfferHistory ==
  ASSUME NEW c \in Roc, recent \in Seq(Roc), Len(recent) <= Cycle, Offer(c)
  PROVE  \E k \in {0, 1} :
           /\ k = 1 <=> Len(recent) = Cycle
           /\ Len(recent') = Len(recent) + 1 - k
           /\ recent'[Len(recent')] = c
           /\ \A i \in 1..(Len(recent) - k) : recent'[i] = recent[i + k]
<1>0. Cycle \in Nat \ {0} /\ Len(recent) \in Nat
  BY RocAssumption, SequenceTypes DEF Cycle
<1>1. CASE Len(recent) < Cycle
  <2>1. recent' = Append(recent, c)
    BY <1>1 DEF Offer
  <2>2. /\ 0 = 1 <=> Len(recent) = Cycle
        /\ Len(recent') = Len(recent) + 1 - 0
        /\ recent'[Len(recent')] = c
        /\ \A i \in 1..(Len(recent) - 0) : recent'[i] = recent[i + 0]
    BY <1>0, <1>1, <2>1, ShiftedIndexes
  <2> QED
    BY <2>2
<1>2. CASE Len(recent) = Cycle
  <2>1. recent' = Append(Tail(recent), c) /\ recent # <<>>
    BY <1>0, <1>2 DEF Offer
  <2>2. /\ 1 = 1 <=> Len(recent) = Cycle
        /\ Len(recent') = Len(recent) + 1 - 1
        /\ recent'[Len(recent')] = c
        /\ \A i \in 1..(Len(recent) - 1) : recent'[i] = recent[i + 1]
    BY <1>0, <1>2, <2>1, ShiftedIndexes
  <2> QED
    BY <2>2
<1> QED
  BY <1>0, <1>1, <1>2

\* An offer at the next place of the cycle: the swept counters in their order, and
\* anything once they are through.
LEMMA NextPlaceStep ==
  ASSUME SearchInv, RecentInv, base < RocMax, sinceFloor # None, sinceFloor < FloorEvery,
         NEW c \in Roc, Offer(c), Since' = Since + 1, Since + 1 < Cycle,
         resweep' > 0 => sinceFloor' = 0, sinceFloor' # None,
         Since + 1 <= Window => c = AtPlace(Since + 1)
  PROVE  RecentInv'
<1>0. /\ base \in Nat /\ recent \in Seq(Roc) /\ Len(recent) \in Nat /\ Len(recent) <= Cycle
      /\ Cycle \in Nat /\ Since \in Int /\ Since >= 0 /\ Placed /\ base' = base
      /\ Window \in Nat
  BY RocAssumption, SequenceTypes
  DEF SearchInv, TypeOK, RecentInv, Cycle, Since, Roc, None, Offer
<1>1. PICK k \in {0, 1} :
           /\ k = 1 <=> Len(recent) = Cycle
           /\ Len(recent') = Len(recent) + 1 - k
           /\ recent'[Len(recent')] = c
           /\ \A i \in 1..(Len(recent) - k) : recent'[i] = recent[i + k]
  BY <1>0, OfferHistory
<1>2. Len(recent') <= Cycle /\ Since' < Len(recent')
  BY <1>0, <1>1 DEF Placed
<1>3. ASSUME NEW i \in 1..Len(recent'), Place(i)' <= Window
      PROVE  recent'[i] = AtPlace(Place(i)')
  <2>1. CASE i = Len(recent')
    <3>1. Place(i)' = Since + 1
      BY <1>0, <2>1, <1>2 DEF Place
    <3> QED
      BY <1>1, <1>3, <2>1, <3>1
  <2>2. CASE i # Len(recent')
    <3>1. i \in 1..(Len(recent) - k) /\ i + k \in 1..Len(recent)
      BY <1>0, <1>1, <2>2
    <3>2. i - (Len(recent') - Since') = (i + k) - (Len(recent) - Since)
      BY <1>0, <1>1
    <3>3. Place(i)' = Place(i + k)
      BY <3>2 DEF Place, Cycle
    <3>4. recent[i + k] = AtPlace(Place(i + k))
      BY <1>0, <1>3, <3>1, <3>3 DEF Placed
    <3> QED
      BY <1>1, <3>1, <3>3, <3>4
  <2> QED
    BY <2>1, <2>2
<1>4. Placed'
  BY <1>0, <1>2, <1>3 DEF Placed, AtPlace
<1> QED
  BY <1>0, <1>2, <1>4 DEF RecentInv, Cycle

\* The offer of the floor starts the cycle over.
LEMMA FloorPlaceStep ==
  ASSUME SearchInv, RecentInv, OfferFloor
  PROVE  RecentInv'
<1>0. /\ base \in Roc /\ base \in Nat /\ recent \in Seq(Roc) /\ Len(recent) \in Nat
      /\ Len(recent) <= Cycle
      /\ Cycle \in Nat \ {0} /\ base' = base /\ base < RocMax /\ Window \in Nat
  BY RocAssumption, SequenceTypes
  DEF SearchInv, TypeOK, RecentInv, Cycle, Roc, OfferFloor, Offer
<1>1. Since' = 0 /\ sinceFloor' = 0 /\ sinceFloor' # None
  BY RocAssumption DEF OfferFloor, Since, None
<1>2. Offer(base)
  BY DEF OfferFloor
<1>3. PICK k \in {0, 1} :
           /\ k = 1 <=> Len(recent) = Cycle
           /\ Len(recent') = Len(recent) + 1 - k
           /\ recent'[Len(recent')] = base
           /\ \A i \in 1..(Len(recent) - k) : recent'[i] = recent[i + k]
  BY <1>0, <1>2, OfferHistory
<1>4. Len(recent') <= Cycle /\ Since' < Len(recent')
  BY <1>0, <1>1, <1>3
<1>5. ASSUME NEW i \in 1..Len(recent'), Place(i)' <= Window
      PROVE  recent'[i] = AtPlace(Place(i)')
  <2>1. CASE i = Len(recent')
    <3>1. Place(i)' = 0
      BY <1>0, <1>1, <1>4, <2>1 DEF Place
    <3> QED
      BY <1>0, <1>3, <2>1, <3>1 DEF AtPlace
  <2>2. CASE i # Len(recent')
    <3>1. sinceFloor # None
      BY <1>0, <1>3, <2>2 DEF RecentInv
    <3>2. Placed /\ sinceFloor = FloorEvery
      <4>1. Placed
        BY <1>0, <3>1 DEF RecentInv
      <4>2. sinceFloor >= FloorEvery /\ sinceFloor \in -1..FloorEvery
        BY <3>1 DEF OfferFloor, SearchInv, TypeOK
      <4> QED
        BY <4>1, <4>2, RocAssumption
    <3>3. resweep = 0 /\ Since = Cycle - 1
      BY <3>2, RocAssumption DEF Placed, Since, Cycle, SearchInv, TypeOK
    <3>4. Len(recent) = Cycle /\ k = 1 /\ Len(recent') = Cycle
      BY <1>0, <1>3, <3>2, <3>3 DEF Placed
    <3>5. i \in 1..(Len(recent) - 1) /\ i + 1 \in 1..Len(recent)
      BY <1>0, <2>2, <3>4
    <3>6. Place(i)' = i
      BY <1>0, <1>1, <3>4, <3>5 DEF Place, Cycle
    <3>7. Place(i + 1) = i
      BY <1>0, <3>3, <3>4, <3>5 DEF Place
    <3>8. recent[i + 1] = AtPlace(i)
      BY <1>5, <3>2, <3>5, <3>6, <3>7 DEF Placed
    <3> QED
      BY <1>3, <3>4, <3>5, <3>6, <3>8
  <2> QED
    BY <2>1, <2>2
<1>6. Placed'
  BY <1>0, <1>1, <1>4, <1>5 DEF Placed, AtPlace
<1> QED
  BY <1>0, <1>1, <1>4, <1>6 DEF RecentInv, Cycle

\* One failed trial (Search.__next__) goes on with the cycle.
LEMMA AdvanceRecent ==
  ASSUME SearchInv, RecentInv, Advance
  PROVE  RecentInv'
<1>0. /\ base \in Roc /\ base \in Nat /\ recent \in Seq(Roc) /\ Len(recent) \in Nat
      /\ Len(recent) <= Cycle /\ Cycle \in Nat \ {0}
      /\ resweep \in 0..Window /\ sinceFloor \in -1..FloorEvery /\ None = -1
      /\ Window \in Nat /\ FloorEvery \in Nat
  BY RocAssumption, SequenceTypes DEF SearchInv, TypeOK, RecentInv, Cycle, Roc, None
<1>1. CASE OfferTop
  <2>1. base = RocMax /\ base' = base /\ Offer(base)
    BY <1>1 DEF OfferTop, Offer
  <2>2. PICK k \in {0, 1} :
           /\ k = 1 <=> Len(recent) = Cycle
           /\ Len(recent') = Len(recent) + 1 - k
           /\ recent'[Len(recent')] = base
           /\ \A i \in 1..(Len(recent) - k) : recent'[i] = recent[i + k]
    BY <1>0, <2>1, OfferHistory
  <2>3. \A i \in 1..Len(recent) : recent[i] = base
    BY <2>1 DEF RecentInv
  <2>4. ASSUME NEW i \in 1..Len(recent') PROVE recent'[i] = base
    <3>1. i = Len(recent') \/ (i \in 1..(Len(recent) - k) /\ i + k \in 1..Len(recent))
      BY <1>0, <2>2
    <3> QED
      BY <2>2, <2>3, <3>1
  <2>5. Len(recent') <= Cycle
    BY <1>0, <2>2
  <2> QED
    BY <1>0, <2>1, <2>4, <2>5 DEF RecentInv, Cycle
<1>2. CASE OfferFloor
  BY <1>2, FloorPlaceStep
<1>3. ASSUME OfferResweep \/ ClimbNear \/ ClimbFar
      PROVE  base < RocMax /\ sinceFloor # None /\ sinceFloor < FloorEvery /\ Placed
  BY <1>3 DEF OfferResweep, ClimbNear, ClimbFar, Climbing, RecentInv
<1>4. CASE OfferResweep
  <2>1. /\ Offer(Swept) /\ sinceFloor' = sinceFloor /\ resweep' = resweep - 1 /\ resweep > 0
    BY <1>4 DEF OfferResweep
  <2>2. sinceFloor = 0
    BY <1>3, <1>4, <2>1 DEF Placed
  <2>3. Since' = Since + 1 /\ Since = Window - resweep /\ Since + 1 < Cycle
    BY <1>0, <2>1, <2>2, RocAssumption DEF Since, Cycle
  <2>4. Swept = AtPlace(Since + 1) /\ Swept \in Roc
    BY <1>0, <1>3, <1>4, <2>3, RocAssumption DEF Swept, AtPlace, Roc
  <2> QED
    BY <1>0, <1>3, <1>4, <2>1, <2>2, <2>3, <2>4, NextPlaceStep
<1>5. CASE ClimbNear \/ ClimbFar
  <2>1. resweep = 0 /\ UNCHANGED resweep /\ sinceFloor' = sinceFloor + 1
    BY <1>5 DEF ClimbNear, ClimbFar
  <2>2. PICK c \in Roc : Offer(c)
    <3>1. ClimbsAboveFloor /\ far \in 1..(RocMax + 1) /\ near \in 1..(RocMax + 1)
          /\ farStart \in 1..(RocMax + 1)
      BY DEF SearchInv, TypeOK
    <3>2. far \in Roc /\ (near < farStart => near \in Roc)
      BY <1>3, <1>5, <3>1, RocAssumption DEF ClimbsAboveFloor, Roc
    <3>3. Offer(far) \/ (near < farStart /\ Offer(near))
      BY <1>5 DEF ClimbNear, ClimbFar, NearTurn
    <3> QED
      BY <3>2, <3>3
  <2>3. /\ sinceFloor >= 0 /\ sinceFloor < FloorEvery
        /\ Since' = Since + 1 /\ Since = Window + sinceFloor
    BY <1>0, <1>3, <1>5, <2>1 DEF Since
  <2>4. Since + 1 < Cycle /\ ~(Since + 1 <= Window) /\ sinceFloor' # None /\ ~(resweep' > 0)
    BY <1>0, <2>1, <2>3 DEF Cycle
  <2> QED
    BY <1>3, <1>5, <2>2, <2>3, <2>4, NextPlaceStep
<1> QED
  BY <1>1, <1>2, <1>4, <1>5 DEF Advance

\* A new search starts its first cycle, or has a seed to try before it does.
LEMMA StartRecent ==
  ASSUME NEW b \in Roc, NEW from, NEW seed, StartSearch(b, from, seed)
  PROVE  RecentInv'
<1>0. Cycle \in Nat \ {0} /\ Window \in Nat /\ b \in Nat /\ b <= RocMax /\ base' = b
      /\ None = -1 /\ RocMax \in Nat
  BY RocAssumption DEF Cycle, Roc, StartSearch, None
<1>1. CASE recent' = <<>> /\ sinceFloor' = None
  <2>1. Len(recent') = 0
    BY <1>1
  <2> QED
    BY <1>0, <1>1, <2>1 DEF RecentInv, Cycle
<1>2. CASE /\ recent' = <<b>>
           /\ sinceFloor' = IF b = RocMax THEN None ELSE 0
           /\ resweep' = IF b = RocMax THEN 0 ELSE Window
  <2>1. Len(recent') = 1 /\ recent'[1] = b
    BY <1>2
  <2>2. ASSUME b < RocMax PROVE Placed'
    <3>1. sinceFloor' = 0 /\ resweep' = Window /\ Since' = 0
      BY <1>0, <1>2, <2>2 DEF Since
    <3>2. Place(1)' = 0
      BY <1>0, <2>1, <3>1 DEF Place
    <3>3. AtPlace(0)' = b
      BY <1>0, <2>2 DEF AtPlace
    <3>4. ASSUME NEW i \in 1..Len(recent')
          PROVE  (Place(i) <= Window => recent[i] = AtPlace(Place(i)))'
      <4>1. i = 1
        BY <2>1
      <4> QED
        BY <2>1, <3>2, <3>3, <4>1
    <3> QED
      BY <2>1, <3>1, <3>4 DEF Placed
  <2>3. b < RocMax => sinceFloor' # None
    BY <1>0, <1>2
  <2> QED
    BY <1>0, <2>1, <2>2, <2>3 DEF RecentInv, Cycle
<1> QED
  BY <1>1, <1>2 DEF StartSearch

\* The history is in the order of the cycle, through every session.
LEMMA SpecRecentInv == Spec => [](SearchInv /\ RecentInv)
<1>1. Init => RecentInv
  <2> SUFFICES ASSUME Init PROVE RecentInv
    OBVIOUS
  <2>0. RocMax \in Nat /\ Window \in Nat /\ Cycle \in Nat \ {0} /\ None = -1 /\ base = 0
        /\ Len(recent) = 1 /\ recent[1] = 0
    BY RocAssumption DEF Init, Cycle, None
  <2>1. ASSUME RocMax # 0 PROVE Placed
    <3>1. sinceFloor = 0 /\ resweep = Window /\ Since = 0
      BY <2>0, <2>1 DEF Init, Since
    <3>2. Place(1) = 0
      BY <2>0, <3>1 DEF Place
    <3>3. AtPlace(0) = 0
      BY <2>0, <2>1 DEF AtPlace
    <3> QED
      BY <2>0, <3>1, <3>2, <3>3 DEF Placed
  <2>2. RocMax # 0 => sinceFloor # None
    BY <2>0 DEF Init
  <2> QED
    BY <2>0, <2>1, <2>2 DEF RecentInv
<1>2. SearchInv /\ RecentInv /\ [Next]_vars => RecentInv'
  <2> SUFFICES ASSUME SearchInv, RecentInv, [Next]_vars PROVE RecentInv'
    OBVIOUS
  <2>1. CASE Advance
    BY <2>1, AdvanceRecent
  <2>2. CASE HandleFail \/ UNCHANGED vars
    <3>1. UNCHANGED <<base, recent, sinceFloor, resweep>>
      BY <2>2 DEF HandleFail, vars, search
    <3> QED
      BY <3>1 DEF RecentInv, Placed, Place, AtPlace, Since
  <2>3. ASSUME NEW b \in Roc, NEW seed \in {None} \cup Roc,
               Rebuild(b, seed) \/ NextHelper(b) \/ FloorReset(b)
        PROVE  RecentInv'
    BY <2>3, StartRecent DEF Rebuild, NextHelper, FloorReset, Spawn
  <2> QED
    BY <2>1, <2>2, <2>3 DEF Next
<1> QED
  BY <1>1, <1>2, SpecSearchInv, PTL DEF Spec

\* The floor and the counters just above it are among any Cycle offers in a row,
\* however far the climbs have gone: the "periodic re-sweep" of Search, for
\* every window and interval.
THEOREM SpecLikelyCountersReturn == Spec => []LikelyCountersReturn
<1>1. SearchInv /\ RecentInv => LikelyCountersReturn
  <2> SUFFICES ASSUME SearchInv, RecentInv, Len(recent) = Cycle,
                      NEW c \in base..RocMax, c <= base + Window
               PROVE  \E n \in 1..Cycle : recent[n] = c
    BY DEF LikelyCountersReturn
  <2>0. /\ Cycle \in Nat \ {0} /\ Window \in Nat /\ base \in Nat /\ base <= RocMax
        /\ RocMax \in Nat /\ None = -1 /\ Window < Cycle
        /\ sinceFloor \in -1..FloorEvery /\ resweep \in 0..Window /\ FloorEvery \in Nat
    BY RocAssumption DEF Cycle, SearchInv, TypeOK, Roc, None
  <2>1. CASE base = RocMax
    <3>1. 1 \in 1..Cycle /\ recent[1] = c
      BY <2>0, <2>1 DEF RecentInv
    <3> QED
      BY <3>1
  <2>2. CASE base < RocMax
    <3>1. sinceFloor # None
      <4>1. recent # <<>>
        BY <2>0
      <4> QED
        BY <2>2, <4>1 DEF RecentInv
    <3>2. Placed /\ Since \in Nat /\ Since < Cycle
      BY <2>0, <2>2, <3>1 DEF RecentInv, Since, Placed
    <3> DEFINE n == IF c - base <= Since THEN Cycle - Since + (c - base) ELSE c - base - Since
    <3>3. n \in 1..Cycle
      BY <2>0, <3>2
    <3>4. Place(n) = c - base
      BY <2>0, <3>2 DEF Place
    <3>5. AtPlace(c - base) = c
      BY <2>0 DEF AtPlace
    <3>6. recent[n] = c
      BY <2>0, <3>2, <3>3, <3>4, <3>5 DEF Placed
    <3> QED
      BY <3>3, <3>6
  <2> QED
    BY <2>0, <2>1, <2>2
<1> QED
  BY <1>1, SpecRecentInv, PTL

=============================================================================
