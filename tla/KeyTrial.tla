------------------------------- MODULE KeyTrial -------------------------------
(***************************************************************************)
(* One helper's two threads over the counters they share: the streaming    *)
(* thread, which asks for a key, lets libsrtp authenticate each datagram   *)
(* and records what authenticated, and the main loop's tick, which judges  *)
(* the trial, steps to the next rollover counter and removes the key.      *)
(*                                                                         *)
(* A packet is its true index.  libsrtp is external: it authenticates a    *)
(* packet iff it estimates that index, and refuses one it has seen under   *)
(* the stream it holds.  Every section under the counters lock is one      *)
(* action; srtpdec's own lock, held from request-key to the verdict and    *)
(* needed by remove-key, is `pcS = "decode"`.                              *)
(*                                                                         *)
(* Which counter the search offers next is RocSearch's concern: here it is *)
(* any from the floor up.  Time is abstracted as in SrtpHelper.            *)
(***************************************************************************)
EXTENDS Integers, FiniteSets

CONSTANTS SeqMod,     \* 2^16, an even number here
          MaxIndex,   \* bound: packet indexes the sender uses
          Gap,        \* bound: packets lost between two that arrive
          Late,       \* bound: how late a packet, or a copy of one, arrives
          Floors      \* the floors a session may start from, besides none

None == -1
Midpoint == SeqMod \div 2
Indexes == 0..MaxIndex
RocMax == MaxIndex \div SeqMod
Rocs == 0..RocMax
Estimates == 0..(SeqMod * (RocMax + 1) - 1)   \* what an estimate may come to
Foreign == -2     \* a datagram no counter authenticates, or one of another SSRC

ASSUME TrialAssumption ==
  /\ SeqMod \in Nat \ {0} /\ SeqMod % 2 = 0
  /\ MaxIndex \in Nat /\ Gap \in Nat /\ Late \in Nat
  /\ Floors \subseteq Indexes

VARIABLES
  cur,           \* the sender's newest packet
  pkt,           \* the packet the streaming thread works on
  pcS,           \* the streaming thread: idle, in, decode, record
  lib,           \* srtpdec's stream for the SSRC, or NoStream
  \* Counters, under the counters lock
  roc, highestSeq, highestIndex, keyCandidate,
  credit,        \* key_authenticated > 0
  lastAuth,      \* last_auth_ms: never, recent, or older than auth_loss_ms
  rocChanged,
  arrived,       \* inputs > trial_inputs0
  \* SrtpPort, written by the main loop (candidate by both threads)
  candidate, floor, confirmed, mode,
  pcT,           \* the tick: idle, judge, remove, begin, lost, wipe
  \* History, for stating properties only.
  rocsSeen,      \* counters under which libsrtp authenticated a packet
  accepted,      \* indexes accepted, as far back as a copy may still arrive
  raced,         \* indexes recorded after the tick's last look at the counters
  blind          \* the tracker was cleared while srtpdec kept its stream

counters == <<roc, highestSeq, highestIndex, keyCandidate, credit, lastAuth, rocChanged>>
history == <<rocsSeen, accepted, raced, blind>>
port == <<candidate, floor, confirmed, mode>>
vars == <<cur, pkt, pcS, lib, counters, arrived, port, pcT, history>>

\* `seed` is the roc of the caps; index is None until a packet authenticates.
Streams == [seed : Rocs, index : Estimates \cup {None}, seen : SUBSET Indexes]
NoStream == [seed |-> None, index |-> None, seen |-> {}]

\* What each variable may hold (proved in KeyTrialProofs).
TypeOK ==
  /\ cur \in Indexes \cup {None} /\ pkt \in Indexes \cup {None, Foreign}
  /\ pcS \in {"idle", "in", "decode", "record"}
  /\ lib \in Streams \cup {NoStream}
  /\ roc \in Rocs /\ highestSeq \in 0..(SeqMod - 1) \cup {None}
  /\ highestIndex \in Estimates \cup {None} /\ keyCandidate \in Rocs \cup {None}
  /\ credit \in BOOLEAN /\ lastAuth \in {"never", "recent", "old"}
  /\ rocChanged \in BOOLEAN /\ arrived \in BOOLEAN
  /\ candidate \in Rocs /\ floor \in Estimates \cup {None}
  /\ confirmed \in BOOLEAN /\ mode \in {"searching", "producing"}
  /\ pcT \in {"idle", "judge", "remove", "begin", "lost", "wipe"}
  /\ rocsSeen \subseteq Rocs /\ accepted \subseteq Indexes /\ raced \subseteq Indexes
  /\ blind \in BOOLEAN

-----------------------------------------------------------------------------
Index(r, s) == r * SeqMod + s

\* estimated_index, which is libsrtp's rule too.
EstimatedIndex(local, s) ==
  LET r == local \div SeqMod
      l == local % SeqMod
  IN  IF local <= Midpoint THEN s
      ELSE IF l < Midpoint
        THEN Index(IF s - l > Midpoint THEN (r - 1) % (RocMax + 1) ELSE r, s)
        ELSE Index(IF l - Midpoint > s THEN (r + 1) % (RocMax + 1) ELSE r, s)

\* The counters the search may offer, from the floor's up.
Base(f) == IF f = None THEN 0 ELSE f \div SeqMod

Offers(f) == Base(f)..RocMax

Higher(a, b) == IF a > b THEN a ELSE b

\* What a copy may still arrive of.
Recent(S) == {i \in S : i + Late >= cur}

-----------------------------------------------------------------------------
\* A datagram reaches the input probe (_on_input): the next of the sender's, a
\* late one or a copy, or one that nothing authenticates.
Receive ==
  /\ pcS = "idle"
  /\ \/ \E p \in Indexes : cur < p /\ p <= cur + 1 + Gap /\ pkt' = p /\ cur' = p
     \/ \E p \in Indexes : cur # None /\ cur - Late <= p /\ p <= cur
                           /\ pkt' = p /\ UNCHANGED cur
     \/ pkt' = Foreign /\ UNCHANGED cur
  /\ pcS' = "in" /\ arrived' = TRUE
  /\ UNCHANGED <<lib, counters, port, pcT, history>>

\* _on_request_key for another SSRC: no key, and nothing but the counts change.
OtherSsrc ==
  /\ pcS = "in" /\ pkt = Foreign
  /\ pcS' = "idle" /\ pkt' = None
  /\ UNCHANGED <<cur, lib, counters, arrived, port, pcT, history>>

\* Mutant of RequestKey: always the candidate the search is at.
RequestKeyForgets ==
  /\ pcS = "in" /\ lib = NoStream
  /\ keyCandidate' = candidate /\ credit' = FALSE
  /\ lib' = [seed |-> candidate, index |-> None, seen |-> {}]
  /\ roc' = candidate /\ highestSeq' = None /\ rocChanged' = FALSE
  /\ pcS' = "decode" /\ blind' = FALSE
  /\ UNCHANGED <<cur, pkt, highestIndex, lastAuth, arrived, port, pcT, rocsSeen,
                 accepted, raced>>

\* Mutant of RequestKey: the same, and the credit goes to the new key.
RequestKeyMovesCredit ==
  /\ pcS = "in" /\ lib = NoStream
  /\ keyCandidate' = candidate
  /\ lib' = [seed |-> candidate, index |-> None, seen |-> {}]
  /\ roc' = candidate /\ highestSeq' = None /\ rocChanged' = FALSE
  /\ pcS' = "decode" /\ blind' = FALSE
  /\ UNCHANGED <<cur, pkt, highestIndex, credit, lastAuth, arrived, port, pcT,
                 rocsSeen, accepted, raced>>

\* _on_request_key: srtpdec holds no stream for the SSRC.  A key that has
\* authenticated traffic is handed back, with its credit.
RequestKey ==
  /\ pcS = "in" /\ lib = NoStream
  /\ LET back == keyCandidate # None /\ credit
         key  == IF back THEN keyCandidate ELSE candidate
     IN  /\ candidate' = key /\ keyCandidate' = key /\ credit' = back
         /\ lib' = [seed |-> key, index |-> None, seen |-> {}]
         /\ roc' = key
  /\ highestSeq' = None /\ rocChanged' = FALSE
  /\ pcS' = "decode" /\ blind' = FALSE
  /\ UNCHANGED <<cur, pkt, highestIndex, lastAuth, arrived, floor, confirmed, mode,
                 pcT, rocsSeen, accepted, raced>>

\* libsrtp's estimate for the packet at hand.
Estimate ==
  LET s == pkt % SeqMod IN
    IF lib.index = None THEN Index(lib.seed, s) ELSE EstimatedIndex(lib.index, s)

\* libsrtp authenticates the packet, or drops it.
Decode ==
  /\ pcS = "decode" \/ (pcS = "in" /\ lib # NoStream)
  /\ IF pkt # Foreign /\ Estimate = pkt /\ pkt \notin lib.seen
       THEN /\ lib' = [lib EXCEPT !.index = Higher(lib.index, pkt),
                                  !.seen = Recent(lib.seen) \cup {pkt}]
            /\ rocsSeen' = rocsSeen \cup {pkt \div SeqMod}
            /\ pcS' = "record" /\ UNCHANGED pkt
       ELSE pcS' = "idle" /\ pkt' = None /\ UNCHANGED <<lib, rocsSeen>>
  /\ UNCHANGED <<cur, counters, arrived, port, pcT, accepted, raced, blind>>

\* The tracker's local index: the seeded counter until the first packet.
LocalIndex ==
  Index(roc, IF highestSeq = None THEN pkt % SeqMod ELSE highestSeq)

\* Mutant of Tracked: every packet moves the tracker, late ones too.
TrackedAlways(index) ==
  /\ roc' = index \div SeqMod /\ highestSeq' = index % SeqMod
  /\ rocChanged' = (rocChanged \/ roc' # roc)

\* Only a forward index advances the tracker.
Tracked(index) ==
  /\ roc' = IF index > LocalIndex THEN index \div SeqMod ELSE roc
  /\ highestSeq' = IF index > LocalIndex THEN index % SeqMod ELSE LocalIndex % SeqMod
  /\ rocChanged' = (rocChanged \/ roc' # roc)

AtOrBelowFloor(index) == floor # None /\ index <= floor

\* _record_authenticated: a packet at or below the floor counts for nothing but
\* the tracker.
Record ==
  /\ pcS = "record"
  /\ LET index == EstimatedIndex(LocalIndex, pkt % SeqMod) IN
       /\ Tracked(index)
       /\ IF AtOrBelowFloor(index)
            THEN UNCHANGED <<highestIndex, credit, lastAuth, accepted, raced>>
            ELSE /\ credit' = TRUE /\ lastAuth' = "recent"
                 /\ highestIndex' = Higher(highestIndex, index)
                 /\ accepted' = Recent(accepted) \cup {pkt}
                 /\ raced' = Recent(raced) \cup
                             (IF pcT \in {"remove", "wipe"} \/ lib = NoStream \/ blind
                                THEN {pkt} ELSE {})
  /\ pcS' = "idle" /\ pkt' = None
  /\ UNCHANGED <<cur, lib, keyCandidate, arrived, port, pcT, rocsSeen,
                 blind>>

Streaming == Receive \/ OtherSsrc \/ RequestKey \/ Decode \/ Record

-----------------------------------------------------------------------------
\* auth_loss_ms without an accepted packet.
Silence ==
  /\ lastAuth = "recent" /\ pcS = "idle"
  /\ lastAuth' = "old"
  /\ UNCHANGED <<cur, pkt, pcS, lib, roc, highestSeq, highestIndex, keyCandidate,
                 credit, rocChanged, arrived, port, pcT, history>>

Lost == lastAuth = "old" /\ (confirmed \/ mode = "producing")

\* _tick, the look at the counters: the key with credit is the candidate again.
Look ==
  /\ pcT = "idle"
  /\ candidate' = IF credit /\ ~confirmed /\ keyCandidate # None THEN keyCandidate
                                                                 ELSE candidate
  /\ rocChanged' = FALSE
  /\ UNCHANGED <<cur, pkt, pcS, lib, roc, highestSeq, highestIndex, keyCandidate,
                 credit, lastAuth, arrived, floor, mode, rocsSeen, accepted, raced, blind>>

LookLost ==
  /\ Lost /\ Look
  /\ pcT' = "lost" /\ UNCHANGED confirmed

LookJudge ==
  /\ ~Lost /\ ~credit /\ ~confirmed /\ Look
  /\ pcT' = "judge" /\ UNCHANGED confirmed

\* The first `auth ok` of a session ...
LookConfirm ==
  /\ ~Lost /\ credit /\ ~confirmed /\ Look
  /\ confirmed' = TRUE
  /\ UNCHANGED pcT

\* ... and one for every rollover after it.
LookWrap ==
  /\ ~Lost /\ confirmed /\ rocChanged /\ Look
  /\ UNCHANGED <<confirmed, pcT>>

\* Mutant of Step: no second look.
StepUnlooked ==
  /\ pcT = "judge"
  /\ \/ pcT' = "idle" /\ UNCHANGED candidate
     \/ arrived /\ candidate' \in Offers(floor) /\ pcT' = "remove"
  /\ UNCHANGED <<cur, pkt, pcS, lib, counters, arrived, floor, confirmed, mode, history>>

\* _advance_search_if_tried: without evidence, or with credit since the tick
\* looked, the trial goes on; else the search steps and reports the failure.
Step ==
  /\ pcT = "judge"
  /\ \/ pcT' = "idle" /\ UNCHANGED candidate
     \/ arrived /\ ~credit /\ candidate' \in Offers(floor) /\ pcT' = "remove"
  /\ UNCHANGED <<cur, pkt, pcS, lib, counters, arrived, floor, confirmed, mode, history>>

\* remove-key, once srtpdec's lock is free.
RemoveKey ==
  /\ pcT = "remove" /\ pcS # "decode"
  /\ lib' = NoStream /\ pcT' = "begin"
  /\ UNCHANGED <<cur, pkt, pcS, counters, arrived, port, history>>

\* _begin_trial
BeginTrial ==
  /\ pcT = "begin"
  /\ arrived' = FALSE /\ pcT' = "idle"
  /\ UNCHANGED <<cur, pkt, pcS, lib, counters, port, history>>

\* _reset_session, first section: everything accepted raises the floor, and the
\* search starts over from it, or from a seed.
Raise(seed) ==
  /\ floor' = Higher(floor, highestIndex)
  /\ candidate' = IF seed # None THEN seed ELSE Base(floor')

\* _reset_session, second section.
Wipe ==
  /\ keyCandidate' = None /\ credit' = FALSE /\ highestSeq' = None
  /\ rocChanged' = FALSE /\ confirmed' = FALSE

\* Auth loss while searching: the pipeline stays, and the streaming thread with
\* it; the two sections of _reset_session are apart.
LostInPlace ==
  /\ pcT = "lost" /\ mode = "searching"
  /\ Raise(None)
  /\ pcT' = "wipe"
  /\ UNCHANGED <<cur, pkt, pcS, lib, counters, arrived, confirmed, mode, history>>

WipeInPlace ==
  /\ pcT = "wipe"
  /\ Wipe
  /\ blind' = (lib # NoStream \/ pcS = "record")
  /\ pcT' = "idle"
  /\ UNCHANGED <<cur, pkt, pcS, lib, roc, highestIndex, lastAuth, arrived, candidate,
                 floor, mode, rocsSeen, accepted, raced>>

\* Any other _reset_session: the pipeline goes to NULL first, which waits for the
\* streaming thread, and its srtpdec with it.
Rebuild(seed) ==
  /\ pcS = "idle"
  /\ Raise(seed) /\ Wipe
  /\ lib' = NoStream
  /\ UNCHANGED <<cur, pkt, pcS, roc, highestIndex, lastAuth, arrived, history>>

\* _cmd_start: production is granted, seeded from the confirmed counter - as it was
\* before the pipeline went down, so a wrap recorded since may be missing.
Grant ==
  /\ pcT = "idle" /\ mode = "searching"
  /\ \E seed \in IF ~confirmed THEN {None}
                  ELSE {roc} \cup {r \in Rocs : rocChanged /\ r + 1 = roc} : Rebuild(seed)
  /\ mode' = "producing" /\ UNCHANGED pcT

\* Auth loss, a finished stop or a pipeline error while producing.
GiveUp ==
  /\ pcT = "lost" \/ pcT = "idle"
  /\ mode = "producing"
  /\ Rebuild(None)
  /\ mode' = "searching" /\ pcT' = "idle"

Tick == LookLost \/ LookJudge \/ LookConfirm \/ LookWrap \/ Step \/ RemoveKey
        \/ BeginTrial \/ LostInPlace \/ WipeInPlace

-----------------------------------------------------------------------------
Init ==
  /\ cur \in Indexes \cup {None} /\ floor \in {None} \cup {f \in Floors : f <= cur}
  /\ pkt = None /\ pcS = "idle" /\ lib = NoStream
  /\ roc = 0 /\ highestSeq = None /\ highestIndex = None /\ keyCandidate = None
  /\ credit = FALSE /\ lastAuth = "never" /\ rocChanged = FALSE /\ arrived = FALSE
  /\ candidate = Base(floor) /\ confirmed = FALSE /\ mode = "searching" /\ pcT = "idle"
  /\ rocsSeen = {} /\ accepted = {} /\ raced = {}
  /\ blind = FALSE

Next == Streaming \/ Tick \/ Silence \/ Grant \/ GiveUp

Spec == Init /\ [][Next]_vars

-----------------------------------------------------------------------------
\* The tracker makes the same decision as libsrtp about every packet, through
\* wraps, losses, late packets, trials and rebuilds ("the tracker has to make the
\* same decision about the same packet the authenticator makes", estimated_index)
\* - unless the session was reset under a stream that srtpdec kept.
TrackerAgrees ==
  lib.index # None /\ ~blind /\ pcS # "record" =>
    highestSeq # None /\ Index(roc, highestSeq) = lib.index

\* A key that authenticated an accepted packet is never thrown away: until the
\* session is reset its credit stands, and it is the key srtpdec holds whatever
\* the search stepped to in between.
RightKeyKept ==
  [][credit /\ keyCandidate # None /\ ~(keyCandidate' = None)
       => credit' /\ keyCandidate' = keyCandidate
          /\ lib' \in {NoStream} \cup [seed : {keyCandidate}, index : Estimates \cup {None},
                                       seen : SUBSET Indexes]]_vars

\* Whatever counter an `auth ok` carries, libsrtp has authenticated traffic under it
\* ("which is what makes the value safe to persist", _tick) - unless the session was
\* reset under a stream that srtpdec kept.
ReportedIsAuthentic ==
  ~blind /\ (credit \/ (confirmed /\ rocChanged)) => roc \in rocsSeen

\* A helper accepts a packet once, across trials, resets and rebuilds ("libsrtp's
\* own window refuses anything it has seen", _record_authenticated) - unless it
\* crossed the tick between its last look and remove-key, or an in-place reset.
AcceptedOnce ==
  pcS = "record" /\ ~blind /\ pkt \in accepted \ raced =>
    AtOrBelowFloor(EstimatedIndex(LocalIndex, pkt % SeqMod))
=============================================================================
