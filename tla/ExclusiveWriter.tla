--------------------------- MODULE ExclusiveWriter ---------------------------
(***************************************************************************)
(* What a port promises the instances that compete for it, without its     *)
(* supervisor, helper, frames and timers: a lease on the port's row that   *)
(* is never taken while it is live, and a writer that begins and ends      *)
(* within it.  `kept` says what the promise rests on: leases are refreshed *)
(* as long as they are held, and a helper stops only when it is told to.   *)
(***************************************************************************)
CONSTANTS Instances, Me, NoOwner

VARIABLES owner,    \* who the row belongs to
          stale,    \* its lease has run out
          writing,  \* Me writes to the port's stream
          kept

Init == owner = NoOwner /\ stale = FALSE /\ writing = FALSE /\ kept \in BOOLEAN

\* The writer's lease is not touched under it.
Undisturbed == kept => ~(writing /\ owner = Me)

\* A free or a stale row is taken; the owner may take it again.
Take ==
  /\ owner = NoOwner \/ stale \/ owner' = owner
  /\ owner' \in Instances /\ stale' = FALSE
  /\ owner' # owner => Undisturbed
  /\ UNCHANGED writing

\* The row is given up, or a stale one is cleaned.
Free ==
  /\ owner' = NoOwner /\ stale' = stale
  /\ Undisturbed
  /\ UNCHANGED writing

Expire ==
  /\ owner # NoOwner /\ stale' = TRUE
  /\ Undisturbed
  /\ UNCHANGED <<owner, writing>>

Begin ==
  /\ ~writing /\ writing' = TRUE
  /\ kept => owner = Me
  /\ UNCHANGED <<owner, stale>>

End == writing /\ writing' = FALSE /\ UNCHANGED <<owner, stale>>

Next == (Take \/ Free \/ Expire \/ Begin \/ End) /\ UNCHANGED kept

Spec == Init /\ [][Next]_<<owner, stale, writing, kept>>

=============================================================================
