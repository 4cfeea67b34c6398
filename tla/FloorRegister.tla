---------------------------- MODULE FloorRegister ----------------------------
(***************************************************************************)
(* What the replay floor of a port promises the sessions that read it,     *)
(* without instances, reports in flight and conditional writes: a register *)
(* that goes up in the order of (epoch, generation, index), whose index    *)
(* was set by a reset or accepted since.  Only a reset, which begins an    *)
(* epoch, lowers the index of a key.                                       *)
(***************************************************************************)
EXTENDS Integers

CONSTANT Nothing   \* the index of a floor that was never set

VARIABLES epoch, gen, index,
          accepted   \* indexes accepted from the present epoch's floor on

Init == epoch = 0 /\ gen = 0 /\ index = Nothing /\ accepted = {Nothing}

\* A session that started from the present epoch accepts a packet, or more.
Accept ==
  /\ accepted \subseteq accepted' /\ accepted' \subseteq accepted \cup Nat
  /\ UNCHANGED <<epoch, gen, index>>

\* An accepted index is persisted, under the same key or a newer one.
Raise ==
  /\ index' \in accepted \cap Nat
  /\ gen' > gen \/ (gen' = gen /\ index' > index)
  /\ UNCHANGED <<epoch, accepted>>

\* The holder of the key, or of a newer one, sets the floor.
Reset ==
  /\ epoch' > epoch /\ gen' >= gen /\ gen' > 0
  /\ index' \in Nat /\ accepted' = {index'}

Next == Accept \/ Raise \/ Reset

Spec == Init /\ [][Next]_<<epoch, gen, index, accepted>>

=============================================================================
