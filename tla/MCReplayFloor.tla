--------------------------- MODULE MCReplayFloor ---------------------------
(***************************************************************************)
(* ReplayFloor on small instances: what the versions of the SSM parameter  *)
(* carry.                                                                  *)
(***************************************************************************)
EXTENDS ReplayFloor, TLC

CONSTANTS k1, k2

\* Every version carries a key of its own.
FreshKeys == 1 :> k1 @@ 2 :> k2

\* The key is provisioned again, then rotated.
SameThenFresh == 1 :> k1 @@ 2 :> k1 @@ 3 :> k2

=============================================================================
