---------------------------- MODULE MCSettlement ----------------------------
(* Small instances of Settlement for TLC. *)
EXTENDS Settlement, TLC

CONSTANTS o1, o2, o3

\* Royalties that tell every set of orders apart but for the free one, and
\* prices that leave the platform next to nothing to absorb a fault.
MCPrice   == (o1 :> 1) @@ (o2 :> 2) @@ (o3 :> 4)
MCRoyalty == (o1 :> 0) @@ (o2 :> 1) @@ (o3 :> 3)
=============================================================================
