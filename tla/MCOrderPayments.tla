-------------------------- MODULE MCOrderPayments --------------------------
(* Small instances of OrderPayments for TLC. *)
EXTENDS OrderPayments, TLC

CONSTANTS o1, o2

\* Two orders that together fill the larger branch and overrun the smaller.
MCUnits == (o1 :> 1) @@ (o2 :> 2)
=============================================================================
