------------------------------ MODULE MCProduct ------------------------------
(***************************************************************************)
(* Small instances of the parts that make up one product: its deal (Deal), *)
(* the units of its launch (Reservation), the two ways its recipe is shown *)
(* (ExposureBudget, SecretEscrow), and the preferences of one who buys it  *)
(* (MemoryCapsule).  They share no row, and a behaviour exercises one of   *)
(* them, so that their states add up instead of multiplying.               *)
(***************************************************************************)
EXTENDS Deal, Reservation, ExposureBudget, SecretEscrow, MemoryCapsule, TLC

CONSTANTS o1, o2, o3, b1, b2

\* Two orders for the slot of one branch, and one that fills another branch;
\* together they overrun the launch.
MCBranchOf == (o1 :> b1) @@ (o2 :> b1) @@ (o3 :> b2)
MCSize     == (o1 :> 1) @@ (o2 :> 1) @@ (o3 :> 2)

\* Requests differ in nothing but their names; so do the two orders.
Symmetry == {p @@ q : p \in Permutations(Requests), q \in Permutations({o1, o2})}

VARIABLE scope
mcVars == <<vars, resVars, exposureVars, escrowVars, capsuleVars, scope>>

MCInit ==
    /\ Init /\ ReservationInit /\ ExposureInit /\ EscrowInit /\ CapsuleInit
    /\ scope \in {"deal", "units", "exposure", "escrow", "capsule"}

MCNext ==
    /\ UNCHANGED scope
    /\ \/ /\ scope = "deal" /\ Next
          /\ UNCHANGED <<resVars, exposureVars, escrowVars, capsuleVars>>
       \/ /\ scope = "units" /\ ReservationNext
          /\ UNCHANGED <<vars, exposureVars, escrowVars, capsuleVars>>
       \/ /\ scope = "exposure" /\ ExposureNext
          /\ UNCHANGED <<vars, resVars, escrowVars, capsuleVars>>
       \/ /\ scope = "escrow" /\ EscrowNext
          /\ UNCHANGED <<vars, resVars, exposureVars, capsuleVars>>
       \/ /\ scope = "capsule" /\ CapsuleNext
          /\ UNCHANGED <<vars, resVars, exposureVars, escrowVars>>

MCSpec == MCInit /\ [][MCNext]_mcVars
=============================================================================
