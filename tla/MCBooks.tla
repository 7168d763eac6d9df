------------------------------- MODULE MCBooks -------------------------------
(***************************************************************************)
(* Small instances of Books for TLC.  The switch, the evidence of the      *)
(* ledger and the attestations do not act on each other: a behaviour       *)
(* exercises one of them (its scope) around the settlements, so that their *)
(* states add up instead of multiplying.                                   *)
(***************************************************************************)
EXTENDS Books, TLC

CONSTANTS o1, o2, o3

\* Royalties that tell every set of orders apart but for the free one, and
\* prices that leave the platform next to nothing to absorb a fault.
MCPrice   == (o1 :> 1) @@ (o2 :> 2) @@ (o3 :> 4)
MCRoyalty == (o1 :> 0) @@ (o2 :> 1) @@ (o3 :> 3)

\* A row may say any type, of any sum of prices or royalties; a forger
\* writes a capture of three fils.
MCEntry   == [type : EntryType, fils : 0..4]
MCForgery == {Row("PAYMENT_CAPTURED", 3)}

VARIABLE scope
mcVars == <<bookVars, scope>>

\* The evidence is looked at around captures and refunds; one attestation is
\* made, with one settlement request in progress.  Two sales are made, and
\* the free one is one of them around the switch only.
InScope ==
    /\ Cardinality({o \in Orders : order[o] # "NONE"}) <= 2
    /\ scope # "switch"   => ~frozen /\ order[o1] = "NONE"
    /\ scope # "evidence" => reading = {} /\ anchoring = {} /\ edit = NoEdit
    /\ scope = "evidence" => admitted = {}
    /\ scope # "reserves" => attesting = <<>>
    /\ scope = "reserves" => /\ Cardinality(admitted) <= 1
                             /\ attested # NoAttestation => attesting = <<>>

MCInit == BooksInit /\ scope \in {"switch", "evidence", "reserves"}
MCNext == UNCHANGED scope /\ BooksNext /\ InScope'
MCSpec == MCInit /\ [][MCNext]_mcVars /\ BooksFairness
=============================================================================
