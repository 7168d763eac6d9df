-------------------------------- MODULE Deal --------------------------------
(***************************************************************************)
(* The deal between one creator and one establishment about one product:   *)
(* offers and counter-offers, the contract an accepted offer turns into,   *)
(* the signatures of both sides, and the launch that goes on sale once the *)
(* contract is signed.  An administrator may pause the product.            *)
(*                                                                         *)
(*   server/domain.ts      offers, acceptance, signing, launch             *)
(*   server/moderation.ts  pause and resume of a product                   *)
(*   server/orders.ts      the offer an order is priced by                 *)
(*                                                                         *)
(* A handler checks what it needs with statements of their own, calls out  *)
(* (acceptance uploads the contract's text to encrypted storage), and only *)
(* then writes.  Each is two steps here, with other requests in between.   *)
(* Transactions are one step: on SQLite they run one at a time; on         *)
(* PostgreSQL the row locks and the UNIQUE version numbers serialise them, *)
(* but for an acceptance, whose first UPDATE misses the contracts that are *)
(* written between it and the INSERT.                                      *)
(***************************************************************************)
EXTENDS Integers, FiniteSets

CONSTANTS
    MaxOffers,      \* bound: offers made in the collaboration
    MaxContracts,   \* bound: contracts written
    Requests        \* requests that may be in progress at once

ASSUME OffersAssumption    == MaxOffers \in Nat
ASSUME ContractsAssumption == MaxContracts \in Nat

Offers    == 1..MaxOffers         \* offer_versions.version_number
Contracts == 1..MaxContracts      \* contract_versions.version_number

VARIABLES
    offer,      \* offer_versions.status, "NONE" before the row exists
    contract,   \* contract_versions.status
    terms,      \* the offer whose terms the contract's document states
    signed,     \* contract_signatures.signer_side, of each contract
    stage,      \* collaborations.stage
    launch,     \* launches.status
    product,    \* products.status
    cleared,    \* host verified and every manual gate item TRUE
    request,    \* what each request in progress has checked
    overtaken   \* history: an acceptance was written that no longer applied

dealVars == <<offer, contract, terms, signed>>
saleVars == <<launch, product, cleared>>
vars == <<offer, contract, terms, signed, stage, launch, product, cleared, request, overtaken>>

Sides          == {"CREATOR", "HOST"}
OfferStatus    == {"NONE", "PENDING", "ACCEPTED", "SUPERSEDED"}
ContractStatus == {"NONE", "PENDING_SIGNATURES", "FULLY_SIGNED", "VOID"}
LaunchStatus   == {"NONE", "PREPARING", "LIVE", "PAUSED"}
ProductStatus  == {"AVAILABLE_FOR_MATCHING", "PAUSED"}
Stage          == {"ACCESS_REQUESTED", "ACCESS_GRANTED", "OFFER_SENT", "CONTRACTING",
                   "SIGNED", "LIVE_TRIAL"}

\* What a request has passed: nothing, the checks of an acceptance, of a
\* signature, of a preparation or of an activation, or the UPDATE that put
\* the launch on sale.
Idle == [op |-> "IDLE"]
Step ==
    [op : {"IDLE", "PREPARE", "ACTIVATE", "OPENED"}]
        \cup [op : {"ACCEPT"}, offer : Offers, known : SUBSET Contracts]
        \cup [op : {"SIGN"}, contract : Contracts, side : Sides]

Init ==
    /\ offer     = [v \in Offers |-> "NONE"]
    /\ contract  = [c \in Contracts |-> "NONE"]
    /\ terms     = [c \in Contracts |-> 0]
    /\ signed    = [c \in Contracts |-> {}]
    /\ stage     = "ACCESS_REQUESTED"
    /\ launch    = "NONE"
    /\ product   = "AVAILABLE_FOR_MATCHING"
    /\ cleared   = FALSE
    /\ request   = [r \in Requests |-> Idle]
    /\ overtaken = FALSE

-----------------------------------------------------------------------------
(* Queries of the handlers.                                                 *)

\* MAX(version_number) + 1.
NextOffer(v)    == \A w \in Offers    : offer[w] # "NONE" <=> w < v
NextContract(c) == \A d \in Contracts : contract[d] # "NONE" <=> d < c

Written       == {c \in Contracts : contract[c] # "NONE"}
Signable(c)   == contract[c] = "PENDING_SIGNATURES"
FullySigned   == {c \in Contracts : contract[c] = "FULLY_SIGNED"}

\* ORDER BY version_number DESC LIMIT 1.
LatestSigned ==
    \E c \in FullySigned : \A d \in Contracts : d > c => contract[d] = "NONE"

\* The offer an order is priced, and a royalty computed, by.
AcceptedOffer(v) ==
    /\ offer[v] = "ACCEPTED"
    /\ \A w \in Offers : w > v => offer[w] # "ACCEPTED"

LaunchGate == LatestSigned /\ cleared

-----------------------------------------------------------------------------
(* POST /collaborations/:id/offers and .../accept.                          *)

\* POST /recipe-access/:id/approve moves the collaboration on.
GrantAccess ==
    /\ stage = "ACCESS_REQUESTED"
    /\ stage' = "ACCESS_GRANTED"
    /\ UNCHANGED <<dealVars, saleVars, request, overtaken>>

\* Faulty variant: an older offer stays open beside the new one.
SendBesideOpen(v) ==
    /\ NextOffer(v)
    /\ offer' = [offer EXCEPT ![v] = "PENDING"]
    /\ stage' = "OFFER_SENT"
    /\ UNCHANGED <<contract, terms, signed, saleVars, request, overtaken>>

\* Either side may send one at any stage; it replaces the one that is open.
SendOffer(v) ==
    /\ NextOffer(v)
    /\ LET closed == [w \in Offers |-> IF offer[w] = "PENDING" THEN "SUPERSEDED" ELSE offer[w]]
       IN  offer' = [closed EXCEPT ![v] = "PENDING"]
    /\ stage' = "OFFER_SENT"
    /\ UNCHANGED <<contract, terms, signed, saleVars, request, overtaken>>

\* The offer is pending, its sender is of the other side (an administrator
\* may answer for either), and no contract is signed yet.
BeginAccept(r, v) ==
    /\ request[r] = Idle
    /\ offer[v] = "PENDING"
    /\ FullySigned = {}
    /\ request' = [request EXCEPT ![r] = [op |-> "ACCEPT", offer |-> v, known |-> Written]]
    /\ UNCHANGED <<dealVars, stage, saleVars, overtaken>>

\* Faulty variant: every contract its UPDATE sees is voided.
VoidAll(seen) == [d \in Contracts |-> IF d \in seen THEN "VOID" ELSE contract[d]]

\* Contracts that wait for signatures are.
VoidOpen(seen) == [d \in Contracts |-> IF d \in seen /\ Signable(d) THEN "VOID" ELSE contract[d]]

\* The transaction, once the document is stored.  Its UPDATE sees at least
\* the contracts there were at the check, and all of them on SQLite.  It
\* looks neither at whether the offer is still pending nor, again, for a
\* signed contract.
CommitAccept(r, c) ==
    /\ request[r].op = "ACCEPT"
    /\ NextContract(c)
    /\ \E k \in 0..(c - 1) :
          /\ request[r].known \subseteq 1..k
          /\ contract' = [VoidOpen(1..k) EXCEPT ![c] = "PENDING_SIGNATURES"]
    /\ LET v == request[r].offer IN
          /\ terms'     = [terms EXCEPT ![c] = v]
          /\ offer'     = [offer EXCEPT ![v] = IF @ = "PENDING" THEN "ACCEPTED" ELSE @]
          /\ overtaken' = (overtaken \/ offer[v] # "PENDING" \/ FullySigned # {})
    /\ stage'   = "CONTRACTING"
    /\ request' = [request EXCEPT ![r] = Idle]
    /\ UNCHANGED <<signed, saleVars>>

-----------------------------------------------------------------------------
(* POST /contracts/:id/sign.                                                *)

\* The signer is the creator or the establishment's owner and PACI verified
\* them for a contract.
BeginSign(r, c, side) ==
    /\ request[r] = Idle
    /\ Signable(c)
    /\ request' = [request EXCEPT ![r] = [op |-> "SIGN", contract |-> c, side |-> side]]
    /\ UNCHANGED <<dealVars, stage, saleVars, overtaken>>

\* The first signature is recorded whatever became of the contract.
SignFirst(c, side) ==
    /\ signed[c] = {}
    /\ signed' = [signed EXCEPT ![c] = {side}]
    /\ UNCHANGED <<contract, stage>>

\* Faulty variant: the second signature is kept on a contract voided by now.
SignSecondAnyway(c, side) ==
    /\ signed[c] # {} /\ side \notin signed[c]
    /\ signed'   = [signed EXCEPT ![c] = @ \cup {side}]
    /\ contract' = [contract EXCEPT ![c] = IF @ = "PENDING_SIGNATURES" THEN "FULLY_SIGNED" ELSE @]
    /\ stage'    = "SIGNED"

\* The second completes the contract or, if it no longer waits for
\* signatures, is rolled back.
SignSecond(c, side) ==
    /\ signed[c] # {} /\ side \notin signed[c]
    /\ Signable(c)
    /\ signed'   = [signed EXCEPT ![c] = @ \cup {side}]
    /\ contract' = [contract EXCEPT ![c] = "FULLY_SIGNED"]
    /\ stage'    = "SIGNED"

CommitSign(r) ==
    /\ request[r].op = "SIGN"
    /\ \/ SignFirst(request[r].contract, request[r].side)
       \/ SignSecond(request[r].contract, request[r].side)
    /\ request' = [request EXCEPT ![r] = Idle]
    /\ UNCHANGED <<offer, terms, saleVars, overtaken>>

-----------------------------------------------------------------------------
(* POST /collaborations/:id/launch and .../launch/activate.                 *)

\* Faulty variant: some offer was accepted, signed or not.
BeginPrepareUnsigned(r) ==
    /\ request[r] = Idle
    /\ \E v \in Offers : offer[v] = "ACCEPTED"
    /\ launch = "NONE"
    /\ request' = [request EXCEPT ![r] = [op |-> "PREPARE"]]
    /\ UNCHANGED <<dealVars, stage, saleVars, overtaken>>

BeginPrepare(r) ==
    /\ request[r] = Idle
    /\ LatestSigned
    /\ launch = "NONE"
    /\ request' = [request EXCEPT ![r] = [op |-> "PREPARE"]]
    /\ UNCHANGED <<dealVars, stage, saleVars, overtaken>>

\* INSERT: a collaboration has one launch.
CommitPrepare(r) ==
    /\ request[r].op = "PREPARE"
    /\ launch = "NONE"
    /\ launch'  = "PREPARING"
    /\ request' = [request EXCEPT ![r] = Idle]
    /\ UNCHANGED <<dealVars, stage, product, cleared, overtaken>>

\* PUT .../launch-gate/:key, or a change of the host's verification.
UpdateGate ==
    /\ cleared' = ~cleared
    /\ UNCHANGED <<dealVars, stage, launch, product, request, overtaken>>

BeginActivate(r) ==
    /\ request[r] = Idle
    /\ LaunchGate
    /\ product # "PAUSED"
    /\ request' = [request EXCEPT ![r] = [op |-> "ACTIVATE"]]
    /\ UNCHANGED <<dealVars, stage, saleVars, overtaken>>

\* The conditional UPDATE looks at the launch alone, not at the product.
CommitActivate(r) ==
    /\ request[r].op = "ACTIVATE"
    /\ launch \in {"PREPARING", "PAUSED"}
    /\ launch'  = "LIVE"
    /\ request' = [request EXCEPT ![r] = [op |-> "OPENED"]]
    /\ UNCHANGED <<dealVars, stage, product, cleared, overtaken>>

\* The stage follows in a statement of its own.
AnnounceActivation(r) ==
    /\ request[r].op = "OPENED"
    /\ stage'   = "LIVE_TRIAL"
    /\ request' = [request EXCEPT ![r] = Idle]
    /\ UNCHANGED <<dealVars, saleVars, overtaken>>

\* What a request checked does not hold when it writes and it is refused
\* (409 or a UNIQUE violation), its upload fails or its instance stops.
EndRequest(r) ==
    /\ request[r] # Idle
    /\ request' = [request EXCEPT ![r] = Idle]
    /\ UNCHANGED <<dealVars, stage, saleVars, overtaken>>

-----------------------------------------------------------------------------
(* POST /moderation/products/:id/pause and /resume.                         *)

PauseProduct ==
    /\ product # "PAUSED" \/ launch = "LIVE"
    /\ product' = "PAUSED"
    /\ launch'  = IF launch = "LIVE" THEN "PAUSED" ELSE launch
    /\ UNCHANGED <<dealVars, stage, cleared, request, overtaken>>

ResumeProduct ==
    /\ product = "PAUSED"
    /\ product' = "AVAILABLE_FOR_MATCHING"
    /\ UNCHANGED <<dealVars, stage, launch, cleared, request, overtaken>>

-----------------------------------------------------------------------------
Next ==
    \/ GrantAccess
    \/ \E v \in Offers : SendOffer(v)
    \/ \E r \in Requests, v \in Offers : BeginAccept(r, v)
    \/ \E r \in Requests, c \in Contracts : CommitAccept(r, c)
    \/ \E r \in Requests, c \in Contracts, side \in Sides : BeginSign(r, c, side)
    \/ \E r \in Requests :
          \/ CommitSign(r)
          \/ BeginPrepare(r) \/ CommitPrepare(r)
          \/ BeginActivate(r) \/ CommitActivate(r) \/ AnnounceActivation(r)
          \/ EndRequest(r)
    \/ UpdateGate
    \/ PauseProduct \/ ResumeProduct

Spec == Init /\ [][Next]_vars

-----------------------------------------------------------------------------
(* Properties.                                                              *)

\* Every row has a value its table admits and every contract states the
\* terms of an offer that was made and answered.
TypeOK ==
    /\ offer     \in [Offers -> OfferStatus]
    /\ contract  \in [Contracts -> ContractStatus]
    /\ terms     \in [Contracts -> Offers \cup {0}]
    /\ signed    \in [Contracts -> SUBSET Sides]
    /\ stage     \in Stage
    /\ launch    \in LaunchStatus
    /\ product   \in ProductStatus
    /\ cleared   \in BOOLEAN
    /\ request   \in [Requests -> Step]
    /\ overtaken \in BOOLEAN
    /\ \A c \in Written : terms[c] \in Offers /\ offer[terms[c]] \in {"ACCEPTED", "SUPERSEDED"}

\* A contract is fully signed exactly when both sides signed it: signatures
\* and an acceptance that voids the contract meet in any order, and a void
\* contract "can never become FULLY_SIGNED" (contract-signing.test.ts:78).
SignaturesStand ==
    \A c \in Contracts : contract[c] = "FULLY_SIGNED" <=> signed[c] = Sides

\* A signed contract is final ("ContractVersion immutable",
\* PRODUCTION_ARCHITECTURE.md:59): no step voids or replaces its document.
SignedIsFinal ==
    [][\A c \in FullySigned :
          contract'[c] = "FULLY_SIGNED" /\ terms'[c] = terms[c]]_vars

\* A launch is prepared, put on sale and shown as signed or on trial only
\* for a deal both sides signed, though each of these writes comes after its
\* check and the contract may have been followed by another.
LaunchesAreSigned ==
    launch # "NONE" \/ stage \in {"SIGNED", "LIVE_TRIAL"} => FullySigned # {}

\* Orders are priced (orders.ts:63-69) and royalties computed
\* (payments.ts:478) by the accepted offer of the highest version; the
\* parties signed the terms of a contract.  The two are the same unless an
\* acceptance was written after the offer it checked had been answered or
\* replaced, or after another contract was signed.
SignedTermsSold ==
    ~overtaken => \A c \in FullySigned : AcceptedOffer(terms[c])

\* "A fully-signed contract can't be renegotiated through a plain
\* offer-accept" (domain.ts:877).
SignedDealStands ==
    [][FullySigned # {} => \A v \in Offers : AcceptedOffer(v)' => AcceptedOffer(v)]_vars
=============================================================================
