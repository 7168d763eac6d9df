-------------------------------- MODULE Books --------------------------------
(***************************************************************************)
(* The books of the platform: settlement and the ledger it posts to, the   *)
(* SETTLEMENTS kill switch in front of the two settlement routes, and the  *)
(* audits that read the books while they move.                             *)
(*                                                                         *)
(*   server/domain.ts             the settlement routes                    *)
(*   server/kill-switch.ts        engage, release, assertKillSwitchClear   *)
(*   server/proof-of-reserves.ts  buildReserveAttestation                  *)
(*                                                                         *)
(* Every step of Settlement that posts appends the row of LedgerChain in   *)
(* the same transaction.  A request passes the switch before its           *)
(* transaction begins; an attestation reads the accruals, three sums and   *)
(* the head in five statements of no transaction.                          *)
(***************************************************************************)
EXTENDS Settlement, LedgerChain

VARIABLES
    frozen,     \* security_kill_switches.state = 'ENGAGED' for SETTLEMENTS
    admitted,   \* requests past the switch: <<"approve" or "pay", batch>>
    attesting,  \* what an attestation in progress has read, in order
    attested,   \* the last reserve attestation
    quiet       \* nothing was posted or accrued since that one began to read

switchVars == <<frozen, admitted>>
attestVars == <<attesting, attested, quiet>>
bookVars   == <<vars, chainVars, switchVars, attestVars>>

Request == {"approve", "pay"} \X Batches

NoAttestation == [liabilities |-> 0, reserve |-> 0, solvent |-> TRUE, head |-> Genesis]

BooksInit ==
    /\ Init
    /\ ChainInit
    /\ frozen    = FALSE
    /\ admitted  = {}
    /\ attesting = <<>>
    /\ attested  = NoAttestation
    /\ quiet     = TRUE

\* Bound: one audit at a time.  Audits write nothing another one reads, but
\* for an anchor, which a later one may.
NoAudit == reading = {} /\ anchoring = {} /\ attesting = <<>>

-----------------------------------------------------------------------------
(* The steps of the books.                                                  *)

Row(type, fils) == [type |-> type, fils |-> fils]

\* A row of the ledger has one of the types of settlement and an amount that
\* is not negative, and any that settlement posts can be one.
ASSUME EntryAssumption ==
    /\ Entry \subseteq [type : EntryType, fils : Nat]
    /\ \A o \in Orders : /\ Row("PAYMENT_CAPTURED", Price[o]) \in Entry
                        /\ Row("PAYMENT_REFUNDED", Price[o]) \in Entry
    /\ \A S \in SUBSET Orders : Row("SETTLEMENT_PAID", Owed(S)) \in Entry

\* A step that posts, one that only moves accruals, and one that does not
\* touch what an attestation reads.
Posting(type, fils) == PostEntry(Row(type, fils)) /\ quiet' = FALSE
Accruing            == UNCHANGED chainVars /\ quiet' = FALSE
Aside               == UNCHANGED <<chainVars, attestVars>>

Sale(o) ==
    /\ \/ CaptureSale(o) /\ Posting("PAYMENT_CAPTURED", Price[o])
       \/ FulfilSale(o) /\ Accruing
       \/ RefundSale(o) /\ Posting("PAYMENT_REFUNDED", Price[o])
    /\ UNCHANGED <<switchVars, attesting, attested>>

Leave(r)  == admitted' = admitted \ {r} /\ UNCHANGED frozen

\* POST /settlements/:creatorId/approve.
Approving(b) ==
    /\ <<"approve", b>> \in admitted
    /\ \/ BeginApprove(b) /\ Aside /\ UNCHANGED switchVars
       \/ CommitApprove(b) /\ Accruing /\ Leave(<<"approve", b>>) /\ UNCHANGED <<attesting, attested>>
       \/ AbortApprove(b) /\ Aside /\ Leave(<<"approve", b>>)

\* NO_ELIGIBLE_ACCRUALS.
NothingToApprove(b) ==
    /\ <<"approve", b>> \in admitted
    /\ selected[b] = {}
    /\ MayBegin
    /\ Eligible = {}
    /\ Leave(<<"approve", b>>)
    /\ Aside /\ UNCHANGED vars

\* POST /internal/settlements/:id/paid.
Paying(b) ==
    /\ <<"pay", b>> \in admitted
    /\ \/ BeginPay(b) /\ Aside /\ UNCHANGED switchVars
       \/ CommitPay(b) /\ Posting("SETTLEMENT_PAID", total[b]) /\ Leave(<<"pay", b>>)
                       /\ UNCHANGED <<attesting, attested>>
       \/ AbortPay(b) /\ Aside /\ Leave(<<"pay", b>>)
       \/ RefusePay(b) /\ Aside /\ Leave(<<"pay", b>>)

\* applied: false, the batch is PAID already.
PaidAlready(b) ==
    /\ <<"pay", b>> \in admitted
    /\ b \notin paying
    /\ MayBegin
    /\ batch[b] = "PAID"
    /\ Leave(<<"pay", b>>)
    /\ Aside /\ UNCHANGED vars

-----------------------------------------------------------------------------
(* The kill switch.                                                         *)

\* Faulty variant: the route of a payment does not ask the switch.
PassUnasked(r) ==
    /\ r \notin admitted
    /\ r[1] = "approve" => ~frozen /\ batch[r[2]] = "NONE"
    /\ r[1] = "pay" => batch[r[2]] # "NONE"
    /\ admitted' = admitted \cup {r}
    /\ Aside /\ UNCHANGED <<vars, frozen>>

\* assertKillSwitchClear, then the rest of the request.
Pass(r) ==
    /\ ~frozen
    /\ r \notin admitted
    /\ r[1] = "approve" => batch[r[2]] = "NONE"
    /\ r[1] = "pay" => batch[r[2]] # "NONE"
    /\ admitted' = admitted \cup {r}
    /\ Aside /\ UNCHANGED <<vars, frozen>>

EngageSwitch ==
    /\ ~frozen
    /\ frozen' = TRUE
    /\ Aside /\ UNCHANGED <<vars, admitted>>

ReleaseSwitch ==
    /\ frozen
    /\ frozen' = FALSE
    /\ Aside /\ UNCHANGED <<vars, admitted>>

-----------------------------------------------------------------------------
(* buildReserveAttestation.                                                 *)

\* SUM(amount_fils) over the rows of a type.
RowsOf(type) == {i \in DOMAIN rows : rows[i].entry.type = type}
SumOf(type)  == Cardinality(UNION {{i} \X (1..rows[i].entry.fils) : i \in RowsOf(type)})

ReadOrder == <<"PAYMENT_CAPTURED", "SETTLEMENT_PAID", "PAYMENT_REFUNDED">>

ReadLiabilities ==
    /\ NoAudit
    /\ attesting' = <<Liabilities>>
    /\ quiet' = TRUE
    /\ UNCHANGED <<vars, chainVars, switchVars, attested>>

ReadSum ==
    /\ Len(attesting) \in 1..3
    /\ attesting' = Append(attesting, SumOf(ReadOrder[Len(attesting)]))
    /\ UNCHANGED <<vars, chainVars, switchVars, attested, quiet>>

\* Faulty variant: the money refunded stays in the reserve.
ReserveWithRefunds(read) == read[2] - read[3]

\* computeReserve, from the three sums it read.
ReserveOf(read) == read[2] - read[3] - read[4]

StoreAttestation ==
    /\ Len(attesting) = 4
    /\ attested' = [liabilities |-> attesting[1],
                    reserve     |-> ReserveOf(attesting),
                    solvent     |-> ReserveOf(attesting) >= attesting[1],
                    head        |-> head.hash]
    /\ attesting' = <<>>
    /\ UNCHANGED <<vars, chainVars, switchVars, quiet>>

Audit ==
    \/ /\ NoAudit /\ (BeginVerify \/ BeginAnchor)
       /\ UNCHANGED <<vars, switchVars, attestVars>>
    \/ /\ EndVerify \/ EndAnchor
       /\ UNCHANGED <<vars, switchVars, attestVars>>
    \/ ReadLiabilities \/ ReadSum \/ StoreAttestation

Tampering == Tamper /\ quiet' = FALSE /\ UNCHANGED <<vars, switchVars, attesting, attested>>

-----------------------------------------------------------------------------
BooksNext ==
    \/ \E o \in Orders : Sale(o)
    \/ \E b \in Batches : Approving(b) \/ NothingToApprove(b) \/ Paying(b) \/ PaidAlready(b)
    \/ \E r \in Request : Pass(r)
    \/ EngageSwitch \/ ReleaseSwitch
    \/ Audit
    \/ Tampering

BooksSpec == BooksInit /\ [][BooksNext]_bookVars

\* A request that passed the switch is answered.
BooksFairness ==
    \A b \in Batches :
        /\ WF_bookVars(Approving(b) \/ NothingToApprove(b))
        /\ WF_bookVars(Paying(b) \/ PaidAlready(b))

FairBooksSpec == BooksSpec /\ BooksFairness

-----------------------------------------------------------------------------
(* Properties.                                                              *)

\* An attestation that no transaction crossed states the books as they are:
\* what creators are owed, the money the ledger took in less what it paid
\* out and back (proof-of-reserves.ts:37), and the head of that ledger.
AttestsTheBooks ==
    [][attested' # attested /\ quiet /\ edit = NoEdit =>
          /\ attested'.liabilities = Liabilities
          /\ attested'.reserve     = Reserve
          /\ attested'.solvent     = (Liabilities <= Reserve)
          /\ attested'.head        = head.hash]_bookVars

\* "Each switch freezes one blast surface" (kill-switch.ts:5-12): a freeze of
\* settlements that is not released brings them to rest, the approvals and
\* payments that had passed the switch included.
FreezeTakesHold == <>[]frozen => <>[](admitted = {} /\ Open = {})
=============================================================================
