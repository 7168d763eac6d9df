----------------------------- MODULE DealProofs -----------------------------
(***************************************************************************)
(* Theorems about Deal, for any number of offers, contracts and requests   *)
(* in progress.  No request is assumed to finish: each proof rests on what *)
(* a request found when it was checked and may still rely on when it       *)
(* writes.                                                                 *)
(***************************************************************************)
EXTENDS Deal, TLAPS

-----------------------------------------------------------------------------
(* Requests in progress.                                                    *)

LEMMA RequestShape ==
    ASSUME TypeOK, NEW r \in Requests
    PROVE  /\ request[r].op = "ACCEPT" =>
                 request[r].offer \in Offers /\ request[r].known \subseteq Contracts
           /\ request[r].op = "SIGN" =>
                 request[r].contract \in Contracts /\ request[r].side \in Sides
BY DEF TypeOK, Step

\* What a request is about was there when it was checked, and rows are
\* never deleted.
RequestsOnRecord ==
    \A r \in Requests :
       /\ request[r].op = "ACCEPT" => offer[request[r].offer] # "NONE"
       /\ request[r].op = "SIGN"   => contract[request[r].contract] # "NONE"

RecordInv == TypeOK /\ RequestsOnRecord

LEMMA RecordInvInit == Init => RecordInv
<1> SUFFICES ASSUME Init PROVE RecordInv
  OBVIOUS
<1>1. Idle \in Step /\ Idle.op = "IDLE"
  BY DEF Idle, Step
<1>2. request \in [Requests -> Step] /\ RequestsOnRecord
  BY <1>1 DEF Init, RequestsOnRecord
<1>3. Written = {}
  BY DEF Init, Written
<1>4. TypeOK
  BY <1>2, <1>3 DEF Init, TypeOK, OfferStatus, ContractStatus, LaunchStatus, ProductStatus, Stage
<1> QED
  BY <1>2, <1>4 DEF RecordInv

\* The two steps that write offers or contracts on their own account.
LEMMA SendOfferRecords ==
    ASSUME RecordInv, NEW v \in Offers, SendOffer(v)
    PROVE  RecordInv'
<1> USE DEF RecordInv, SendOffer, saleVars
<1>0. offer[v] = "NONE"
  <2>1. ~(v < v)
    BY DEF Offers
  <2> QED
    BY <2>1 DEF NextOffer
<1>1. /\ offer' \in [Offers -> OfferStatus]
      /\ \A w \in Offers : offer[w] # "NONE" => offer'[w] # "NONE"
      /\ \A w \in Offers : offer[w] \in {"ACCEPTED", "SUPERSEDED"} =>
            offer'[w] \in {"ACCEPTED", "SUPERSEDED"}
  BY <1>0 DEF TypeOK, OfferStatus
<1>2. TypeOK'
  BY <1>1 DEF TypeOK, Stage, Written
<1>3. RequestsOnRecord'
  BY <1>1, RequestShape DEF RequestsOnRecord
<1> QED
  BY <1>2, <1>3

LEMMA CommitAcceptRecords ==
    ASSUME RecordInv, NEW r \in Requests, NEW c \in Contracts, CommitAccept(r, c)
    PROVE  RecordInv'
<1> DEFINE v == request[r].offer
<1> USE DEF RecordInv
<1>1. v \in Offers /\ offer[v] # "NONE"
  BY RequestShape DEF CommitAccept, RequestsOnRecord
<1>2. /\ offer' \in [Offers -> OfferStatus]
      /\ offer'[v] \in {"ACCEPTED", "SUPERSEDED"}
      /\ \A w \in Offers : w # v => offer'[w] = offer[w]
      /\ \A w \in Offers : offer[w] # "NONE" => offer'[w] # "NONE"
  BY <1>1 DEF CommitAccept, TypeOK, OfferStatus
<1>3. PICK k \in 0..(c - 1) :
         contract' = [VoidOpen(1..k) EXCEPT ![c] = "PENDING_SIGNATURES"]
  BY DEF CommitAccept
<1>4. /\ contract' \in [Contracts -> ContractStatus]
      /\ \A d \in Contracts : contract[d] # "NONE" => contract'[d] # "NONE"
      /\ \A d \in Contracts : d # c /\ contract'[d] # "NONE" => contract[d] # "NONE"
  BY <1>3 DEF TypeOK, ContractStatus, VoidOpen, Signable
<1>5. terms' = [terms EXCEPT ![c] = v]
  BY DEF CommitAccept
<1>6. \A d \in Contracts : contract'[d] # "NONE" =>
         terms'[d] \in Offers /\ offer'[terms'[d]] \in {"ACCEPTED", "SUPERSEDED"}
  BY <1>1, <1>2, <1>4, <1>5 DEF TypeOK, Written
<1>7. request' \in [Requests -> Step]
  BY DEF CommitAccept, TypeOK, Step, Idle
<1>8. TypeOK'
  BY <1>1, <1>2, <1>4, <1>5, <1>6, <1>7 DEF CommitAccept, TypeOK, Written, Stage, saleVars
<1>9. RequestsOnRecord'
  BY <1>2, <1>4, RequestShape DEF CommitAccept, RequestsOnRecord, TypeOK, Idle
<1> QED
  BY <1>8, <1>9

LEMMA CommitSignRecords ==
    ASSUME RecordInv, NEW r \in Requests, CommitSign(r)
    PROVE  RecordInv'
<1> DEFINE c == request[r].contract
           side == request[r].side
<1> USE DEF RecordInv
<1>1. c \in Contracts /\ side \in Sides
  BY RequestShape DEF CommitSign
<1>2. signed' \in [Contracts -> SUBSET Sides] /\ stage' \in Stage
  BY <1>1 DEF CommitSign, SignFirst, SignSecond, TypeOK, Stage
<1>3. /\ contract' \in [Contracts -> ContractStatus]
      /\ \A d \in Contracts : contract[d] # "NONE" <=> contract'[d] # "NONE"
  BY <1>1 DEF CommitSign, SignFirst, SignSecond, TypeOK, ContractStatus, Signable
<1>4. request' \in [Requests -> Step]
  BY DEF CommitSign, TypeOK, Step, Idle
<1>5. TypeOK'
  BY <1>2, <1>3, <1>4 DEF CommitSign, TypeOK, Written, saleVars
<1>6. RequestsOnRecord'
  BY <1>3, RequestShape DEF CommitSign, RequestsOnRecord, TypeOK, Idle
<1> QED
  BY <1>5, <1>6

LEMMA RecordInvNext == RecordInv /\ [Next]_vars => RecordInv'
<1> SUFFICES ASSUME RecordInv, [Next]_vars PROVE RecordInv'
  OBVIOUS
<1> USE DEF RecordInv, dealVars, saleVars
<1>1. ASSUME NEW v \in Offers, SendOffer(v) PROVE RecordInv'
  BY <1>1, SendOfferRecords
<1>2. ASSUME NEW r \in Requests, NEW c \in Contracts, CommitAccept(r, c) PROVE RecordInv'
  BY <1>2, CommitAcceptRecords
<1>3. ASSUME NEW r \in Requests, CommitSign(r) PROVE RecordInv'
  BY <1>3, CommitSignRecords
<1>4. ASSUME NEW r \in Requests, NEW v \in Offers, BeginAccept(r, v) PROVE RecordInv'
  <2>1. [op |-> "ACCEPT", offer |-> v, known |-> Written] \in Step
    BY DEF Step, Written
  <2>2. request' \in [Requests -> Step]
    BY <1>4, <2>1 DEF BeginAccept, TypeOK
  <2> QED
    BY <1>4, <2>2 DEF BeginAccept, TypeOK, RequestsOnRecord, Written
<1>5. ASSUME NEW r \in Requests, NEW c \in Contracts, NEW side \in Sides,
             BeginSign(r, c, side)
      PROVE  RecordInv'
  <2>1. [op |-> "SIGN", contract |-> c, side |-> side] \in Step
    BY DEF Step
  <2>2. request' \in [Requests -> Step]
    BY <1>5, <2>1 DEF BeginSign, TypeOK
  <2> QED
    BY <1>5, <2>2 DEF BeginSign, TypeOK, RequestsOnRecord, Written, Signable
<1>6. ASSUME NEW r \in Requests,
             BeginPrepare(r) \/ CommitPrepare(r) \/ BeginActivate(r) \/ CommitActivate(r)
                \/ AnnounceActivation(r) \/ EndRequest(r)
      PROVE  RecordInv'
  <2>1. \E s \in Step : /\ s.op \notin {"ACCEPT", "SIGN"}
                        /\ request' = [request EXCEPT ![r] = s]
    BY <1>6 DEF BeginPrepare, CommitPrepare, BeginActivate, CommitActivate,
                AnnounceActivation, EndRequest, Step, Idle
  <2>2. request' \in [Requests -> Step] /\ RequestsOnRecord'
    BY <1>6, <2>1 DEF BeginPrepare, CommitPrepare, BeginActivate, CommitActivate,
                      AnnounceActivation, EndRequest, TypeOK, RequestsOnRecord
  <2> QED
    BY <1>6, <2>2 DEF BeginPrepare, CommitPrepare, BeginActivate, CommitActivate,
                      AnnounceActivation, EndRequest, TypeOK, Written, LaunchStatus, Stage
<1>7. ASSUME GrantAccess \/ UpdateGate \/ PauseProduct \/ ResumeProduct PROVE RecordInv'
  BY <1>7 DEF GrantAccess, UpdateGate, PauseProduct, ResumeProduct, TypeOK,
              RequestsOnRecord, Written, Stage, ProductStatus, LaunchStatus
<1>8. CASE UNCHANGED vars
  BY <1>8 DEF vars, TypeOK, RequestsOnRecord, Written
<1> QED
  BY <1>1, <1>2, <1>3, <1>4, <1>5, <1>6, <1>7, <1>8 DEF Next

\* Every reachable state is well typed, and every contract states the terms
\* of an offer that was made and answered (domain.ts:874-894).
THEOREM TypeCorrect == Spec => []TypeOK
<1>1. RecordInv => TypeOK
  BY DEF RecordInv
<1> QED
  BY <1>1, RecordInvInit, RecordInvNext, PTL DEF Spec

-----------------------------------------------------------------------------
(* Signatures.                                                              *)

UnwrittenUnsigned == \A c \in Contracts : contract[c] = "NONE" => signed[c] = {}

SignInv == UnwrittenUnsigned /\ SignaturesStand

LEMMA SignInvInit == Init => SignInv
BY DEF Init, SignInv, UnwrittenUnsigned, SignaturesStand, Sides

LEMMA SignInvNext == RecordInv /\ SignInv /\ [Next]_vars => SignInv'
<1> SUFFICES ASSUME RecordInv, SignInv, [Next]_vars PROVE SignInv'
  OBVIOUS
<1> USE DEF RecordInv, SignInv
<1>1. ASSUME NEW r \in Requests, NEW c \in Contracts, CommitAccept(r, c) PROVE SignInv'
  <2>1. PICK k \in 0..(c - 1) :
           contract' = [VoidOpen(1..k) EXCEPT ![c] = "PENDING_SIGNATURES"]
    BY <1>1 DEF CommitAccept
  <2>2. contract[c] = "NONE"
    <3>1. ~(c < c)
      BY DEF Contracts
    <3> QED
      BY <1>1, <3>1 DEF CommitAccept, NextContract
  <2>3. \A d \in Contracts : contract'[d] = "FULLY_SIGNED" <=> contract[d] = "FULLY_SIGNED"
    BY <2>1, <2>2 DEF VoidOpen, Signable, TypeOK
  <2>4. \A d \in Contracts : contract'[d] = "NONE" => contract[d] = "NONE"
    BY <2>1, <2>2 DEF VoidOpen, Signable, TypeOK
  <2> QED
    BY <1>1, <2>3, <2>4 DEF CommitAccept, UnwrittenUnsigned, SignaturesStand
<1>2. ASSUME NEW r \in Requests, CommitSign(r) PROVE SignInv'
  <2> DEFINE c == request[r].contract
             side == request[r].side
  <2>1. c \in Contracts /\ side \in Sides /\ contract[c] # "NONE"
    BY <1>2, RequestShape DEF CommitSign, RequestsOnRecord
  <2>2. CASE SignFirst(c, side)
    <3>1. {side} # Sides
      BY DEF Sides
    <3>2. contract[c] # "FULLY_SIGNED"
      BY <2>1, <2>2 DEF SignFirst, SignaturesStand, Sides
    <3>3. signed' = [signed EXCEPT ![c] = {side}] /\ contract' = contract
      BY <2>2 DEF SignFirst
    <3> QED
      BY <2>1, <3>1, <3>2, <3>3 DEF TypeOK, UnwrittenUnsigned, SignaturesStand
  <2>3. CASE SignSecond(c, side)
    <3>1. signed[c] \cup {side} = Sides
      BY <2>1, <2>3 DEF SignSecond, TypeOK, Sides
    <3>2. /\ signed' = [signed EXCEPT ![c] = Sides]
          /\ contract' = [contract EXCEPT ![c] = "FULLY_SIGNED"]
      BY <2>3, <3>1 DEF SignSecond
    <3> QED
      BY <2>1, <3>2 DEF TypeOK, UnwrittenUnsigned, SignaturesStand
  <2> QED
    BY <1>2, <2>2, <2>3 DEF CommitSign
<1>3. ASSUME UNCHANGED <<contract, signed>> PROVE SignInv'
  BY <1>3 DEF UnwrittenUnsigned, SignaturesStand
<1> QED
  BY <1>1, <1>2, <1>3
     DEF Next, vars, dealVars, GrantAccess, SendOffer, BeginAccept, BeginSign, BeginPrepare,
         CommitPrepare, UpdateGate, BeginActivate, CommitActivate, AnnounceActivation,
         EndRequest, PauseProduct, ResumeProduct

\* However signatures and acceptances meet, a contract is fully signed
\* exactly when both sides signed it (domain.ts:900).
THEOREM SignaturesAlwaysStand == Spec => []SignaturesStand
<1>1. SignInv => SignaturesStand
  BY DEF SignInv
<1> QED
  BY <1>1, SignInvInit, SignInvNext, RecordInvInit, RecordInvNext, PTL DEF Spec

-----------------------------------------------------------------------------
(* Finality.                                                                *)

LEMMA FinalStep ==
    ASSUME RecordInv, [Next]_vars, NEW d \in FullySigned
    PROVE  contract'[d] = "FULLY_SIGNED" /\ terms'[d] = terms[d]
<1>1. d \in Contracts /\ contract[d] = "FULLY_SIGNED"
  BY DEF FullySigned
<1>2. ASSUME NEW r \in Requests, NEW c \in Contracts, CommitAccept(r, c)
      PROVE  contract'[d] = "FULLY_SIGNED" /\ terms'[d] = terms[d]
  <2>1. contract[c] = "NONE"
    <3>1. ~(c < c)
      BY DEF Contracts
    <3> QED
      BY <1>2, <3>1 DEF CommitAccept, NextContract
  <2>2. PICK k \in 0..(c - 1) :
           contract' = [VoidOpen(1..k) EXCEPT ![c] = "PENDING_SIGNATURES"]
    BY <1>2 DEF CommitAccept
  <2> QED
    BY <1>1, <1>2, <2>1, <2>2 DEF CommitAccept, VoidOpen, Signable, RecordInv, TypeOK
<1>3. ASSUME NEW r \in Requests, CommitSign(r)
      PROVE  contract'[d] = "FULLY_SIGNED" /\ terms'[d] = terms[d]
  BY <1>1, <1>3, RequestShape DEF CommitSign, SignFirst, SignSecond, RecordInv, TypeOK
<1>4. ASSUME UNCHANGED <<contract, terms>>
      PROVE  contract'[d] = "FULLY_SIGNED" /\ terms'[d] = terms[d]
  BY <1>1, <1>4
<1> QED
  BY <1>2, <1>3, <1>4
     DEF Next, vars, dealVars, GrantAccess, SendOffer, BeginAccept, BeginSign, BeginPrepare,
         CommitPrepare, UpdateGate, BeginActivate, CommitActivate, AnnounceActivation,
         EndRequest, PauseProduct, ResumeProduct

\* No step voids a signed contract or replaces its document
\* (domain.ts:884, 900).
THEOREM SignedContractsFinal == Spec => SignedIsFinal
<1>1. RecordInv /\ [Next]_vars =>
         [\A c \in FullySigned :
             contract'[c] = "FULLY_SIGNED" /\ terms'[c] = terms[c]]_vars
  BY FinalStep
<1> QED
  BY <1>1, RecordInvInit, RecordInvNext, PTL DEF Spec, SignedIsFinal

-----------------------------------------------------------------------------
(* Launches.                                                                *)

\* What a launch was checked against still stands when it is written.
SaleInv ==
    /\ LaunchesAreSigned
    /\ \A r \in Requests :
          request[r].op \in {"PREPARE", "ACTIVATE", "OPENED"} => FullySigned # {}

LEMMA SaleInvInit == Init => SaleInv
BY DEF Init, SaleInv, LaunchesAreSigned, Idle

LEMMA SaleInvNext == RecordInv /\ SaleInv /\ [Next]_vars => SaleInv'
<1> SUFFICES ASSUME RecordInv, SaleInv, [Next]_vars PROVE SaleInv'
  OBVIOUS
<1>1. FullySigned # {} => FullySigned' # {}
  BY FinalStep DEF FullySigned
<1>2. CASE FullySigned # {}
  BY <1>1, <1>2 DEF SaleInv, LaunchesAreSigned
<1>3. CASE FullySigned = {}
  <2>1. /\ launch = "NONE" /\ stage \notin {"SIGNED", "LIVE_TRIAL"}
        /\ \A r \in Requests : request[r].op \notin {"PREPARE", "ACTIVATE", "OPENED"}
    BY <1>3 DEF SaleInv, LaunchesAreSigned
  <2>2. ~LatestSigned /\ ~LaunchGate
    BY <1>3 DEF LatestSigned, LaunchGate
  <2>3. ASSUME NEW r \in Requests, CommitSign(r) PROVE SaleInv'
    <3>1. request[r].contract \in Contracts
      BY <2>3, RequestShape DEF CommitSign, RecordInv
    <3>2. CASE SignFirst(request[r].contract, request[r].side)
      BY <2>1, <2>3, <3>2 DEF CommitSign, SignFirst, SaleInv, LaunchesAreSigned, saleVars,
         FullySigned, RecordInv, TypeOK, Idle
    <3>3. CASE SignSecond(request[r].contract, request[r].side)
      BY <3>1, <3>3 DEF SignSecond, SaleInv, LaunchesAreSigned, FullySigned, RecordInv, TypeOK
    <3> QED
      BY <2>3, <3>2, <3>3 DEF CommitSign
  <2>4. ASSUME NEW r \in Requests,
               \/ EndRequest(r)
               \/ \E v \in Offers : BeginAccept(r, v)
               \/ \E c \in Contracts : CommitAccept(r, c)
               \/ \E c \in Contracts, side \in Sides : BeginSign(r, c, side)
        PROVE  SaleInv'
    BY <2>1, <2>4 DEF EndRequest, BeginAccept, CommitAccept, BeginSign, SaleInv,
       LaunchesAreSigned, saleVars, RecordInv, TypeOK, Idle
  <2>5. ASSUME \/ GrantAccess \/ UpdateGate \/ PauseProduct \/ ResumeProduct
               \/ \E v \in Offers : SendOffer(v)
               \/ UNCHANGED vars
        PROVE  SaleInv'
    BY <2>1, <2>5 DEF GrantAccess, UpdateGate, PauseProduct, ResumeProduct, SendOffer, vars,
       SaleInv, LaunchesAreSigned, saleVars
  <2> QED
    BY <2>1, <2>2, <2>3, <2>4, <2>5
       DEF Next, BeginPrepare, CommitPrepare, BeginActivate, CommitActivate, AnnounceActivation
<1> QED
  BY <1>2, <1>3

\* A launch exists, is on sale or is shown as signed only for a deal both
\* sides signed (domain.ts:915-925).
THEOREM LaunchesAlwaysSigned == Spec => []LaunchesAreSigned
<1>1. SaleInv => LaunchesAreSigned
  BY DEF SaleInv
<1> QED
  BY <1>1, SaleInvInit, SaleInvNext, RecordInvInit, RecordInvNext, PTL DEF Spec

-----------------------------------------------------------------------------
(* The terms a deal is signed on and sold by.                               *)

\* One offer is open at most, and it is the last.
OpenOfferIsLast ==
    \A v, w \in Offers : offer[v] = "PENDING" /\ w > v => offer[w] = "NONE"

\* A contract that may still be signed states what was accepted last.
Open(c) == contract[c] \in {"PENDING_SIGNATURES", "FULLY_SIGNED"}
OpenTermsSold == \A c \in Contracts : Open(c) => AcceptedOffer(terms[c])

\* An acceptance of an offer that is still open knew every contract it has
\* to void.
NothingMissed ==
    \A r \in Requests, c \in Contracts :
       request[r].op = "ACCEPT" /\ offer[request[r].offer] = "PENDING" /\ Signable(c)
          => c \in request[r].known

TermsInv == OpenOfferIsLast /\ (~overtaken => OpenTermsSold /\ NothingMissed)

LEMMA TermsInvInit == Init => TermsInv
BY DEF Init, TermsInv, OpenOfferIsLast, OpenTermsSold, NothingMissed, Open, Idle

\* A new offer leaves the accepted ones as they are and closes the one that
\* requests in progress may be about to accept.
LEMMA SendOfferTerms ==
    ASSUME RecordInv, TermsInv, NEW v \in Offers, SendOffer(v)
    PROVE  TermsInv'
<1>1. \A w \in Offers : offer[w] # "NONE" <=> w < v
  BY DEF SendOffer, NextOffer
<1>2. ~(v < v) /\ \A w \in Offers : w > v => ~(w < v)
  BY DEF Offers
<1>3. offer[v] = "NONE"
  BY <1>1, <1>2
<1>4. \A w \in Offers : /\ offer'[w] = "PENDING" <=> w = v
                        /\ offer'[w] = "ACCEPTED" <=> offer[w] = "ACCEPTED"
                        /\ w > v => offer'[w] = "NONE"
  BY <1>1, <1>2, <1>3 DEF SendOffer, RecordInv, TypeOK
<1>5. OpenOfferIsLast'
  BY <1>4 DEF OpenOfferIsLast
<1>6. ASSUME ~overtaken' PROVE OpenTermsSold'
  <2>1. OpenTermsSold
    BY <1>6 DEF SendOffer, TermsInv
  <2>2. \A c \in Contracts : Open(c) => terms[c] \in Offers
    BY DEF Open, RecordInv, TypeOK, Written
  <2> QED
    BY <1>4, <2>1, <2>2 DEF SendOffer, OpenTermsSold, Open, AcceptedOffer
<1>7. NothingMissed'
  BY <1>3, <1>4, RequestShape DEF SendOffer, NothingMissed, RecordInv, RequestsOnRecord
<1> QED
  BY <1>5, <1>6, <1>7 DEF TermsInv

\* An acceptance that still applies voids every contract of older terms.
LEMMA CommitAcceptTerms ==
    ASSUME RecordInv, TermsInv, NEW r \in Requests, NEW c \in Contracts, CommitAccept(r, c)
    PROVE  TermsInv'
<1> DEFINE v == request[r].offer
<1>1. v \in Offers
  BY RequestShape DEF CommitAccept, RecordInv
<1>2. \A w \in Offers : /\ offer'[w] = "PENDING" => offer[w] = "PENDING" /\ w # v
                        /\ offer'[w] = "NONE" <=> offer[w] = "NONE"
  BY <1>1 DEF CommitAccept, RecordInv, TypeOK
<1>3. OpenOfferIsLast'
  BY <1>2 DEF TermsInv, OpenOfferIsLast
<1>4. SUFFICES ASSUME ~overtaken' PROVE OpenTermsSold' /\ NothingMissed'
  BY <1>3 DEF TermsInv
<1>5. ~overtaken /\ offer[v] = "PENDING" /\ FullySigned = {}
  BY <1>4 DEF CommitAccept, RecordInv, TypeOK
<1>6. PICK k \in 0..(c - 1) :
         /\ request[r].known \subseteq 1..k
         /\ contract' = [VoidOpen(1..k) EXCEPT ![c] = "PENDING_SIGNATURES"]
  BY DEF CommitAccept
<1>7. \A d \in Contracts : Signable(d) => d \in 1..k
  BY <1>5, <1>6 DEF TermsInv, NothingMissed, CommitAccept
<1>8. \A d \in Contracts : Open(d)' => d = c
  <2>1. ASSUME NEW d \in Contracts, d # c PROVE ~Open(d)'
    <3>1. contract'[d] = IF d \in 1..k /\ Signable(d) THEN "VOID" ELSE contract[d]
      BY <1>6, <2>1 DEF VoidOpen
    <3>2. contract[d] # "FULLY_SIGNED"
      BY <1>5, <2>1 DEF FullySigned
    <3> QED
      BY <1>7, <3>1, <3>2 DEF Open, Signable
  <2> QED
    BY <2>1
<1>9. terms'[c] = v /\ offer' = [offer EXCEPT ![v] = "ACCEPTED"]
  BY <1>5 DEF CommitAccept, RecordInv, TypeOK
<1>10. AcceptedOffer(terms[c])'
  <2>1. offer'[v] = "ACCEPTED"
    BY <1>1, <1>9 DEF RecordInv, TypeOK
  <2>2. \A w \in Offers : w > v => offer'[w] = "NONE"
    BY <1>1, <1>2, <1>5 DEF TermsInv, OpenOfferIsLast
  <2> QED
    BY <1>9, <2>1, <2>2 DEF AcceptedOffer
<1>11. OpenTermsSold'
  BY <1>8, <1>10 DEF OpenTermsSold
<1>12. NothingMissed'
  <2>1. ASSUME NEW w \in Offers, w # v PROVE offer[w] # "PENDING"
    <3>1. w > v \/ v > w
      BY <1>1, <2>1 DEF Offers
    <3> QED
      BY <1>1, <1>5, <2>1, <3>1 DEF TermsInv, OpenOfferIsLast
  <2>2. \A w \in Offers : offer'[w] # "PENDING"
    BY <1>2, <2>1
  <2>3. \A q \in Requests : request'[q].op = "ACCEPT" =>
           request'[q] = request[q] /\ request[q].offer \in Offers
    BY RequestShape DEF CommitAccept, RecordInv, TypeOK, Idle
  <2> QED
    BY <2>2, <2>3 DEF NothingMissed
<1> QED
  BY <1>11, <1>12

LEMMA TermsInvNext == RecordInv /\ TermsInv /\ [Next]_vars => TermsInv'
<1> SUFFICES ASSUME RecordInv, TermsInv, [Next]_vars PROVE TermsInv'
  OBVIOUS
<1>1. ASSUME NEW v \in Offers, SendOffer(v) PROVE TermsInv'
  BY <1>1, SendOfferTerms
<1>2. ASSUME NEW r \in Requests, NEW c \in Contracts, CommitAccept(r, c) PROVE TermsInv'
  BY <1>2, CommitAcceptTerms
<1>3. ASSUME NEW r \in Requests, CommitSign(r) PROVE TermsInv'
  <2>1. /\ offer' = offer /\ terms' = terms /\ overtaken' = overtaken
        /\ request' = [request EXCEPT ![r] = Idle]
    BY <1>3 DEF CommitSign
  <2>2. \A c \in Contracts : (Open(c)' => Open(c)) /\ (Signable(c)' => Signable(c))
    BY <1>3, RequestShape
       DEF CommitSign, SignFirst, SignSecond, Open, Signable, RecordInv, TypeOK
  <2>3. OpenOfferIsLast' /\ (OpenTermsSold => OpenTermsSold')
    BY <2>1, <2>2 DEF TermsInv, OpenOfferIsLast, OpenTermsSold, AcceptedOffer
  <2>4. NothingMissed => NothingMissed'
    BY <2>1, <2>2 DEF NothingMissed, RecordInv, TypeOK, Idle
  <2> QED
    BY <2>1, <2>3, <2>4 DEF TermsInv
<1>4. ASSUME NEW r \in Requests, NEW v \in Offers, BeginAccept(r, v) PROVE TermsInv'
  BY <1>4 DEF BeginAccept, TermsInv, OpenOfferIsLast, OpenTermsSold, NothingMissed,
     AcceptedOffer, Open, Signable, Written, dealVars, RecordInv, TypeOK
<1>5. ASSUME NEW r \in Requests, UNCHANGED <<dealVars, overtaken>>,
             \E s : s.op # "ACCEPT" /\ request' = [request EXCEPT ![r] = s]
      PROVE  TermsInv'
  BY <1>5 DEF TermsInv, OpenOfferIsLast, OpenTermsSold, NothingMissed, AcceptedOffer, Open,
     Signable, dealVars, RecordInv, TypeOK
<1>6. ASSUME UNCHANGED <<dealVars, request, overtaken>> PROVE TermsInv'
  BY <1>6 DEF TermsInv, OpenOfferIsLast, OpenTermsSold, NothingMissed, AcceptedOffer, Open,
     Signable, dealVars
<1>7. ASSUME NEW r \in Requests,
             \/ BeginPrepare(r) \/ CommitPrepare(r) \/ BeginActivate(r) \/ CommitActivate(r)
             \/ AnnounceActivation(r) \/ EndRequest(r)
             \/ \E c \in Contracts, side \in Sides : BeginSign(r, c, side)
      PROVE  TermsInv'
  <2>1. \E s : s.op # "ACCEPT" /\ request' = [request EXCEPT ![r] = s]
    BY <1>7 DEF BeginPrepare, CommitPrepare, BeginActivate, CommitActivate,
                AnnounceActivation, EndRequest, BeginSign, Idle
  <2>2. UNCHANGED <<dealVars, overtaken>>
    BY <1>7 DEF BeginPrepare, CommitPrepare, BeginActivate, CommitActivate,
                AnnounceActivation, EndRequest, BeginSign
  <2> QED
    BY <1>5, <2>1, <2>2
<1>8. ASSUME GrantAccess \/ UpdateGate \/ PauseProduct \/ ResumeProduct \/ UNCHANGED vars
      PROVE  TermsInv'
  BY <1>6, <1>8 DEF GrantAccess, UpdateGate, PauseProduct, ResumeProduct, vars, dealVars
<1> QED
  BY <1>1, <1>2, <1>3, <1>4, <1>7, <1>8 DEF Next

\* Unless an acceptance was written that no longer applied, orders are
\* priced and royalties computed by the terms the parties signed
\* (domain.ts:874-900, orders.ts:63-69).
THEOREM SignedTermsAlwaysSold == Spec => []SignedTermsSold
<1>1. TermsInv => SignedTermsSold
  BY DEF TermsInv, OpenTermsSold, Open, SignedTermsSold, FullySigned
<1> QED
  BY <1>1, TermsInvInit, TermsInvNext, RecordInvInit, RecordInvNext, PTL DEF Spec
=============================================================================
