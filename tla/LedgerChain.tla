---------------------------- MODULE LedgerChain -----------------------------
(***************************************************************************)
(* The financial ledger as evidence: an append-only chain of hashed rows,  *)
(* the verification that recomputes it, and the time anchors that pin the  *)
(* hash of its head.                                                       *)
(*                                                                         *)
(*   server/ledger.ts       appendLedgerEntry, verifyLedgerChain           *)
(*   server/time-anchor.ts  createTimeAnchor, verifyTimeAnchors            *)
(*                                                                         *)
(* The hash of a row stands for everything it covers, so it is the list of *)
(* the entries up to the row: equal hashes, equal prefixes.  An append is  *)
(* one step, because the head's row is locked from the read to COMMIT; the *)
(* verification and an anchor read outside transactions, in two steps.     *)
(* The fault the module is for is a row changed behind the program's back  *)
(* (Alter, Delete, Rewrite), once.                                         *)
(***************************************************************************)
EXTENDS Integers, Sequences, FiniteSets

CONSTANTS
    Entry,      \* what a row may say: type, entity, amount, time
    Forgery,    \* what a row changed behind the program's back may say
    MaxAnchors  \* bound on the anchors taken

ASSUME ForgeryAssumption == Forgery \subseteq Entry

VARIABLES
    rows,       \* financial_ledger, ordered by seq
    head,       \* financial_ledger_head: last_seq and last_hash
    anchors,    \* ledger_time_anchors
    anchoring,  \* the head an anchor being taken has read
    reading,    \* the rows a verification in progress has read
    report,     \* the last verification's answer
    edit        \* the change made behind the program's back, if any

chainVars == <<rows, head, anchors, anchoring, reading, report, edit>>

Genesis == <<>>

\* computeEntryHash.
Link(prev, entry) == Append(prev, entry)

NoReport == [reason |-> "NONE", at |-> 0, count |-> 0]

\* Is there an anchor, taken or being taken, that covers seq k?
AnchoredFrom(k) == \E a \in anchors \cup anchoring : a.seq >= k

NoEdit == [kind |-> "NONE", seq |-> 0, anchored |-> FALSE]
EditAt(kind, k) == [kind |-> kind, seq |-> k, anchored |-> AnchoredFrom(k)]

ChainInit ==
    /\ rows      = <<>>
    /\ head      = [seq |-> 0, hash |-> Genesis]
    /\ anchors   = {}
    /\ anchoring = {}
    /\ reading   = {}
    /\ report    = NoReport
    /\ edit      = NoEdit

-----------------------------------------------------------------------------
NextRow(entry) ==
    [seq |-> head.seq + 1, entry |-> entry, prev |-> head.hash, hash |-> Link(head.hash, entry)]

\* Faulty variant: the head's hash is not moved on.
PostEntryKeepsHash(entry) ==
    /\ rows' = Append(rows, NextRow(entry))
    /\ head' = [head EXCEPT !.seq = @ + 1]
    /\ UNCHANGED <<anchors, anchoring, reading, report, edit>>

\* appendLedgerEntry.
PostEntry(entry) ==
    /\ rows' = Append(rows, NextRow(entry))
    /\ head' = [seq |-> NextRow(entry).seq, hash |-> NextRow(entry).hash]
    /\ UNCHANGED <<anchors, anchoring, reading, report, edit>>

-----------------------------------------------------------------------------
(* verifyLedgerChain.                                                       *)

HashBefore(rs, i) == IF i = 1 THEN Genesis ELSE rs[i - 1].hash

\* Faulty variant: the hash of a row is compared but not recomputed.
FollowsUnhashed(rs, i) ==
    /\ rs[i].seq  = i
    /\ rs[i].prev = HashBefore(rs, i)

\* Row i is where it belongs, follows the one before and hashes to its hash.
Follows(rs, i) ==
    /\ rs[i].seq  = i
    /\ rs[i].prev = HashBefore(rs, i)
    /\ rs[i].hash = Link(rs[i].prev, rs[i].entry)

Broken(rs) == {i \in DOMAIN rs : ~Follows(rs, i)}

\* The answer for the rows rs and the head's hash h.
Verdict(rs, h) ==
    IF Broken(rs) # {}
    THEN LET i == CHOOSE i \in Broken(rs) : \A j \in Broken(rs) : i <= j
         IN  [reason |-> "BROKEN_ROW", at |-> rs[i].seq, count |-> Len(rs)]
    ELSE IF h # HashBefore(rs, Len(rs) + 1)
    THEN [reason |-> "HEAD_HASH_DIVERGED", at |-> 0, count |-> Len(rs)]
    ELSE [reason |-> "VALID", at |-> 0, count |-> Len(rs)]

\* The rows are read ...
BeginVerify ==
    /\ reading = {}
    /\ reading' = {rows}
    /\ UNCHANGED <<rows, head, anchors, anchoring, report, edit>>

\* ... and then the head.
EndVerify ==
    /\ \E rs \in reading : report' = Verdict(rs, head.hash)
    /\ reading' = {}
    /\ UNCHANGED <<rows, head, anchors, anchoring, edit>>

-----------------------------------------------------------------------------
(* createTimeAnchor, verifyTimeAnchors.                                     *)

\* The head is read, and the time-stamp authority asked ...
BeginAnchor ==
    /\ anchoring = {}
    /\ Cardinality(anchors) < MaxAnchors
    /\ anchoring' = {head}
    /\ UNCHANGED <<rows, head, anchors, reading, report, edit>>

\* ... and the anchor stored, whatever the authority said.
EndAnchor ==
    /\ anchoring # {}
    /\ anchors'   = anchors \cup anchoring
    /\ anchoring' = {}
    /\ UNCHANGED <<rows, head, reading, report, edit>>

\* Faulty variant: the hash stored in the anchored row is compared, the rows
\* are not hashed again.
MatchesStoredHash(a) == a.seq > 0 => a.seq \in DOMAIN rows /\ rows[a.seq].hash = a.hash

\* ledgerHashAtSeq: the rows up to the anchor's seq are all there and, hashed
\* again, come to its hash.
AnchorHolds(a) ==
    \A i \in 1..a.seq : /\ i \in DOMAIN rows
                        /\ rows[i].seq   = i
                        /\ rows[i].entry = a.hash[i]

AnchorsValid == \A a \in anchors : AnchorHolds(a)

-----------------------------------------------------------------------------
(* Changes made in the database, behind the program's back.                 *)

\* What row i says is changed, its hash left as it is.
Alter(i) ==
    /\ edit = NoEdit
    /\ i \in DOMAIN rows
    /\ \E e \in Forgery \ {rows[i].entry} : rows' = [rows EXCEPT ![i].entry = e]
    /\ edit' = EditAt("ALTERED", i)
    /\ UNCHANGED <<head, anchors, anchoring, reading, report>>

\* Row i is removed.
Delete(i) ==
    /\ edit = NoEdit
    /\ i \in DOMAIN rows
    /\ rows' = [j \in 1..(Len(rows) - 1) |-> IF j < i THEN rows[j] ELSE rows[j + 1]]
    /\ edit' = EditAt("DELETED", i)
    /\ UNCHANGED <<head, anchors, anchoring, reading, report>>

\* Row i is changed and every hash from it to the head computed anew.
Rewrite(i) ==
    /\ edit = NoEdit
    /\ i \in DOMAIN rows
    /\ \E e \in Forgery \ {rows[i].entry} :
          LET said == [j \in DOMAIN rows |-> IF j = i THEN e ELSE rows[j].entry]
          IN  /\ rows' = [j \in DOMAIN rows |->
                             [rows[j] EXCEPT !.entry = said[j],
                                             !.prev  = SubSeq(said, 1, j - 1),
                                             !.hash  = SubSeq(said, 1, j)]]
              /\ head' = [head EXCEPT !.hash = said]
    /\ edit' = EditAt("REWRITTEN", i)
    /\ UNCHANGED <<anchors, anchoring, reading, report>>

Tamper == \E i \in DOMAIN rows : Alter(i) \/ Delete(i) \/ Rewrite(i)

AuditNext == BeginVerify \/ EndVerify \/ BeginAnchor \/ EndAnchor

ChainNext ==
    \/ \E e \in Entry : PostEntry(e)
    \/ AuditNext
    \/ Tamper

ChainSpec == ChainInit /\ [][ChainNext]_chainVars

-----------------------------------------------------------------------------
(* Properties.                                                              *)

\* A ledger nobody touched is in order: its rows follow each other up to the
\* head, and every anchor, taken or being taken, is the hash of a prefix.
Intact ==
    edit = NoEdit =>
        /\ Verdict(rows, head.hash).reason = "VALID"
        /\ head.seq = Len(rows)
        /\ \A a \in anchors \cup anchoring : AnchorHolds(a)

\* A verification of such a ledger never names a row; it reports a diverged
\* head only when an entry was posted after it had read the rows (the answer
\* counts fewer rows than there are).
FalseAlarmsExplained ==
    edit = NoEdit =>
        \/ report.reason \in {"NONE", "VALID"}
        \/ report.reason = "HEAD_HASH_DIVERGED" /\ report.count < Len(rows)

\* "Any tampered amount, reordered row, gap in seq, or broken prev-link is
\* reported with the exact seq" (ledger.ts:97-100): from the change on,
\* whatever is posted after it, a verification names an altered row, and the
\* row that follows a deleted one; the deletion of the last shows as a
\* diverged head until another entry is posted.
TamperingFound ==
    LET v == Verdict(rows, head.hash)
    IN  /\ edit.kind = "ALTERED" => v.reason = "BROKEN_ROW" /\ v.at = edit.seq
        /\ edit.kind = "DELETED" =>
              IF Len(rows) < edit.seq
              THEN v.reason = "HEAD_HASH_DIVERGED"
              ELSE v.reason = "BROKEN_ROW" /\ v.at = edit.seq + 1

\* "A mismatch proves the ledger prefix up to that anchor was rewritten after
\* it was anchored" (time-anchor.ts:64-67): a ledger changed at or before an
\* anchored row fails the verification of the anchors once they are stored,
\* even when every hash was computed anew.
AnchorsPinThePast == edit.anchored /\ anchoring = {} => ~AnchorsValid
=============================================================================
