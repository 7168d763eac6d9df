---------------------------- MODULE MemoryCapsule ----------------------------
(***************************************************************************)
(* The preferences a customer lets the platform remember: one row, and the *)
(* encrypted object it points to.  Both are written by requests that read  *)
(* the row first, and reach the object storage before or after their       *)
(* transaction.                                                            *)
(*                                                                         *)
(*   server/domain.ts          PUT and DELETE /innovations/memory-capsule  *)
(*   server/secure-storage.ts  a fresh key for each object, which opens    *)
(*                             only for the row id it was sealed for       *)
(***************************************************************************)
EXTENDS Integers

CONSTANTS
    Calls,        \* requests that may be in progress at once
    MaxObjects    \* bound: objects ever stored

ASSUME MaxObjectsAssumption == MaxObjects \in Nat

Keys  == 1..MaxObjects     \* object keys, in the order they were drawn
NoKey == 0                 \* no row yet, or object_storage_key = ''

VARIABLES
    capsule,    \* customer_memory_capsules: status, id, object_storage_key
    stored,     \* objects in storage
    sealed,     \* the row id in the additional data of each object
    drawn,      \* object keys drawn so far
    call,       \* where each request stands: the key it read, and its own
    strays,     \* history: objects nobody will delete any more
    emptied,    \* history: objects whose deletion failed after they were gone
    doubled     \* history: objects of a first write that came second

capsuleVars == <<capsule, stored, sealed, drawn, call, strays, emptied, doubled>>

CallStep == {"NONE", "PUTTING", "PUT", "WRITTEN", "DELETING", "DELETED"}
NoCall   == [step |-> "NONE", id |-> NoKey, old |-> NoKey, new |-> NoKey]

CapsuleInit ==
    /\ capsule = [status |-> "NONE", id |-> NoKey, key |-> NoKey]
    /\ stored  = {}
    /\ sealed  = [k \in Keys |-> NoKey]
    /\ drawn   = 0
    /\ call    = [c \in Calls |-> NoCall]
    /\ strays  = {}
    /\ emptied = {}
    /\ doubled = {}

-----------------------------------------------------------------------------
(* PUT /innovations/memory-capsule.                                         *)

BeginPut(c) ==
    /\ call[c] = NoCall
    /\ call' = [call EXCEPT ![c] = [step |-> "PUTTING", id |-> capsule.id, old |-> capsule.key,
                                    new |-> NoKey]]
    /\ UNCHANGED <<capsule, stored, sealed, drawn, strays, emptied, doubled>>

\* The object is sealed for the id of the row, or for a new one.
PutObject(c) ==
    LET new == drawn + 1
        id  == IF call[c].id = NoKey THEN new ELSE call[c].id
    IN
    /\ call[c].step = "PUTTING"
    /\ drawn < MaxObjects
    /\ drawn'  = new
    /\ stored' = stored \cup {new}
    /\ sealed' = [sealed EXCEPT ![new] = id]
    /\ call'   = [call EXCEPT ![c] = [step |-> "PUT", id |-> id, old |-> @.old, new |-> new]]
    /\ UNCHANGED <<capsule, strays, emptied, doubled>>

\* The row is inserted, or updated whatever it points to by now; ON CONFLICT
\* it keeps the id it has.
WritePut(c) ==
    LET id == IF capsule.id = NoKey THEN call[c].id ELSE capsule.id IN
    /\ call[c].step = "PUT"
    /\ capsule' = [status |-> "ACTIVE", id |-> id, key |-> call[c].new]
    /\ doubled' = IF call[c].id = call[c].new /\ capsule.id # NoKey
                  THEN doubled \cup {call[c].new} ELSE doubled
    /\ strays'  = IF capsule.key \in {NoKey, call[c].old} THEN strays ELSE strays \cup {capsule.key}
    /\ call'    = [call EXCEPT ![c].step = "WRITTEN"]
    /\ UNCHANGED <<stored, sealed, drawn, emptied>>

\* Faulty variant: the object the row points to by now is deleted.
DeleteCurrent(c) ==
    /\ call[c].step = "WRITTEN"
    /\ stored' = stored \ {capsule.key}
    /\ call'   = [call EXCEPT ![c] = NoCall]
    /\ UNCHANGED <<capsule, sealed, drawn, strays, emptied, doubled>>

\* The object that was read at first is deleted.
DeleteOld(c) ==
    /\ call[c].step = "WRITTEN"
    /\ stored' = stored \ {call[c].old}
    /\ call'   = [call EXCEPT ![c] = NoCall]
    /\ UNCHANGED <<capsule, sealed, drawn, strays, emptied, doubled>>

-----------------------------------------------------------------------------
(* DELETE /innovations/memory-capsule.                                      *)

BeginDelete(c) ==
    /\ call[c] = NoCall
    /\ capsule.status # "NONE"
    /\ call' = [call EXCEPT ![c] = [step |-> "DELETING", id |-> capsule.id, old |-> capsule.key,
                                    new |-> NoKey]]
    /\ UNCHANGED <<capsule, stored, sealed, drawn, strays, emptied, doubled>>

\* The object first (an object that is gone already is no error) ...
DeleteObject(c) ==
    /\ call[c].step = "DELETING"
    /\ call[c].old # NoKey
    /\ stored' = stored \ {call[c].old}
    /\ call'   = [call EXCEPT ![c].step = "DELETED"]
    /\ UNCHANGED <<capsule, sealed, drawn, strays, emptied, doubled>>

\* ... then the row, whatever it points to by now.
WriteDelete(c) ==
    /\ call[c].step = "DELETED"
    /\ capsule' = [capsule EXCEPT !.status = "REVOKED", !.key = NoKey]
    /\ strays'  = IF capsule.key \in {NoKey, call[c].old} THEN strays ELSE strays \cup {capsule.key}
    /\ call'    = [call EXCEPT ![c] = NoCall]
    /\ UNCHANGED <<stored, sealed, drawn, emptied, doubled>>

\* A request fails, or its instance stops: what it would still have deleted
\* stays, and what it deleted is gone.
StopCall(c) ==
    /\ call[c] # NoCall
    /\ call'    = [call EXCEPT ![c] = NoCall]
    /\ strays'  = CASE call[c].step = "PUT"     -> strays \cup {call[c].new}
                    [] call[c].step = "WRITTEN" -> (strays \cup {call[c].old}) \ {NoKey}
                    [] OTHER                    -> strays
    /\ emptied' = IF call[c].step = "DELETED" THEN emptied \cup {call[c].old} ELSE emptied
    /\ UNCHANGED <<capsule, stored, sealed, drawn, doubled>>

CapsuleNext ==
    \E c \in Calls :
       \/ BeginPut(c) \/ PutObject(c) \/ WritePut(c) \/ DeleteOld(c)
       \/ BeginDelete(c) \/ DeleteObject(c) \/ WriteDelete(c)
       \/ StopCall(c)

CapsuleSpec == CapsuleInit /\ [][CapsuleNext]_capsuleVars

-----------------------------------------------------------------------------
(* Properties.                                                              *)

CapsuleTypeOK ==
    /\ capsule \in [status : {"NONE", "ACTIVE", "REVOKED"}, id : Keys \cup {NoKey},
                    key : Keys \cup {NoKey}]
    /\ stored \subseteq Keys /\ strays \subseteq Keys
    /\ emptied \subseteq Keys /\ doubled \subseteq Keys
    /\ sealed \in [Keys -> Keys \cup {NoKey}]
    /\ drawn \in 0..MaxObjects
    /\ call \in [Calls -> [step : CallStep, id : Keys \cup {NoKey}, old : Keys \cup {NoKey},
                           new : Keys \cup {NoKey}]]

\* Objects a request in progress still has to point the row to, or delete.
InHand(c) ==
    CASE call[c].step = "PUT"     -> {call[c].new}
      [] call[c].step = "WRITTEN" -> {call[c].old}
      [] OTHER                    -> {}

\* Nothing a customer let the platform remember outlives what points to it,
\* but for what a request wrote over, or left behind when it failed; and
\* what the row points to is there, unless a deletion is under way or
\* stopped half way, and opens for the row's id, unless two requests were
\* the first to write it (domain.ts:971: "physical deletion on revoke").
StoredIsAccounted ==
    /\ \A k \in stored : k = capsule.key \/ k \in strays \/ \E c \in Calls : k \in InHand(c)
    /\ capsule.status = "ACTIVE" =>
          /\ \/ capsule.key \in stored \cup emptied
             \/ \E c \in Calls : call[c].step = "DELETED" /\ call[c].old = capsule.key
          /\ sealed[capsule.key] = capsule.id \/ capsule.key \in doubled
=============================================================================
