-------------------------- MODULE ConfirmationStore --------------------------
(***************************************************************************)
(* The durable SQLite store of legacy confirmations                        *)
(* (hugegraph_mcp/confirmation_store.py): which nonces were issued, which  *)
(* were consumed, and what became of the write each one authorised.        *)
(*                                                                         *)
(* A plan is a pair of a nonce and its expiry: compute_plan_hash hashes    *)
(* both, and two dry runs under one nonce differ in nothing else that      *)
(* matters here.  Times are seconds; an expiry of 0 stands for a row that  *)
(* does not exist.  Each action is one committed transaction; where its    *)
(* condition is false the method raises and changes nothing.               *)
(***************************************************************************)
EXTENDS WritePlan

CONSTANTS Nonce,  \* confirmation nonces; the client may repeat one
          TTL     \* DEFAULT_PLAN_TTL_SECONDS, in ticks of the clock

ASSUME TTLAssumption == TTL \in Nat \ {0}

VARIABLES
  issued,     \* issued_confirmations: expiry of the plan waiting under a nonce
  consumed,   \* consumed_confirmations: expiry of the plan a nonce was used for
  operation   \* write_operations: the plan executed under a nonce, its status

confirmationVars == <<issued, consumed, operation>>

NoOperation == [expires |-> 0, status |-> "NONE"]

\* What record_write_outcome is given: the aggregate of operation outcomes.
Recorded == {"APPLIED", "ALREADY_APPLIED", "REJECTED", "CONFLICT", "PARTIAL", "UNKNOWN"}

OperationRecord ==
  {NoOperation} \cup [expires : Nat \ {0}, status : Recorded \cup {"EXECUTING"}]

ConfirmationTypeOK ==
  /\ issued \in [Nonce -> Nat]
  /\ consumed \in [Nonce -> Nat]
  /\ operation \in [Nonce -> OperationRecord]

\* A new database, or one from before write_operations existed: then a nonce may
\* be consumed, for a plan issued before time 1, without a record of what became
\* of it.
ConfirmationInit ==
  /\ issued = [n \in Nonce |-> 0]
  /\ consumed \in [Nonce -> {0, TTL}]
  /\ operation = [n \in Nonce |-> NoOperation]
-----------------------------------------------------------------------------
Keep(row, t) == [n \in Nonce |-> IF row[n] < t THEN 0 ELSE row[n]]

\* Mutation: the record of the execution ages with its nonce.
CleanupOperationsToo(t) ==
  /\ issued' = Keep(issued, t)
  /\ consumed' = Keep(consumed, t)
  /\ operation' = [n \in Nonce |-> IF operation[n].expires < t THEN NoOperation
                                   ELSE operation[n]]

\* _cleanup_expired, committed on its own; write_operations is never purged.
CleanupExpired(t) ==
  /\ issued' = Keep(issued, t)
  /\ consumed' = Keep(consumed, t)
  /\ UNCHANGED operation

\* issue, after its cleanup: the row of another plan under the same nonce
\* stays, and the comparison with it raises.
CanIssue(n, e) == issued[n] \in {0, e}

Issue(n, e) ==
  /\ CanIssue(n, e)
  /\ issued' = [issued EXCEPT ![n] = e]
  /\ UNCHANGED <<consumed, operation>>

\* Mutation: INSERT OR REPLACE, with no violation of UNIQUE.
CanConsumeAgain(n, e, t) == consumed[n] = 0 /\ issued[n] = e /\ t <= e

\* consume, after its cleanup: the checks inside BEGIN IMMEDIATE and the two
\* inserts, of which the second fails where the nonce was ever executed.
CanConsume(n, e, t) ==
  /\ consumed[n] = 0
  /\ issued[n] = e
  /\ t <= e
  /\ operation[n] = NoOperation

Consume(n, e, t) ==
  /\ CanConsume(n, e, t)
  /\ consumed' = [consumed EXCEPT ![n] = e]
  /\ operation' = [operation EXCEPT ![n] = [expires |-> e, status |-> "EXECUTING"]]
  /\ issued' = [issued EXCEPT ![n] = 0]

\* record_outcome: an UPDATE by plan hash, whatever status the row has.
CanRecordOutcome(n, e) == operation[n].expires = e

RecordOutcome(n, e, s) ==
  /\ CanRecordOutcome(n, e)
  /\ operation' = [operation EXCEPT ![n].status = s]
  /\ UNCHANGED <<issued, consumed>>

=============================================================================
