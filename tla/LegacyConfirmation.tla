-------------------------- MODULE LegacyConfirmation --------------------------
(***************************************************************************)
(* The deprecated write path of manage_graph_data: a dry run issues a plan *)
(* under a nonce, a confirm call with the full locator (plan hash, nonce,  *)
(* expiry) consumes the nonce, deletes the plan's edges one by one         *)
(* (execute_graph_change_plan) and records the outcome.  Meanwhile every   *)
(* call of the canonical plan store copies legacy rows into that store     *)
(* (SQLitePlanStore.prepare).                                              *)
(*                                                                         *)
(* Only plans of edge deletions are executed: confirmed imports and vertex *)
(* deletions are disabled.  All plans here delete the same edges Op, which *)
(* is the hardest case for telling their effects apart.  A call is split   *)
(* where the code reads the clock, starts a transaction, or reads or       *)
(* writes the graph.                                                       *)
(***************************************************************************)
EXTENDS ConfirmationStore, Sequences

CONSTANTS Caller,         \* threads or processes that serve tool calls
          Shared,         \* edges that other writers delete and put back
          MaxTime,        \* bound on the clock
          MaxMigrations   \* bound on the number of times prepare runs

ASSUME CallerAssumption == /\ Shared \subseteq Op
                           /\ MaxTime \in Nat
                           /\ MaxMigrations \in Nat
                           /\ Nonce # {}

VARIABLES
  now,        \* the clock
  known,      \* plans whose dry run has answered: <<nonce, expiry>>
  pc,         \* where each caller stands
  nonce,      \* the nonce of its call
  expiry,     \* the expiry of its plan
  clock,      \* the time consume has read
  results,    \* statuses of the operations its execution has finished
  request,    \* its deletion at the graph server, of operation Current(c)
  outcome,    \* the status it is about to record
  present,    \* edges that exist
  late,       \* deletions nobody waits for any more: <<nonce, operation>>
  mpc,        \* where the copying of legacy rows stands
  copies,     \* how often it has started
  seen,       \* the tables it has read
  migrated,   \* the plans it has inserted, with their status
  executions, \* how often a plan under a nonce began to be executed
  gone,       \* edges absent at some time since the nonce's last execution began
  removed,    \* edges that a deletion took away: <<nonce, operation>>
  recreated   \* has another writer put an edge back?

callVars == <<pc, nonce, expiry, clock, results, request, outcome>>
graphVars == <<present, late>>
migrationVars == <<mpc, copies, seen, migrated>>
historyVars == <<executions, gone, removed, recreated>>
vars == <<confirmationVars, now, known, callVars, graphVars, migrationVars, historyVars>>

CallPc == {"idle", "issue", "insert", "replay", "load", "prepare", "consume",
           "read", "send", "wait", "check", "record"}

Executing == {"read", "send", "wait", "check", "record"}

Tables == [issued : [Nonce -> Nat], consumed : [Nonce -> Nat],
           operation : [Nonce -> OperationRecord]]

MigratedStatus == Recorded \cup {"EXECUTING", "LEGACY_UNKNOWN", "ISSUED"}

TypeOK ==
  /\ ConfirmationTypeOK
  /\ now \in Nat
  /\ known \subseteq Nonce \X Nat
  /\ pc \in [Caller -> CallPc]
  /\ nonce \in [Caller -> Nonce]
  /\ expiry \in [Caller -> Nat]
  /\ clock \in [Caller -> Nat]
  /\ results \in [Caller -> Seq(Success)]
  /\ request \in [Caller -> {"none", "pending", "committed", "refused"}]
  /\ outcome \in [Caller -> Recorded]
  /\ present \subseteq Op
  /\ late \subseteq Nonce \X Op
  /\ mpc \in {"idle", "consumed", "operations", "insert"}
  /\ copies \in Nat
  /\ seen \in Tables
  /\ migrated \subseteq [nonce : Nonce, expires : Nat, status : MigratedStatus]
  /\ executions \in [Nonce -> Nat]
  /\ gone \in [Nonce -> SUBSET Op]
  /\ removed \subseteq Nonce \X Op
  /\ recreated \in BOOLEAN

NothingSeen == [issued |-> [n \in Nonce |-> 0], consumed |-> [n \in Nonce |-> 0],
                operation |-> [n \in Nonce |-> NoOperation]]

AnyNonce == CHOOSE n \in Nonce : TRUE

\* Locals that are not in use have an arbitrary fixed value.
Init ==
  /\ ConfirmationInit
  /\ now = 1
  /\ known = {}
  /\ pc = [c \in Caller |-> "idle"]
  /\ nonce = [c \in Caller |-> AnyNonce]
  /\ expiry = [c \in Caller |-> 0]
  /\ clock = [c \in Caller |-> 0]
  /\ results = [c \in Caller |-> <<>>]
  /\ request = [c \in Caller |-> "none"]
  /\ outcome = [c \in Caller |-> "UNKNOWN"]
  /\ present = Op
  /\ late = {}
  /\ mpc = "idle"
  /\ copies = 0
  /\ seen = NothingSeen
  /\ migrated = {}
  /\ executions = [n \in Nonce |-> 0]
  /\ gone = [n \in Nonce |-> {}]
  /\ removed = {}
  /\ recreated = FALSE
-----------------------------------------------------------------------------
Goto(c, label) == pc' = [pc EXCEPT ![c] = label]

\* The call answers; its locals are gone.
Return(c) ==
  /\ Goto(c, "idle")
  /\ nonce' = [nonce EXCEPT ![c] = AnyNonce]
  /\ expiry' = [expiry EXCEPT ![c] = 0]
  /\ clock' = [clock EXCEPT ![c] = 0]
  /\ results' = [results EXCEPT ![c] = <<>>]
  /\ request' = [request EXCEPT ![c] = "none"]
  /\ outcome' = [outcome EXCEPT ![c] = "UNKNOWN"]

StepOrReturn(c, condition, label) ==
  \/ /\ condition
     /\ Goto(c, label)
     /\ UNCHANGED <<nonce, expiry, clock, results, request, outcome>>
  \/ ~condition /\ Return(c)
-----------------------------------------------------------------------------
(* A dry run                                                               *)

\* build_plan_context: the expiry, and with it the plan hash, is fixed by the
\* clock.  A dry run called with a full legacy locator keeps its nonce.
BuildPlan(c, n) ==
  /\ pc[c] = "idle"
  /\ Goto(c, "issue")
  /\ nonce' = [nonce EXCEPT ![c] = n]
  /\ expiry' = [expiry EXCEPT ![c] = now + TTL]
  /\ UNCHANGED <<confirmationVars, now, known, clock, results, request, outcome,
                 graphVars, migrationVars, historyVars>>

\* issue, up to its cleanup: a plan that has expired meanwhile is not issued.
IssuePrepare(c) ==
  /\ pc[c] = "issue"
  /\ StepOrReturn(c, expiry[c] > now, "insert")
  /\ IF expiry[c] > now THEN CleanupExpired(now) ELSE UNCHANGED confirmationVars
  /\ UNCHANGED <<now, known, graphVars, migrationVars, historyVars>>

\* issue, its insert, and the answer of the dry run.
IssuePlan(c) ==
  /\ pc[c] = "insert"
  /\ IF CanIssue(nonce[c], expiry[c])
     THEN Issue(nonce[c], expiry[c]) /\ known' = known \cup {<<nonce[c], expiry[c]>>}
     ELSE UNCHANGED <<confirmationVars, known>>
  /\ Return(c)
  /\ UNCHANGED <<now, graphVars, migrationVars, historyVars>>
-----------------------------------------------------------------------------
(* A confirm call, up to its consume                                       *)

\* A client may confirm any plan it was given, at any time and repeatedly.
Confirm(c, n, e) ==
  /\ pc[c] = "idle"
  /\ <<n, e>> \in known
  /\ Goto(c, "replay")
  /\ nonce' = [nonce EXCEPT ![c] = n]
  /\ expiry' = [expiry EXCEPT ![c] = e]
  /\ UNCHANGED <<confirmationVars, now, known, clock, results, request, outcome,
                 graphVars, migrationVars, historyVars>>

\* replayed_plan_error: a consumed nonce ends the call, but state that cannot
\* be read is not taken as consumed.
CheckReplayed(c) ==
  /\ pc[c] = "replay"
  /\ \/ StepOrReturn(c, consumed[nonce[c]] = 0, "load")
     \/ StepOrReturn(c, TRUE, "load")
  /\ UNCHANGED <<confirmationVars, now, known, graphVars, migrationVars, historyVars>>

\* load_issued_plan, then the checks of schema, configuration, permission and
\* plan hash, which may fail; of what they read, no call here changes anything
\* but the clock, which consume reads again.
LoadIssuedPlan(c) ==
  /\ pc[c] = "load"
  /\ \/ StepOrReturn(c, issued[nonce[c]] = expiry[c] /\ now <= expiry[c], "prepare")
     \/ StepOrReturn(c, FALSE, "prepare")
  /\ UNCHANGED <<confirmationVars, now, known, graphVars, migrationVars, historyVars>>

\* consume reads the clock, and cleans up if it can.
ConsumePrepare(c) ==
  /\ pc[c] = "prepare"
  /\ Goto(c, "consume")
  /\ clock' = [clock EXCEPT ![c] = now]
  /\ CleanupExpired(now) \/ UNCHANGED confirmationVars
  /\ UNCHANGED <<now, known, nonce, expiry, results, request, outcome,
                 graphVars, migrationVars, historyVars>>

\* consume, its transaction, judged by the time read before.
ConsumePlan(c) ==
  /\ pc[c] = "consume"
  /\ LET n == nonce[c]
         allowed == CanConsume(n, expiry[c], clock[c])
     IN  /\ StepOrReturn(c, allowed, "read")
         /\ IF allowed
            THEN /\ Consume(n, expiry[c], clock[c])
                 /\ executions' = [executions EXCEPT ![n] = @ + 1]
                 /\ gone' = [gone EXCEPT ![n] = Op \ present]
            ELSE UNCHANGED <<confirmationVars, executions, gone>>
  /\ UNCHANGED <<now, known, graphVars, migrationVars, removed, recreated>>
-----------------------------------------------------------------------------
(* execute_graph_change_plan                                               *)

Current(c) == Len(results[c]) + 1

\* The loop stops at a failed operation of status s.
Fail(c, s) ==
  /\ outcome' = [outcome EXCEPT ![c] = AggregatePlanStatus(Append(results[c], s))]
  /\ results' = [results EXCEPT ![c] = <<>>]
  /\ Goto(c, "record")

\* The loop goes on after an operation of status s, or ends with the plan.
Succeed(c, s) ==
  IF Current(c) < NumOps
  THEN /\ results' = [results EXCEPT ![c] = Append(@, s)]
       /\ Goto(c, "read")
       /\ UNCHANGED outcome
  ELSE Fail(c, s)

\* A compiled edge id names at most one edge, so a count other than 0 and 1
\* does not occur.
ReadTarget(c) ==
  /\ pc[c] = "read"
  /\ \/ Fail(c, "REJECTED")
     \/ Current(c) \notin present /\ Succeed(c, "ALREADY_APPLIED")
     \/ Current(c) \in present /\ Goto(c, "send") /\ UNCHANGED <<results, outcome>>
  /\ UNCHANGED <<confirmationVars, now, known, nonce, expiry, clock, request,
                 graphVars, migrationVars, historyVars>>

\* execute_gremlin_write: the server may be read-only by now.
SendDelete(c) ==
  /\ pc[c] = "send"
  /\ \/ Fail(c, "REJECTED") /\ UNCHANGED request
     \/ /\ Goto(c, "wait")
        /\ request' = [request EXCEPT ![c] = "pending"]
        /\ UNCHANGED <<results, outcome>>
  /\ UNCHANGED <<confirmationVars, now, known, nonce, expiry, clock, graphVars,
                 migrationVars, historyVars>>

\* A caller stops waiting for its request, which stays at the server.
Abandoned(c) ==
  IF request[c] = "pending" THEN late \cup {<<nonce[c], Current(c)>>} ELSE late

\* Mutation: a timed-out or lost deletion counts as a refused one.
IndeterminateRejected == "REJECTED"

\* The status of a write that ended in a connection error, a timeout or a
\* server error.
Indeterminate == "UNKNOWN"

\* A success, also of a deletion the server silently ignored; an error that
\* says the request was refused; or one that says nothing about it.
ReceiveAnswer(c) ==
  /\ pc[c] = "wait"
  /\ request' = [request EXCEPT ![c] = "none"]
  /\ \/ /\ request[c] \in {"committed", "refused"}
        /\ Goto(c, "check")
        /\ UNCHANGED <<results, outcome, late>>
     \/ request[c] = "refused" /\ Fail(c, "REJECTED") /\ UNCHANGED late
     \/ Fail(c, Indeterminate) /\ late' = Abandoned(c)
  /\ UNCHANGED <<confirmationVars, now, known, nonce, expiry, clock, present,
                 migrationVars, historyVars>>

\* Mutation: the answer of the write is enough.
VerifyTrusting(c) == Succeed(c, "APPLIED")

\* The verification read and what it says of the operation.
Verify(c) ==
  \/ Fail(c, "UNKNOWN")
  \/ Current(c) \in present /\ Fail(c, "REJECTED")
  \/ Current(c) \notin present /\ Succeed(c, "APPLIED")

CheckDeleted(c) ==
  /\ pc[c] = "check"
  /\ Verify(c)
  /\ UNCHANGED <<confirmationVars, now, known, nonce, expiry, clock, request,
                 graphVars, migrationVars, historyVars>>

\* record_write_outcome; without durable storage the row stays EXECUTING.
RecordWriteOutcome(c) ==
  /\ pc[c] = "record"
  /\ \/ IF CanRecordOutcome(nonce[c], expiry[c])
        THEN RecordOutcome(nonce[c], expiry[c], outcome[c])
        ELSE UNCHANGED confirmationVars
     \/ UNCHANGED confirmationVars
  /\ Return(c)
  /\ UNCHANGED <<now, known, graphVars, migrationVars, historyVars>>

\* The process dies, or the call raises; nothing restarts it.
Die(c) ==
  /\ pc[c] # "idle"
  /\ late' = Abandoned(c)
  /\ Return(c)
  /\ UNCHANGED <<confirmationVars, now, known, present, migrationVars, historyVars>>

CallStep(c) ==
  \/ \E n \in Nonce : BuildPlan(c, n)
  \/ IssuePrepare(c) \/ IssuePlan(c)
  \/ \E p \in known : Confirm(c, p[1], p[2])
  \/ CheckReplayed(c) \/ LoadIssuedPlan(c) \/ ConsumePrepare(c)
  \/ ConsumePlan(c) \/ ReadTarget(c) \/ SendDelete(c) \/ ReceiveAnswer(c)
  \/ CheckDeleted(c) \/ RecordWriteOutcome(c) \/ Die(c)
-----------------------------------------------------------------------------
(* Migration into the canonical store: every method of SQLitePlanStore     *)
(* calls prepare first, so it may run at any time.  The three tables are   *)
(* read one after the other, outside any transaction.                      *)

ReadIssued ==
  /\ mpc = "idle"
  /\ copies < MaxMigrations
  /\ copies' = copies + 1
  /\ seen' = [seen EXCEPT !.issued = issued]
  /\ mpc' = "consumed"
  /\ UNCHANGED <<confirmationVars, now, known, callVars, graphVars, migrated, historyVars>>

ReadConsumed ==
  /\ mpc = "consumed"
  /\ seen' = [seen EXCEPT !.consumed = consumed]
  /\ mpc' = "operations"
  /\ UNCHANGED <<confirmationVars, now, known, callVars, graphVars, copies, migrated, historyVars>>

ReadOperations ==
  /\ mpc = "operations"
  /\ seen' = [seen EXCEPT !.operation = operation]
  /\ mpc' = "insert"
  /\ UNCHANGED <<confirmationVars, now, known, callVars, graphVars, copies, migrated, historyVars>>

\* Mutation: rows are joined by their nonce instead of by plan hash.
LegacyStatusByNonce(n, e) ==
  IF seen.operation[n] # NoOperation THEN seen.operation[n].status
  ELSE IF seen.consumed[n] # 0 THEN "LEGACY_UNKNOWN"
  ELSE "ISSUED"

\* Mutation: a plan past its time is migrated as expired.
LegacyStatusExpired(n, e) ==
  IF seen.operation[n].expires = e THEN seen.operation[n].status
  ELSE IF seen.consumed[n] = e THEN "LEGACY_UNKNOWN"
  ELSE IF now > e THEN "EXPIRED" ELSE "ISSUED"

\* _legacy_status, for payloads and receipts that can be parsed.
LegacyStatus(n, e) ==
  IF seen.operation[n].expires = e THEN seen.operation[n].status
  ELSE IF seen.consumed[n] = e THEN "LEGACY_UNKNOWN"
  ELSE "ISSUED"

FoundPlans ==
  {p \in UNION {{<<n, seen.issued[n]>>, <<n, seen.consumed[n]>>,
                 <<n, seen.operation[n].expires>>} : n \in Nonce} : p[2] # 0}

\* _migrate_legacy_plan: INSERT OR IGNORE of every plan found.
InsertMigrated ==
  /\ mpc = "insert"
  /\ migrated' = migrated \cup
       {[nonce |-> p[1], expires |-> p[2], status |-> LegacyStatus(p[1], p[2])] :
          p \in {q \in FoundPlans :
                   \A m \in migrated : <<m.nonce, m.expires>> # q}}
  /\ seen' = NothingSeen
  /\ mpc' = "idle"
  /\ UNCHANGED <<confirmationVars, now, known, callVars, graphVars, copies, historyVars>>

Migration == ReadIssued \/ ReadConsumed \/ ReadOperations \/ InsertMigrated
-----------------------------------------------------------------------------
(* The graph server, other writers, and the clock                          *)

Remove(n, o) ==
  /\ present' = present \ {o}
  /\ removed' = IF o \in present THEN removed \cup {<<n, o>>} ELSE removed
  /\ gone' = [m \in Nonce |-> gone[m] \cup {o}]
  /\ UNCHANGED recreated

ServerAnswers(c) ==
  /\ request[c] = "pending"
  /\ \/ /\ request' = [request EXCEPT ![c] = "committed"]
        /\ Remove(nonce[c], Current(c))
     \/ /\ request' = [request EXCEPT ![c] = "refused"]
        /\ UNCHANGED <<present, removed, gone, recreated>>
  /\ UNCHANGED <<confirmationVars, now, known, pc, nonce, expiry, clock, results,
                 outcome, late, migrationVars, executions>>

ServerAnswersLate(n, o) ==
  /\ <<n, o>> \in late
  /\ late' = late \ {<<n, o>>}
  /\ Remove(n, o) \/ UNCHANGED <<present, removed, gone, recreated>>
  /\ UNCHANGED <<confirmationVars, now, known, callVars, migrationVars, executions>>

OtherWriter(o) ==
  /\ \/ /\ o \in present
        /\ present' = present \ {o}
        /\ gone' = [m \in Nonce |-> gone[m] \cup {o}]
        /\ UNCHANGED recreated
     \/ /\ o \notin present
        /\ present' = present \cup {o}
        /\ recreated' = TRUE
        /\ UNCHANGED gone
  /\ UNCHANGED <<confirmationVars, now, known, callVars, late, migrationVars,
                 executions, removed>>

Tick ==
  /\ now < MaxTime
  /\ now' = now + 1
  /\ UNCHANGED <<confirmationVars, known, callVars, graphVars, migrationVars, historyVars>>

Next ==
  \/ \E c \in Caller : CallStep(c) \/ ServerAnswers(c)
  \/ \E n \in Nonce, o \in Op : ServerAnswersLate(n, o)
  \/ \E o \in Shared : OtherWriter(o)
  \/ Migration
  \/ Tick

Spec == Init /\ [][Next]_vars
-----------------------------------------------------------------------------
(* Safety                                                                  *)

\* A nonce authorises at most one execution, although its consumed row is
\* purged at its expiry and the same nonce may then be issued and confirmed
\* again (consume; _cleanup_expired; UNIQUE nonce_digest of write_operations).
SingleUse == \A n \in Nonce : executions[n] <= 1

\* A recorded success is real: every edge of the plan was absent at some time
\* after the nonce was consumed, whatever other writers and late requests do
\* (execute_graph_change_plan, record_write_outcome).
OutcomeProven == \A n \in Nonce : operation[n].status \in Success => gone[n] = Op

\* docs/architecture.md: REJECTED means that the backend proves no mutation
\* occurred.  A write recorded as REJECTED took no edge away and never will,
\* unless another writer has put an edge back: then the verification read finds
\* an edge and DELETE_VERIFY_FAILED is recorded as REJECTED.
RejectedUntouched ==
  \A n \in Nonce, o \in Op :
    operation[n].status = "REJECTED" /\ <<n, o>> \in removed \cup late => recreated

\* A migrated row never says more than the legacy row: an outcome is the one
\* recorded for that plan, EXECUTING was really consumed, and a plan counts as
\* lost only if the legacy store holds no record of its execution
\* (_migrate_legacy reads three tables one after the other).
MigratedTruthful ==
  \A m \in migrated :
    LET row == operation[m.nonce]
    IN  /\ m.status \in Recorded => row = [expires |-> m.expires, status |-> m.status]
        /\ m.status = "EXECUTING" => row.expires = m.expires
        /\ m.status = "LEGACY_UNKNOWN" => row.expires # m.expires

\* The record of an execution is never lost or assigned to another plan, and
\* its outcome is written once, although record_outcome checks no status.
RecordsAreFinal ==
  [][\A n \in Nonce :
       /\ operation[n] # NoOperation => operation'[n].expires = operation[n].expires
       /\ operation[n].status \in Recorded => operation'[n] = operation[n]]_vars

=============================================================================
