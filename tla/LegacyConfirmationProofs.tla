----------------------- MODULE LegacyConfirmationProofs -----------------------
(***************************************************************************)
(* Theorems about LegacyConfirmation, for every number of nonces, callers  *)
(* and edges, every lifetime of a plan, and a clock and migrations without *)
(* bound.                                                                  *)
(*   Shape     types, where a call stands, and times: a plan issued here   *)
(*             expires after TTL, one from before the history at TTL;      *)
(*   Owned     a nonce is executed once, by one call, whose row waits for  *)
(*             its outcome;                                                *)
(*   Kept      what migration has read or copied is still true;            *)
(*   Witnessed what an execution counts as done was absent once;           *)
(*   Untouched what an execution may still deny has taken nothing away.    *)
(***************************************************************************)
EXTENDS LegacyConfirmation, TLAPS

\* A call that is under way has a plan of this history, an operation to work
\* on, and a request only while it waits for it.
Working == {"read", "send", "wait", "check"}

Located ==
  \A c \in Caller :
    /\ pc[c] # "idle" => expiry[c] > TTL
    /\ results[c] # <<>> => pc[c] \in Working
    /\ pc[c] \in Working => Len(results[c]) < NumOps
    /\ request[c] # "none" => pc[c] = "wait"

\* Consumed nonces have a record, but for those from before the history.
Dated ==
  /\ now > 0
  /\ \A p \in known : p[2] > TTL
  /\ \A n \in Nonce :
       /\ issued[n] # 0 => issued[n] > TTL
       /\ operation[n] # NoOperation => operation[n].expires > TTL
       /\ consumed[n] # 0 => consumed[n] \in {operation[n].expires, TTL}

CallsTyped ==
  /\ pc \in [Caller -> CallPc]
  /\ nonce \in [Caller -> Nonce]
  /\ expiry \in [Caller -> Nat]
  /\ clock \in [Caller -> Nat]
  /\ results \in [Caller -> Seq(Success)]
  /\ request \in [Caller -> {"none", "pending", "committed", "refused"}]
  /\ outcome \in [Caller -> Recorded]

RestTyped ==
  /\ now \in Nat
  /\ known \subseteq Nonce \X Nat
  /\ present \subseteq Op
  /\ late \subseteq Nonce \X Op
  /\ executions \in [Nonce -> Nat]
  /\ gone \in [Nonce -> SUBSET Op]
  /\ removed \subseteq Nonce \X Op
  /\ recreated \in BOOLEAN

CopiesTyped ==
  /\ mpc \in {"idle", "consumed", "operations", "insert"}
  /\ copies \in Nat
  /\ seen \in Tables
  /\ migrated \subseteq [nonce : Nonce, expires : Nat, status : MigratedStatus]

LEMMA TypeParts ==
  TypeOK <=> ConfirmationTypeOK /\ CallsTyped /\ RestTyped /\ CopiesTyped
BY DEF TypeOK, CallsTyped, RestTyped, CopiesTyped

\* What the calls and the store need to go on.
Shape == ConfirmationTypeOK /\ CallsTyped /\ RestTyped /\ Located /\ Dated
-----------------------------------------------------------------------------
(* Statuses                                                                *)

\* The status of an execution that ends with an operation of status s.
LEMMA ExecutionStatus ==
  ASSUME NEW r \in Seq(Success), NEW s \in Success \cup {"REJECTED", "UNKNOWN"}
  PROVE  /\ AggregatePlanStatus(Append(r, s)) \in Recorded
         /\ AggregatePlanStatus(Append(r, s)) \in Success => s \in Success
         /\ AggregatePlanStatus(Append(r, s)) = "REJECTED" => r = <<>> /\ s = "REJECTED"
<1> DEFINE all == Append(r, s)
<1>1. /\ DOMAIN all = 1 .. Len(r) + 1
      /\ all[Len(r) + 1] = s
      /\ \A i \in 1 .. Len(r) : all[i] = r[i] /\ r[i] \in Success
      /\ Len(r) \in Nat
  OBVIOUS
<1>2. r # <<>> => 1 \in 1 .. Len(r)
  BY <1>1
<1> HIDE DEF all
<1>3. r # <<>> => Some(all, Success)
  BY <1>1, <1>2 DEF Some
<1>4. Every(all, Success) => s \in Success
  BY <1>1 DEF Every
<1>5. Every(all, {"ALREADY_APPLIED"}) => Every(all, Success)
  BY DEF Every, Success
<1>6. Some(all, Success) => Some(all, Success \cup {"PARTIAL"})
  BY DEF Some
<1>7. \A i \in DOMAIN all : all[i] \in Success \cup {"REJECTED", "UNKNOWN"}
  BY <1>1
<1>8. ~Some(all, {"RETRYABLE_NOT_APPLIED"})
  BY <1>7 DEF Some, Success
<1>9. /\ s \in Success => Some(all, Success)
      /\ s = "UNKNOWN" => Some(all, {"UNKNOWN"})
  BY <1>1 DEF Some
<1>10. QED
  BY <1>3, <1>4, <1>5, <1>6, <1>8, <1>9 DEF AggregatePlanStatus, Recorded, Success, all
-----------------------------------------------------------------------------
(* Shape                                                                   *)

LEMMA ShapeInitially ==
  ASSUME Init
  PROVE  Shape
<1>1. AnyNonce \in Nonce
  BY CallerAssumption DEF AnyNonce
<1>2. ConfirmationTypeOK
  BY TTLAssumption DEF Init, ConfirmationInit, ConfirmationTypeOK, OperationRecord
<1>3. CallsTyped
  <2>1. <<>> \in Seq(Success) /\ "UNKNOWN" \in Recorded
    BY DEF Recorded
  <2>2. QED
    BY <1>1, <2>1 DEF Init, CallsTyped, CallPc
<1>4. RestTyped
  BY DEF Init, RestTyped
<1>5. Located
  BY DEF Init, Located, Working
<1>6. Dated
  <2>1. \A n \in Nonce : consumed[n] \in {0, TTL} /\ issued[n] = 0 /\ operation[n] = NoOperation
    BY DEF Init, ConfirmationInit
  <2>2. QED
    BY <2>1 DEF Init, Dated
<1>7. QED
  BY <1>2, <1>3, <1>4, <1>5, <1>6 DEF Shape

\* The parts of Shape that a transaction of the store can change.
StoreShape ==
  /\ ConfirmationTypeOK
  /\ \A n \in Nonce :
       /\ issued[n] # 0 => issued[n] > TTL
       /\ operation[n] # NoOperation => operation[n].expires > TTL
       /\ consumed[n] # 0 => consumed[n] \in {operation[n].expires, TTL}

\* What one step may do to the store.
StoreStep ==
  \/ CleanupExpired(now)
  \/ \E n \in Nonce, e \in Nat : e > TTL /\ Issue(n, e)
  \/ \E n \in Nonce, e \in Nat, t \in Nat : e > TTL /\ Consume(n, e, t)
  \/ \E n \in Nonce, e \in Nat, s \in Recorded : e > TTL /\ RecordOutcome(n, e, s)
  \/ UNCHANGED confirmationVars

LEMMA StoreStepShape ==
  ASSUME Shape, StoreStep
  PROVE  StoreShape'
<1> USE DEF StoreShape, ConfirmationTypeOK
<1>0. StoreShape /\ now \in Nat
  BY DEF Shape, Dated, RestTyped
<1>1. TTL \in Nat \ {0}
  BY TTLAssumption
<1>2. CASE CleanupExpired(now)
  BY <1>0, <1>2 DEF CleanupExpired, Keep
<1>3. CASE \E n \in Nonce, e \in Nat : e > TTL /\ Issue(n, e)
  BY <1>0, <1>3 DEF Issue
<1>4. CASE \E n \in Nonce, e \in Nat, t \in Nat : e > TTL /\ Consume(n, e, t)
  <2>1. PICK n \in Nonce, e \in Nat, t \in Nat : e > TTL /\ Consume(n, e, t)
    BY <1>4
  <2>2. [expires |-> e, status |-> "EXECUTING"] \in OperationRecord
    BY <1>1, <2>1 DEF OperationRecord
  <2>3. QED
    BY <1>0, <1>1, <2>1, <2>2 DEF Consume, CanConsume, NoOperation
<1>5. CASE \E n \in Nonce, e \in Nat, s \in Recorded : e > TTL /\ RecordOutcome(n, e, s)
  <2>1. PICK n \in Nonce, e \in Nat, s \in Recorded : e > TTL /\ RecordOutcome(n, e, s)
    BY <1>5
  <2>2. operation[n] # NoOperation
    BY <1>1, <2>1 DEF RecordOutcome, CanRecordOutcome, NoOperation
  <2>3. operation'[n] = [expires |-> e, status |-> s] /\ operation' \in [Nonce -> OperationRecord]
    BY <1>0, <1>1, <2>1, <2>2 DEF RecordOutcome, CanRecordOutcome, OperationRecord, NoOperation
  <2>4. /\ operation[n].expires = e /\ UNCHANGED <<issued, consumed>>
        /\ \A m \in Nonce \ {n} : operation'[m] = operation[m]
    BY <1>0, <2>1 DEF RecordOutcome, CanRecordOutcome
  <2>5. operation'[n].expires = e
    BY <2>3
  <2>6. \A m \in Nonce : operation'[m] # NoOperation => operation'[m].expires > TTL
    BY <1>0, <2>1, <2>4, <2>5
  <2>7. \A m \in Nonce : consumed'[m] # 0 => consumed'[m] \in {operation'[m].expires, TTL}
    BY <1>0, <2>4, <2>5
  <2>8. \A m \in Nonce : issued'[m] # 0 => issued'[m] > TTL
    BY <1>0, <2>4
  <2>9. QED
    BY <1>0, <2>3, <2>4, <2>6, <2>7, <2>8
<1>6. CASE UNCHANGED confirmationVars
  BY <1>0, <1>6 DEF confirmationVars
<1>7. QED
  BY <1>2, <1>3, <1>4, <1>5, <1>6 DEF StoreStep

\* Every step of a call is one of these for the store.
LEMMA CallStoreStep ==
  ASSUME Shape, NEW c \in Caller, CallStep(c)
  PROVE  StoreStep
<1>1. /\ nonce[c] \in Nonce /\ expiry[c] \in Nat /\ clock[c] \in Nat /\ outcome[c] \in Recorded
      /\ pc[c] # "idle" => expiry[c] > TTL
  BY DEF Shape, CallsTyped, Located
<1>2. CASE IssuePrepare(c)
  BY <1>2 DEF IssuePrepare, StoreStep
<1>3. CASE IssuePlan(c)
  BY <1>1, <1>3 DEF IssuePlan, StoreStep, confirmationVars
<1>4. CASE ConsumePrepare(c)
  BY <1>4 DEF ConsumePrepare, StoreStep
<1>5. CASE ConsumePlan(c)
  BY <1>1, <1>5 DEF ConsumePlan, StoreStep, confirmationVars
<1>6. CASE RecordWriteOutcome(c)
  BY <1>1, <1>6 DEF RecordWriteOutcome, StoreStep
<1>7. CASE ~(IssuePrepare(c) \/ IssuePlan(c) \/ ConsumePrepare(c) \/ ConsumePlan(c)
              \/ RecordWriteOutcome(c))
  <2>1. UNCHANGED confirmationVars
    BY <1>7 DEF CallStep, BuildPlan, Confirm, CheckReplayed, LoadIssuedPlan, ReadTarget,
                SendDelete, ReceiveAnswer, CheckDeleted, Die
  <2>2. QED
    BY <2>1 DEF StoreStep
<1>8. QED
  BY <1>2, <1>3, <1>4, <1>5, <1>6, <1>7

\* The rest of Shape.
RestShape ==
  /\ CallsTyped /\ RestTyped /\ Located
  /\ now > 0
  /\ \A p \in known : p[2] > TTL

LEMMA ShapeParts ==
  ASSUME StoreShape', RestShape'
  PROVE  Shape'
BY DEF Shape, StoreShape, RestShape, Dated

\* A call that returns.
LEMMA ReturnShape ==
  ASSUME Shape, NEW c \in Caller, Return(c)
  PROVE  CallsTyped' /\ Located'
<1>1. /\ CallsTyped /\ Located
      /\ AnyNonce \in Nonce /\ <<>> \in Seq(Success) /\ "idle" \in CallPc /\ "UNKNOWN" \in Recorded
  BY CallerAssumption DEF Shape, AnyNonce, CallPc, Recorded
<1>2. CallsTyped'
  BY <1>1 DEF CallsTyped, Return, Goto
<1>3. \A d \in Caller : d # c => /\ pc'[d] = pc[d] /\ expiry'[d] = expiry[d]
                                 /\ results'[d] = results[d] /\ request'[d] = request[d]
  BY <1>1 DEF CallsTyped, Return, Goto
<1>4. pc'[c] = "idle" /\ results'[c] = <<>> /\ request'[c] = "none"
  BY <1>1 DEF CallsTyped, Return, Goto
<1>5. Located'
  BY <1>1, <1>3, <1>4 DEF Located, Working
<1>6. QED
  BY <1>2, <1>5

\* A call goes on.
Continue(c, label) ==
  Goto(c, label) /\ UNCHANGED <<nonce, expiry, clock, results, request, outcome>>

LEMMA ContinueShape ==
  ASSUME Shape, NEW c \in Caller, pc[c] \notin Working \cup {"idle"},
         NEW label \in {"insert", "load", "prepare", "read"},
         Continue(c, label)
  PROVE  CallsTyped' /\ Located'
<1>1. CallsTyped /\ Located
  BY DEF Shape
<1>2. CallsTyped'
  BY <1>1 DEF CallsTyped, Goto, CallPc, Continue
<1>3. results[c] = <<>> /\ request[c] = "none" /\ expiry[c] > TTL
  BY <1>1 DEF Located, Working
<1>4. Len(results[c]) < NumOps
  BY <1>3, PlanAssumption
<1>5. Located'
  BY <1>1, <1>3, <1>4 DEF Located, Goto, CallsTyped, Working, Continue
<1>6. QED
  BY <1>2, <1>5

\* An operation of an execution ends, with it perhaps the execution.
LEMMA OperationEndsShape ==
  ASSUME Shape, NEW c \in Caller, pc[c] \in Working,
         NEW s \in Success \cup {"REJECTED", "UNKNOWN"},
         Fail(c, s) \/ (s \in Success /\ Succeed(c, s)),
         request' = [request EXCEPT ![c] = "none"],
         UNCHANGED <<nonce, expiry, clock>>
  PROVE  CallsTyped' /\ Located'
<1>1. CallsTyped /\ Located
  BY DEF Shape
<1>2. /\ results[c] \in Seq(Success) /\ Len(results[c]) < NumOps /\ expiry[c] > TTL
      /\ Len(results[c]) \in Nat
  BY <1>1 DEF CallsTyped, Located, Working
<1>3. CASE Fail(c, s)
  <2>1. AggregatePlanStatus(Append(results[c], s)) \in Recorded
    BY <1>2, ExecutionStatus
  <2>2. outcome' = [outcome EXCEPT ![c] = AggregatePlanStatus(Append(results[c], s))]
    BY <1>3 DEF Fail
  <2>3. CallsTyped'
    <3>1. results' = [results EXCEPT ![c] = <<>>] /\ <<>> \in Seq(Success)
      BY <1>3 DEF Fail
    <3>2. pc' = [pc EXCEPT ![c] = "record"] /\ "record" \in CallPc
      BY <1>3 DEF Fail, Goto, CallPc
    <3>3. QED
      BY <1>1, <2>1, <2>2, <3>1, <3>2 DEF CallsTyped
  <2>4. \A d \in Caller : d # c => /\ pc'[d] = pc[d] /\ expiry'[d] = expiry[d]
                                   /\ results'[d] = results[d] /\ request'[d] = request[d]
    BY <1>1, <1>3 DEF CallsTyped, Fail, Goto
  <2>5. pc'[c] = "record" /\ results'[c] = <<>> /\ request'[c] = "none" /\ expiry'[c] = expiry[c]
    BY <1>1, <1>3 DEF CallsTyped, Fail, Goto
  <2>6. Located'
    BY <1>1, <1>2, <2>4, <2>5 DEF Located, Working
  <2>7. QED
    BY <2>3, <2>6
<1>4. CASE s \in Success /\ Succeed(c, s) /\ Current(c) < NumOps
  <2>1. /\ results' = [results EXCEPT ![c] = Append(results[c], s)]
        /\ pc' = [pc EXCEPT ![c] = "read"] /\ "read" \in CallPc
        /\ outcome' = outcome
    BY <1>4 DEF Succeed, Goto, CallPc
  <2>2. Append(results[c], s) \in Seq(Success) /\ Len(Append(results[c], s)) < NumOps
    BY <1>2, <1>4 DEF Current
  <2>3. CallsTyped'
    BY <1>1, <2>1, <2>2 DEF CallsTyped
  <2>4. \A d \in Caller : d # c => /\ pc'[d] = pc[d] /\ expiry'[d] = expiry[d]
                                   /\ results'[d] = results[d] /\ request'[d] = request[d]
    BY <1>1, <2>1 DEF CallsTyped
  <2>5. /\ pc'[c] = "read" /\ request'[c] = "none" /\ expiry'[c] = expiry[c]
        /\ results'[c] = Append(results[c], s)
    BY <1>1, <2>1 DEF CallsTyped
  <2>6. Located'
    BY <1>1, <1>2, <2>2, <2>4, <2>5 DEF Located, Working
  <2>7. QED
    BY <2>3, <2>6
<1>5. QED
  BY <1>3, <1>4 DEF Succeed

\* The steps that ask for a deletion.
LEMMA ToServerShape ==
  ASSUME Shape, NEW c \in Caller, NEW label \in {"send", "wait", "check"},
         pc[c] \in Working, Goto(c, label),
         NEW r \in {"none", "pending"}, request' = [request EXCEPT ![c] = r],
         r = "pending" => label = "wait",
         UNCHANGED <<nonce, expiry, clock, results, outcome>>
  PROVE  CallsTyped' /\ Located'
<1>1. CallsTyped /\ Located
  BY DEF Shape
<1>2. CallsTyped'
  BY <1>1 DEF CallsTyped, Goto, CallPc
<1>3. Located'
  BY <1>1 DEF Located, CallsTyped, Goto, Working
<1>4. QED
  BY <1>2, <1>3

\* Every step of a call.
LEMMA CallStepShape ==
  ASSUME Shape, NEW c \in Caller, CallStep(c)
  PROVE  CallsTyped' /\ Located'
<1>1. CallsTyped /\ Located /\ RestTyped /\ (\A p \in known : p[2] > TTL) /\ now > 0
  BY DEF Shape, Dated
<1>2. pc[c] # "wait" => request = [request EXCEPT ![c] = "none"]
  BY <1>1 DEF CallsTyped, Located
<1>3. ASSUME NEW n \in Nonce, BuildPlan(c, n)
      PROVE  CallsTyped' /\ Located'
  <2>1. now + TTL \in Nat /\ now + TTL > TTL
    BY <1>1, TTLAssumption DEF RestTyped
  <2>2. QED
    BY <1>1, <1>3, <2>1 DEF CallsTyped, Located, BuildPlan, Goto, CallPc, Working
<1>4. ASSUME NEW p \in known, Confirm(c, p[1], p[2])
      PROVE  CallsTyped' /\ Located'
  <2>1. p[1] \in Nonce /\ p[2] \in Nat /\ p[2] > TTL
    BY <1>1 DEF RestTyped
  <2>2. QED
    BY <1>1, <1>4, <2>1 DEF CallsTyped, Located, Confirm, Goto, CallPc, Working
<1>5. CASE IssuePrepare(c) \/ CheckReplayed(c) \/ LoadIssuedPlan(c) \/ ConsumePlan(c)
  <2>1. Return(c) \/ \E label \in {"insert", "load", "prepare", "read"} : Continue(c, label)
    BY <1>5
       DEF IssuePrepare, CheckReplayed, LoadIssuedPlan, ConsumePlan, StepOrReturn, Continue
  <2>2. pc[c] \notin Working \cup {"idle"}
    BY <1>5 DEF IssuePrepare, CheckReplayed, LoadIssuedPlan, ConsumePlan, Working
  <2>3. QED
    BY <2>1, <2>2, ReturnShape, ContinueShape
<1>6. CASE IssuePlan(c) \/ RecordWriteOutcome(c) \/ Die(c)
  BY <1>6, ReturnShape DEF IssuePlan, RecordWriteOutcome, Die
<1>7. CASE ConsumePrepare(c)
  BY <1>1, <1>7 DEF CallsTyped, Located, RestTyped, ConsumePrepare, Goto, CallPc, Working
<1>8. CASE ReadTarget(c) \/ SendDelete(c) \/ ReceiveAnswer(c) \/ CheckDeleted(c)
  <2>1. pc[c] \in Working /\ UNCHANGED <<nonce, expiry, clock>>
    BY <1>8 DEF ReadTarget, SendDelete, ReceiveAnswer, CheckDeleted, Working
  <2>2. \/ /\ request' = [request EXCEPT ![c] = "none"]
           /\ \E s \in Success \cup {"REJECTED", "UNKNOWN"} :
                Fail(c, s) \/ (s \in Success /\ Succeed(c, s))
        \/ /\ UNCHANGED <<results, outcome>>
           /\ \/ Goto(c, "send") /\ request' = [request EXCEPT ![c] = "none"]
              \/ Goto(c, "wait") /\ request' = [request EXCEPT ![c] = "pending"]
              \/ Goto(c, "check") /\ request' = [request EXCEPT ![c] = "none"]
    BY <1>2, <1>8 DEF ReadTarget, SendDelete, ReceiveAnswer, CheckDeleted, Verify, Indeterminate,
                      Success
  <2>3. CASE /\ request' = [request EXCEPT ![c] = "none"]
             /\ \E s \in Success \cup {"REJECTED", "UNKNOWN"} :
                  Fail(c, s) \/ (s \in Success /\ Succeed(c, s))
    BY <2>1, <2>3, OperationEndsShape
  <2>4. QED
    BY <2>1, <2>2, <2>3, ToServerShape
<1>9. QED
  BY <1>3, <1>4, <1>5, <1>6, <1>7, <1>8 DEF CallStep

\* What calls and requests do to the graph and to history.
LEMMA CallStepRest ==
  ASSUME Shape, NEW c \in Caller, CallStep(c)
  PROVE  /\ RestTyped'
         /\ now' = now
         /\ known' \subseteq known \cup {<<nonce[c], expiry[c]>>}
         /\ pc[c] = "idle" => known' = known
<1>1. /\ RestTyped /\ nonce[c] \in Nonce /\ expiry[c] \in Nat
      /\ request[c] = "pending" => Current(c) \in Op
  <2>1. CallsTyped /\ Located /\ RestTyped
    BY DEF Shape
  <2>2. results[c] \in Seq(Success) /\ Len(results[c]) \in Nat
    BY <2>1 DEF CallsTyped
  <2>3. request[c] = "pending" => Len(results[c]) + 1 \in Op
    BY <2>1, <2>2, PlanAssumption DEF Located, Working, Op
  <2>4. QED
    BY <2>1, <2>3 DEF CallsTyped, Current
<1>2. Abandoned(c) \subseteq Nonce \X Op
  BY <1>1 DEF Abandoned, RestTyped
<1>3. CASE Die(c) \/ ReceiveAnswer(c)
  BY <1>1, <1>2, <1>3 DEF RestTyped, Die, ReceiveAnswer, graphVars, historyVars
<1>4. CASE ConsumePlan(c)
  BY <1>1, <1>4 DEF RestTyped, ConsumePlan, graphVars
<1>5. CASE IssuePlan(c)
  BY <1>1, <1>5 DEF RestTyped, IssuePlan, graphVars, historyVars
<1>6. CASE ~(Die(c) \/ ReceiveAnswer(c) \/ ConsumePlan(c) \/ IssuePlan(c))
  <2>1. UNCHANGED <<now, known, graphVars, historyVars>>
    BY <1>6 DEF CallStep, BuildPlan, Confirm, IssuePrepare, CheckReplayed, LoadIssuedPlan,
                ConsumePrepare, ReadTarget, SendDelete, CheckDeleted, RecordWriteOutcome
  <2>2. QED
    BY <1>1, <2>1 DEF RestTyped, graphVars, historyVars
<1>7. QED
  BY <1>3, <1>4, <1>5, <1>6

LEMMA ServerShape ==
  ASSUME Shape, NEW c \in Caller, ServerAnswers(c)
  PROVE  RestShape'
<1>1. CallsTyped /\ Located /\ RestTyped /\ now > 0 /\ \A p \in known : p[2] > TTL
  BY DEF Shape, Dated
<1>2. nonce[c] \in Nonce /\ Current(c) \in Op /\ request[c] = "pending"
  <2>1. Len(results[c]) \in Nat /\ Len(results[c]) < NumOps
    BY <1>1 DEF CallsTyped, Located, ServerAnswers, Working
  <2>2. QED
    BY <1>1, <2>1, PlanAssumption DEF CallsTyped, Current, Op, ServerAnswers
<1>3. CallsTyped' /\ Located'
  BY <1>1, <1>2 DEF CallsTyped, Located, ServerAnswers, Working
<1>4. RestTyped'
  BY <1>1, <1>2 DEF RestTyped, ServerAnswers, Remove
<1>5. QED
  BY <1>1, <1>3, <1>4 DEF RestShape, ServerAnswers

LEMMA WorldShape ==
  ASSUME Shape,
         \/ \E n \in Nonce, o \in Op : ServerAnswersLate(n, o)
         \/ \E o \in Shared : OtherWriter(o)
         \/ Tick \/ Migration \/ UNCHANGED vars
  PROVE  RestShape'
<1>1. CallsTyped /\ Located /\ RestTyped /\ now > 0 /\ \A p \in known : p[2] > TTL
  BY DEF Shape, Dated
<1>2. UNCHANGED <<known, callVars>>
  BY DEF ServerAnswersLate, OtherWriter, Tick, Migration, ReadIssued, ReadConsumed,
         ReadOperations, InsertMigrated, vars
<1>3. CallsTyped' /\ Located'
  BY <1>1, <1>2 DEF CallsTyped, Located, callVars
<1>4. RestTyped' /\ now' > 0
  <2>1. CASE \E n \in Nonce, o \in Op : ServerAnswersLate(n, o)
    BY <1>1, <2>1 DEF RestTyped, ServerAnswersLate, Remove
  <2>2. CASE \E o \in Shared : OtherWriter(o)
    BY <1>1, <2>2, CallerAssumption DEF RestTyped, OtherWriter
  <2>3. CASE Tick
    BY <1>1, <2>3 DEF RestTyped, Tick, graphVars, historyVars
  <2>4. CASE Migration \/ UNCHANGED vars
    <3>1. UNCHANGED <<now, known, graphVars, historyVars>>
      BY <2>4 DEF Migration, ReadIssued, ReadConsumed, ReadOperations, InsertMigrated, vars
    <3>2. QED
      BY <1>1, <3>1 DEF RestTyped, graphVars, historyVars
  <2>5. QED
    BY <2>1, <2>2, <2>3, <2>4
<1>5. QED
  BY <1>1, <1>2, <1>3, <1>4 DEF RestShape

LEMMA ShapeStep ==
  ASSUME Shape, [Next]_vars
  PROVE  Shape'
<1>1. ASSUME NEW c \in Caller, CallStep(c)
      PROVE  Shape'
  <2>1. StoreShape'
    BY <1>1, CallStoreStep, StoreStepShape
  <2>2. expiry[c] > TTL \/ pc[c] = "idle"
    BY DEF Shape, Located
  <2>3. now > 0 /\ \A p \in known : p[2] > TTL
    BY DEF Shape, Dated
  <2>4. RestShape'
    BY <1>1, <2>2, <2>3, CallStepShape, CallStepRest DEF RestShape
  <2>5. QED
    BY <2>1, <2>4, ShapeParts
<1>2. ASSUME NEW c \in Caller, ServerAnswers(c)
      PROVE  Shape'
  <2>1. StoreStep
    BY <1>2 DEF StoreStep, ServerAnswers
  <2>2. QED
    BY <1>2, <2>1, StoreStepShape, ServerShape, ShapeParts
<1>3. CASE \/ \E n \in Nonce, o \in Op : ServerAnswersLate(n, o)
           \/ \E o \in Shared : OtherWriter(o)
           \/ Tick \/ Migration \/ UNCHANGED vars
  <2>1. UNCHANGED confirmationVars
    BY <1>3 DEF ServerAnswersLate, OtherWriter, Tick, Migration, ReadIssued, ReadConsumed,
                ReadOperations, InsertMigrated, vars
  <2>2. StoreStep
    BY <2>1 DEF StoreStep
  <2>3. QED
    BY <1>3, <2>2, StoreStepShape, WorldShape, ShapeParts
<1>4. QED
  BY <1>1, <1>2, <1>3 DEF Next
-----------------------------------------------------------------------------
(* Types                                                                   *)

\* A plan that migration finds is one of the three it has read of a nonce.
LEMMA Found ==
  ASSUME CopiesTyped, NEW p \in FoundPlans
  PROVE  \E n \in Nonce, e \in Nat \ {0} :
           /\ p = <<n, e>>
           /\ e \in {seen.issued[n], seen.consumed[n], seen.operation[n].expires}
<1>1. PICK n \in Nonce : p \in {<<n, seen.issued[n]>>, <<n, seen.consumed[n]>>,
                                <<n, seen.operation[n].expires>>}
  BY DEF FoundPlans
<1>2. /\ seen.issued[n] \in Nat /\ seen.consumed[n] \in Nat
      /\ seen.operation[n] \in OperationRecord
  BY DEF CopiesTyped, Tables
<1>3. seen.operation[n].expires \in Nat
  BY <1>2 DEF OperationRecord, NoOperation
<1>4. p[2] # 0
  BY DEF FoundPlans
<1>5. QED
  BY <1>1, <1>2, <1>3, <1>4

LEMMA CopiesStep ==
  ASSUME Shape, CopiesTyped, [Next]_vars
  PROVE  CopiesTyped'
<1>1. ConfirmationTypeOK
  BY DEF Shape
<1>2. CASE ReadIssued \/ ReadConsumed \/ ReadOperations
  BY <1>1, <1>2
     DEF CopiesTyped, Tables, ConfirmationTypeOK, ReadIssued, ReadConsumed, ReadOperations
<1>3. CASE InsertMigrated
  <2>1. \A p \in FoundPlans : [nonce |-> p[1], expires |-> p[2], status |-> LegacyStatus(p[1], p[2])]
                                \in [nonce : Nonce, expires : Nat, status : MigratedStatus]
    <3>1. ASSUME NEW p \in FoundPlans
          PROVE  LegacyStatus(p[1], p[2]) \in MigratedStatus /\ p[1] \in Nonce /\ p[2] \in Nat
      <4>1. PICK n \in Nonce, e \in Nat \ {0} : p = <<n, e>>
        BY Found
      <4>2. seen.operation[n] \in OperationRecord
        BY DEF CopiesTyped, Tables
      <4>3. seen.operation[n].expires = e =>
              seen.operation[n].status \in Recorded \cup {"EXECUTING"}
        BY <4>2 DEF OperationRecord, NoOperation
      <4>4. QED
        BY <4>1, <4>3 DEF LegacyStatus, MigratedStatus
    <3>2. QED
      BY <3>1
  <2>2. migrated' \subseteq [nonce : Nonce, expires : Nat, status : MigratedStatus]
    BY <1>3, <2>1 DEF InsertMigrated, CopiesTyped
  <2>3. NothingSeen \in Tables
    BY DEF NothingSeen, Tables, OperationRecord
  <2>4. QED
    BY <1>3, <2>2, <2>3 DEF InsertMigrated, CopiesTyped
<1>4. CASE UNCHANGED migrationVars
  BY <1>4 DEF CopiesTyped, migrationVars
<1>5. ASSUME NEW c \in Caller, CallStep(c) \/ ServerAnswers(c)
      PROVE  UNCHANGED migrationVars
  BY <1>5 DEF CallStep, BuildPlan, IssuePrepare, IssuePlan, Confirm, CheckReplayed,
              LoadIssuedPlan, ConsumePrepare, ConsumePlan, ReadTarget, SendDelete,
              ReceiveAnswer, CheckDeleted, RecordWriteOutcome, Die, ServerAnswers
<1>6. QED
  BY <1>2, <1>3, <1>4, <1>5
     DEF Next, Migration, ServerAnswersLate, OtherWriter, Tick, vars

LEMMA CopiesInitially ==
  ASSUME Init
  PROVE  CopiesTyped
BY DEF Init, CopiesTyped, NothingSeen, Tables, OperationRecord

LEMMA ShapeInvariant == Spec => [](Shape /\ CopiesTyped)
<1>1. Init => Shape /\ CopiesTyped
  BY ShapeInitially, CopiesInitially
<1>2. Shape /\ CopiesTyped /\ [Next]_vars => Shape' /\ CopiesTyped'
  BY ShapeStep, CopiesStep
<1>3. QED
  BY <1>1, <1>2, PTL DEF Spec

\* Every variable keeps its type, in the store, the calls and the migration.
THEOREM LegacyTypeCorrect == Spec => []TypeOK
<1>1. Shape /\ CopiesTyped => TypeOK
  BY TypeParts DEF Shape
<1>2. QED
  BY <1>1, ShapeInvariant, PTL
-----------------------------------------------------------------------------
(* Executions                                                              *)

Owned ==
  /\ \A n \in Nonce : executions[n] = IF operation[n] = NoOperation THEN 0 ELSE 1
  /\ \A c \in Caller : pc[c] \in Executing =>
       operation[nonce[c]] = [expires |-> expiry[c], status |-> "EXECUTING"]
  /\ \A c, d \in Caller :
       pc[c] \in Executing /\ pc[d] \in Executing /\ nonce[c] = nonce[d] => c = d

\* Nothing happens to the record of any execution, and none begins.
Onward ==
  /\ UNCHANGED <<operation, executions>>
  /\ \A d \in Caller : pc'[d] \in Executing =>
       pc[d] \in Executing /\ nonce'[d] = nonce[d] /\ expiry'[d] = expiry[d]

\* Call c begins to execute its plan.
Begins(c) ==
  /\ CanConsume(nonce[c], expiry[c], clock[c])
  /\ operation' = [operation EXCEPT ![nonce[c]] = [expires |-> expiry[c], status |-> "EXECUTING"]]
  /\ executions' = [executions EXCEPT ![nonce[c]] = @ + 1]
  /\ pc[c] = "consume" /\ pc' = [pc EXCEPT ![c] = "read"]
  /\ UNCHANGED <<nonce, expiry>>

\* Call c, which has executed its plan, records the outcome and is over.
Records(c) ==
  /\ pc[c] = "record"
  /\ operation[nonce[c]].expires = expiry[c]
  /\ operation' = [operation EXCEPT ![nonce[c]].status = outcome[c]]
  /\ UNCHANGED executions
  /\ pc'[c] = "idle"
  /\ \A d \in Caller \ {c} :
       pc'[d] = pc[d] /\ nonce'[d] = nonce[d] /\ expiry'[d] = expiry[d]

\* A call returns before or after it has executed anything.
LEMMA ReturnOnward ==
  ASSUME Shape, NEW c \in Caller, Return(c)
  PROVE  /\ pc'[c] = "idle"
         /\ \A d \in Caller \ {c} :
              pc'[d] = pc[d] /\ nonce'[d] = nonce[d] /\ expiry'[d] = expiry[d]
BY DEF Shape, CallsTyped, Return, Goto

LEMMA ExecutionStep ==
  ASSUME Shape, [Next]_vars
  PROVE  Onward \/ \E c \in Caller : Begins(c) \/ Records(c)
<1>1. CallsTyped
  BY DEF Shape
<1>2. ASSUME NEW c \in Caller, CallStep(c)
      PROVE  Onward \/ Begins(c) \/ Records(c)
  <2>1. ASSUME NEW n \in Nonce, BuildPlan(c, n)
        PROVE  Onward
    BY <1>1, <2>1 DEF BuildPlan, Goto, CallsTyped, Onward, Executing, confirmationVars,
                      historyVars
  <2>2. ASSUME NEW p \in known, Confirm(c, p[1], p[2])
        PROVE  Onward
    BY <1>1, <2>2 DEF Confirm, Goto, CallsTyped, Onward, Executing, confirmationVars, historyVars
  <2>3. CASE IssuePrepare(c) \/ CheckReplayed(c) \/ LoadIssuedPlan(c)
    <3>1. UNCHANGED <<operation, executions>>
      BY <2>3 DEF IssuePrepare, CheckReplayed, LoadIssuedPlan, CleanupExpired, confirmationVars,
                  historyVars
    <3>2. Return(c) \/ \E label \in {"insert", "load", "prepare"} : Continue(c, label)
      BY <2>3 DEF IssuePrepare, CheckReplayed, LoadIssuedPlan, StepOrReturn, Continue
    <3>3. QED
      BY <1>1, <3>1, <3>2, ReturnOnward DEF Continue, Goto, CallsTyped, Onward, Executing
  <2>4. CASE IssuePlan(c) \/ Die(c)
    <3>1. UNCHANGED <<operation, executions>> /\ Return(c)
      BY <2>4 DEF IssuePlan, Issue, Die, confirmationVars, historyVars
    <3>2. QED
      BY <3>1, ReturnOnward DEF Onward, Executing
  <2>5. CASE ConsumePrepare(c)
    BY <1>1, <2>5 DEF ConsumePrepare, CleanupExpired, Goto, CallsTyped, Onward, Executing,
                      confirmationVars, historyVars
  <2>6. CASE ConsumePlan(c)
    <3>1. CASE CanConsume(nonce[c], expiry[c], clock[c])
      BY <2>6, <3>1 DEF ConsumePlan, StepOrReturn, Consume, Goto, Begins
    <3>2. CASE ~CanConsume(nonce[c], expiry[c], clock[c])
      <4>1. UNCHANGED <<operation, executions>> /\ Return(c)
        BY <2>6, <3>2 DEF ConsumePlan, StepOrReturn, confirmationVars
      <4>2. QED
        BY <4>1, ReturnOnward DEF Onward, Executing
    <3>3. QED
      BY <3>1, <3>2
  <2>7. CASE ReadTarget(c) \/ SendDelete(c) \/ ReceiveAnswer(c) \/ CheckDeleted(c)
    <3>1. /\ UNCHANGED <<operation, executions, nonce, expiry>>
          /\ pc[c] \in Executing
      BY <2>7 DEF ReadTarget, SendDelete, ReceiveAnswer, CheckDeleted, confirmationVars,
                  historyVars, Executing
    <3>2. \E label \in Executing : Goto(c, label)
      BY <2>7 DEF ReadTarget, SendDelete, ReceiveAnswer, CheckDeleted, Verify, Succeed, Fail,
                  Executing
    <3>3. QED
      BY <1>1, <3>1, <3>2 DEF Onward, Goto, CallsTyped
  <2>8. CASE RecordWriteOutcome(c)
    <3>1. Return(c) /\ UNCHANGED executions /\ pc[c] = "record"
      BY <2>8 DEF RecordWriteOutcome, historyVars
    <3>2. CASE UNCHANGED confirmationVars
      BY <3>1, <3>2, ReturnOnward DEF Onward, Executing, confirmationVars
    <3>3. CASE /\ CanRecordOutcome(nonce[c], expiry[c])
               /\ RecordOutcome(nonce[c], expiry[c], outcome[c])
      BY <3>1, <3>3, ReturnOnward DEF Records, CanRecordOutcome, RecordOutcome
    <3>4. QED
      BY <2>8, <3>2, <3>3 DEF RecordWriteOutcome
  <2>9. QED
    BY <1>2, <2>1, <2>2, <2>3, <2>4, <2>5, <2>6, <2>7, <2>8 DEF CallStep
<1>3. CASE \/ \E c \in Caller : ServerAnswers(c)
           \/ \E n \in Nonce, o \in Op : ServerAnswersLate(n, o)
           \/ \E o \in Shared : OtherWriter(o)
           \/ Tick \/ Migration \/ UNCHANGED vars
  BY <1>3 DEF ServerAnswers, ServerAnswersLate, OtherWriter, Tick, Migration, ReadIssued,
              ReadConsumed, ReadOperations, InsertMigrated, vars, Onward, callVars,
              confirmationVars, historyVars
<1>4. QED
  BY <1>2, <1>3 DEF Next

LEMMA OwnedStep ==
  ASSUME Shape, Owned, [Next]_vars
  PROVE  Owned'
<1>1. /\ nonce \in [Caller -> Nonce] /\ pc \in [Caller -> CallPc] /\ expiry \in [Caller -> Nat]
      /\ operation \in [Nonce -> OperationRecord] /\ executions \in [Nonce -> Nat]
  BY DEF Shape, CallsTyped, RestTyped, ConfirmationTypeOK
<1>2. CASE Onward
  BY <1>2 DEF Onward, Owned
<1>3. ASSUME NEW c \in Caller, Begins(c)
      PROVE  Owned'
  <2>1. /\ operation[nonce[c]] = NoOperation /\ expiry[c] > TTL
        /\ [expires |-> expiry[c], status |-> "EXECUTING"] # NoOperation
    BY <1>3 DEF Begins, CanConsume, Shape, Located, NoOperation
  <2>2. \A d \in Caller : pc[d] \in Executing => nonce[d] # nonce[c]
    <3>1. operation[nonce[c]].status = "NONE"
      BY <2>1 DEF NoOperation
    <3>2. ASSUME NEW d \in Caller, pc[d] \in Executing
          PROVE  nonce[d] # nonce[c]
      <4>1. operation[nonce[d]] = [expires |-> expiry[d], status |-> "EXECUTING"]
        BY <3>2 DEF Owned
      <4>2. operation[nonce[d]].status = "EXECUTING"
        BY <4>1
      <4>3. QED
        BY <3>1, <4>2
    <3>3. QED
      BY <3>2
  <2>3. QED
    BY <1>1, <1>3, <2>1, <2>2 DEF Begins, Owned, Executing
<1>4. ASSUME NEW c \in Caller, Records(c)
      PROVE  Owned'
  <2>1. /\ operation[nonce[c]] = [expires |-> expiry[c], status |-> "EXECUTING"]
        /\ \A d \in Caller \ {c} : pc[d] \in Executing => nonce[d] # nonce[c]
        /\ outcome[c] \in Recorded
    BY <1>4 DEF Records, Owned, Executing, Shape, CallsTyped
  <2>2. operation'[nonce[c]] # NoOperation /\ operation[nonce[c]] # NoOperation
    BY <1>1, <1>4, <2>1 DEF Records, NoOperation, Recorded
  <2>3. \A n \in Nonce : n # nonce[c] => operation'[n] = operation[n]
    BY <1>1, <1>4 DEF Records
  <2>4. \A d \in Caller : pc'[d] \in Executing =>
          d # c /\ pc[d] \in Executing /\ nonce'[d] = nonce[d] /\ expiry'[d] = expiry[d]
    BY <1>4 DEF Records, Executing
  <2>5. QED
    BY <1>1, <1>4, <2>1, <2>2, <2>3, <2>4 DEF Records, Owned
<1>5. QED
  BY <1>2, <1>3, <1>4, ExecutionStep

LEMMA OwnedInvariant == Spec => [](Shape /\ Owned)
<1>1. ASSUME Init
      PROVE  Shape /\ Owned
  <2>1. /\ \A n \in Nonce : operation[n] = NoOperation /\ executions[n] = 0
        /\ \A c \in Caller : pc[c] = "idle"
    BY <1>1 DEF Init, ConfirmationInit
  <2>2. QED
    BY <1>1, <2>1, ShapeInitially DEF Owned, Executing
<1>2. Shape /\ Owned /\ [Next]_vars => Shape' /\ Owned'
  BY ShapeStep, OwnedStep
<1>3. QED
  BY <1>1, <1>2, PTL DEF Spec

\* A nonce authorises at most one execution, for any number of calls, however
\* often its rows are purged and issued again.
THEOREM LegacySingleUse == Spec => []SingleUse
<1>1. Shape /\ Owned => SingleUse
  BY DEF Owned, SingleUse
<1>2. QED
  BY <1>1, OwnedInvariant, PTL

LEMMA RecordsStay ==
  ASSUME Shape, Owned, [Next]_vars, NEW n \in Nonce
  PROVE  /\ operation[n] # NoOperation => operation'[n].expires = operation[n].expires
         /\ operation[n].status \in Recorded => operation'[n] = operation[n]
<1>1. nonce \in [Caller -> Nonce] /\ operation \in [Nonce -> OperationRecord]
  BY DEF Shape, CallsTyped, ConfirmationTypeOK
<1>2. CASE Onward
  BY <1>2 DEF Onward
<1>3. CASE \E c \in Caller : Begins(c)
  BY <1>1, <1>3 DEF Begins, CanConsume, NoOperation, Recorded
<1>4. ASSUME NEW c \in Caller, Records(c)
      PROVE  /\ operation'[n].expires = operation[n].expires
             /\ operation[n].status \in Recorded => operation'[n] = operation[n]
  <2>1. operation[nonce[c]] = [expires |-> expiry[c], status |-> "EXECUTING"]
    BY <1>4 DEF Records, Owned, Executing
  <2>2. QED
    BY <1>1, <1>4, <2>1 DEF Records, Recorded
<1>5. QED
  BY <1>2, <1>3, <1>4, ExecutionStep

\* No step takes back the record of an execution, or an outcome in it.
THEOREM LegacyRecordsFinal == Spec => RecordsAreFinal
<1>1. ASSUME Shape, Owned, [Next]_vars
      PROVE  [\A n \in Nonce :
                /\ operation[n] # NoOperation => operation'[n].expires = operation[n].expires
                /\ operation[n].status \in Recorded => operation'[n] = operation[n]]_vars
  BY <1>1, RecordsStay
<1>2. QED
  BY <1>1, OwnedInvariant, PTL DEF Spec, RecordsAreFinal
-----------------------------------------------------------------------------
(* Migration                                                               *)

\* The legacy row of nonce n says at least what row says.
Confirmed(n, row) ==
  row # NoOperation =>
    /\ operation[n].expires = row.expires
    /\ row.status \in Recorded => operation[n] = row

\* What a migrated row says is true; LEGACY_UNKNOWN is said of plans from
\* before the history only.
Faithful(m) ==
  /\ m.expires # 0
  /\ m.status \in Recorded => operation[m.nonce] = [expires |-> m.expires, status |-> m.status]
  /\ m.status = "EXECUTING" => operation[m.nonce].expires = m.expires
  /\ m.status = "LEGACY_UNKNOWN" => m.expires = TTL

\* A consumed plan that was read has its record, also among those read later.
Kept ==
  /\ \A n \in Nonce :
       /\ Confirmed(n, seen.operation[n])
       /\ seen.consumed[n] # 0 => seen.consumed[n] \in {operation[n].expires, TTL}
       /\ mpc = "insert" /\ seen.consumed[n] # 0 =>
            seen.consumed[n] \in {seen.operation[n].expires, TTL}
  /\ \A m \in migrated : Faithful(m)

\* Steps that migrate nothing.
LEMMA KeptByOthers ==
  ASSUME Shape, Owned, CopiesTyped, Kept, [Next]_vars, UNCHANGED migrationVars
  PROVE  Kept'
<1>1. /\ seen' = seen /\ mpc' = mpc /\ migrated' = migrated
      /\ operation \in [Nonce -> OperationRecord] /\ operation' \in [Nonce -> OperationRecord]
  BY ShapeStep DEF migrationVars, Shape, ConfirmationTypeOK
<1>2. \A n \in Nonce : operation[n].expires # 0 <=> operation[n] # NoOperation
  BY <1>1 DEF OperationRecord, NoOperation
<1>3. ASSUME NEW n \in Nonce
      PROVE  /\ Confirmed(n, seen.operation[n])'
             /\ (seen.consumed[n] # 0 => seen.consumed[n] \in {operation[n].expires, TTL})'
  <2>1. seen.operation[n] \in OperationRecord
    BY DEF CopiesTyped, Tables
  <2>2. Confirmed(n, seen.operation[n])
    BY DEF Kept
  <2>3. seen.operation[n] # NoOperation => seen.operation[n].expires # 0
    BY <2>1 DEF OperationRecord, NoOperation
  <2>4. Confirmed(n, seen.operation[n])'
    BY <1>1, <1>2, <2>2, <2>3, RecordsStay DEF Confirmed
  <2>5. seen.consumed[n] # 0 => seen.consumed[n] \in {operation'[n].expires, TTL}
    BY <1>2, RecordsStay DEF Kept
  <2>6. QED
    BY <1>1, <2>4, <2>5
<1>4. ASSUME NEW m \in migrated
      PROVE  Faithful(m)'
  <2>1. m.nonce \in Nonce /\ Faithful(m)
    BY DEF CopiesTyped, Kept
  <2>2. QED
    BY <1>2, <2>1, RecordsStay DEF Faithful
<1>5. QED
  BY <1>1, <1>3, <1>4 DEF Kept

\* Steps that read a table, or insert what they tell.
LEMMA KeptByMigration ==
  ASSUME Shape, CopiesTyped, Kept, Migration
  PROVE  Kept'
<1>1. /\ UNCHANGED <<operation, consumed, issued>>
      /\ seen \in Tables /\ operation \in [Nonce -> OperationRecord]
  BY DEF Migration, ReadIssued, ReadConsumed, ReadOperations, InsertMigrated, confirmationVars,
         CopiesTyped, Shape, ConfirmationTypeOK
<1>2. \A m : Faithful(m)' <=> Faithful(m)
  BY <1>1 DEF Faithful
<1>3. \A n \in Nonce : consumed[n] # 0 => consumed[n] \in {operation[n].expires, TTL}
  BY DEF Shape, Dated
<1>4. CASE ReadIssued
  BY <1>1, <1>2, <1>4 DEF ReadIssued, Kept, Tables, Confirmed
<1>5. CASE ReadConsumed
  BY <1>1, <1>2, <1>3, <1>5 DEF ReadConsumed, Kept, Tables, Confirmed
<1>6. CASE ReadOperations
  BY <1>1, <1>2, <1>6 DEF ReadOperations, Kept, Tables, Confirmed
<1>7. CASE InsertMigrated
  <2>1. ASSUME NEW p \in FoundPlans
        PROVE  Faithful([nonce |-> p[1], expires |-> p[2], status |-> LegacyStatus(p[1], p[2])])
    <3>1. PICK n \in Nonce, e \in Nat \ {0} : p = <<n, e>>
      BY Found
    <3>2. /\ Confirmed(n, seen.operation[n])
          /\ seen.consumed[n] # 0 => seen.consumed[n] \in {seen.operation[n].expires, TTL}
      BY <1>7 DEF Kept, InsertMigrated
    <3>3. CASE seen.operation[n].expires = e
      <4>1. seen.operation[n] # NoOperation /\ seen.operation[n] \in OperationRecord
        BY <1>1, <3>3 DEF NoOperation, Tables
      <4>2. seen.operation[n] = [expires |-> e, status |-> seen.operation[n].status]
        BY <3>3, <4>1 DEF OperationRecord
      <4>3. seen.operation[n].status \in Recorded \cup {"EXECUTING"}
        BY <4>1 DEF OperationRecord
      <4>4. LegacyStatus(n, e) = seen.operation[n].status
        BY <3>3 DEF LegacyStatus
      <4>5. /\ operation[n].expires = e
            /\ seen.operation[n].status \in Recorded => operation[n] = seen.operation[n]
        BY <3>2, <3>3, <4>1 DEF Confirmed
      <4>6. QED
        BY <3>1, <4>2, <4>3, <4>4, <4>5 DEF Faithful, Recorded
    <3>4. CASE seen.operation[n].expires # e
      <4>1. LegacyStatus(n, e) = IF seen.consumed[n] = e THEN "LEGACY_UNKNOWN" ELSE "ISSUED"
        BY <3>4 DEF LegacyStatus
      <4>2. seen.consumed[n] = e => e = TTL
        BY <3>2, <3>4
      <4>3. QED
        BY <3>1, <4>1, <4>2 DEF Faithful, Recorded
    <3>5. QED
      BY <3>3, <3>4
  <2>2. \A m \in migrated' : Faithful(m)
    BY <1>7, <2>1 DEF InsertMigrated, Kept
  <2>3. /\ seen' = NothingSeen /\ mpc' = "idle"
    BY <1>7 DEF InsertMigrated
  <2>4. QED
    BY <1>2, <2>2, <2>3 DEF Kept, NothingSeen, Confirmed
<1>8. QED
  BY <1>4, <1>5, <1>6, <1>7 DEF Migration

LEMMA KeptInvariant == Spec => [](Shape /\ Owned /\ CopiesTyped /\ Kept)
<1>1. ASSUME Init
      PROVE  Kept
  BY <1>1 DEF Init, Kept, NothingSeen, Confirmed
<1>2. ASSUME Shape, Owned, CopiesTyped, Kept, [Next]_vars
      PROVE  Kept'
  <2>1. Migration \/ UNCHANGED migrationVars
    BY <1>2 DEF Next, CallStep, BuildPlan, IssuePrepare, IssuePlan, Confirm, CheckReplayed,
                LoadIssuedPlan, ConsumePrepare, ConsumePlan, ReadTarget, SendDelete,
                ReceiveAnswer, CheckDeleted, RecordWriteOutcome, Die, ServerAnswers,
                ServerAnswersLate, OtherWriter, Tick, vars
  <2>2. QED
    BY <1>2, <2>1, KeptByOthers, KeptByMigration
<1>3. QED
  BY <1>1, <1>2, ShapeInvariant, OwnedInvariant, PTL DEF Spec

\* However confirm calls go on while the three tables are read one after the
\* other, no migrated row says more than the legacy row it was copied from.
THEOREM LegacyMigrationTruthful == Spec => []MigratedTruthful
<1>1. ASSUME Shape, CopiesTyped, Kept
      PROVE  MigratedTruthful
  <2>1. ASSUME NEW m \in migrated
        PROVE  /\ m.nonce \in Nonce /\ Faithful(m)
               /\ operation[m.nonce].expires # TTL
    <3>1. m.nonce \in Nonce /\ Faithful(m)
      BY <1>1 DEF CopiesTyped, Kept
    <3>2. operation[m.nonce] = NoOperation \/ operation[m.nonce].expires > TTL
      BY <1>1, <3>1 DEF Shape, Dated
    <3>3. QED
      BY <3>1, <3>2, TTLAssumption DEF NoOperation
  <2>2. QED
    BY <2>1 DEF MigratedTruthful, Faithful
<1>2. QED
  BY <1>1, KeptInvariant, PTL
-----------------------------------------------------------------------------
(* Evidence                                                                *)

\* Steps of a call outside its execution, those that end it included.
LEMMA OutsideStep ==
  ASSUME Shape, NEW c \in Caller, CallStep(c),
         ~(ReadTarget(c) \/ SendDelete(c) \/ ReceiveAnswer(c) \/ CheckDeleted(c)),
         ~(ConsumePlan(c) /\ CanConsume(nonce[c], expiry[c], clock[c]))
  PROVE  /\ UNCHANGED <<gone, present, removed, recreated>>
         /\ late' = late \/ Die(c)
         /\ \A d \in Caller : pc'[d] \in Executing =>
              /\ pc'[d] = pc[d] /\ nonce'[d] = nonce[d] /\ results'[d] = results[d]
              /\ outcome'[d] = outcome[d] /\ request'[d] = request[d]
<1>1. CallsTyped
  BY DEF Shape
<1>2. UNCHANGED <<gone, present, removed, recreated>> /\ (late' = late \/ Die(c))
  BY DEF CallStep, BuildPlan, IssuePrepare, IssuePlan, Confirm, CheckReplayed, LoadIssuedPlan,
         ConsumePrepare, ConsumePlan, RecordWriteOutcome, Die, graphVars, historyVars
<1>3. \/ Return(c)
      \/ \E label \in {"insert", "load", "prepare"} : Continue(c, label)
      \/ /\ pc' = [pc EXCEPT ![c] = "issue"] \/ pc' = [pc EXCEPT ![c] = "replay"]
         /\ UNCHANGED <<results, outcome, request>>
         /\ \A d \in Caller \ {c} : nonce'[d] = nonce[d]
      \/ pc' = [pc EXCEPT ![c] = "consume"] /\ UNCHANGED <<nonce, results, outcome, request>>
  BY <1>1 DEF CallStep, BuildPlan, IssuePrepare, IssuePlan, Confirm, CheckReplayed,
              LoadIssuedPlan, ConsumePrepare, ConsumePlan, RecordWriteOutcome, Die,
              StepOrReturn, Continue, Goto, CallsTyped
<1>4. QED
  BY <1>1, <1>2, <1>3 DEF Return, Continue, Goto, CallsTyped, Executing

\* What an operation that ends does to a call.
LEMMA OperationEnds ==
  ASSUME Shape, NEW c \in Caller, pc[c] \in Working,
         NEW s \in Success \cup {"REJECTED", "UNKNOWN"}
  PROVE  /\ Fail(c, s) =>
              /\ pc' = [pc EXCEPT ![c] = "record"]
              /\ results' = [results EXCEPT ![c] = <<>>]
              /\ \A d \in Caller \ {c} : outcome'[d] = outcome[d]
              /\ outcome'[c] \in Success => s \in Success
              /\ outcome'[c] = "REJECTED" => results[c] = <<>> /\ s = "REJECTED"
         /\ Succeed(c, s) =>
              \/ /\ Len(results[c]) + 1 < NumOps
                 /\ pc' = [pc EXCEPT ![c] = "read"]
                 /\ results' = [results EXCEPT ![c] = Append(results[c], s)]
                 /\ outcome' = outcome
              \/ Len(results[c]) + 1 = NumOps /\ Fail(c, s)
<1>1. /\ CallsTyped /\ results[c] \in Seq(Success) /\ Len(results[c]) \in Nat
      /\ Len(results[c]) < NumOps
  BY DEF Shape, CallsTyped, Located
<1>2. /\ AggregatePlanStatus(Append(results[c], s)) \in Success => s \in Success
      /\ AggregatePlanStatus(Append(results[c], s)) = "REJECTED" =>
           results[c] = <<>> /\ s = "REJECTED"
  BY <1>1, ExecutionStatus
<1>3. Fail(c, s) => outcome' = [outcome EXCEPT ![c] = AggregatePlanStatus(Append(results[c], s))]
  BY DEF Fail
<1>4. QED
  BY <1>1, <1>2, <1>3, PlanAssumption DEF Fail, Succeed, Goto, Current, CallsTyped

\* While a plan is executed, its nonce is taken.
LEMMA Occupied ==
  ASSUME Owned, NEW c \in Caller, pc[c] \in Executing
  PROVE  operation[nonce[c]].status = "EXECUTING" /\ operation[nonce[c]] # NoOperation
<1>1. operation[nonce[c]] = [expires |-> expiry[c], status |-> "EXECUTING"]
  BY DEF Owned
<1>2. operation[nonce[c]].status = "EXECUTING"
  BY <1>1
<1>3. QED
  BY <1>2 DEF NoOperation

\* What an execution counts as done was absent at some time since it began.
Witnessed ==
  /\ \A n \in Nonce :
       /\ operation[n] # NoOperation => Op \ present \subseteq gone[n]
       /\ operation[n].status \in Success => gone[n] = Op
  /\ \A c \in Caller :
       /\ pc[c] \in Working => 1 .. Len(results[c]) \subseteq gone[nonce[c]]
       /\ pc[c] = "record" /\ outcome[c] \in Success => gone[nonce[c]] = Op

\* The operation at hand succeeds only if its edge is absent.
LEMMA WitnessedExecution ==
  ASSUME Shape, Owned, Witnessed, NEW c \in Caller,
         ReadTarget(c) \/ SendDelete(c) \/ ReceiveAnswer(c) \/ CheckDeleted(c)
  PROVE  Witnessed'
<1>1. /\ pc[c] \in Working /\ UNCHANGED <<operation, gone, present, nonce>>
  BY DEF ReadTarget, SendDelete, ReceiveAnswer, CheckDeleted, Working, confirmationVars,
         graphVars, historyVars
<1>2. /\ CallsTyped /\ gone \in [Nonce -> SUBSET Op] /\ Current(c) \in Op
      /\ results[c] \in Seq(Success) /\ Len(results[c]) \in Nat /\ Current(c) = Len(results[c]) + 1
      /\ nonce[c] \in Nonce
  <2>1. CallsTyped /\ RestTyped /\ Len(results[c]) < NumOps
    BY <1>1 DEF Shape, Located
  <2>2. results[c] \in Seq(Success) /\ Len(results[c]) \in Nat
    BY <2>1 DEF CallsTyped
  <2>3. QED
    BY <2>1, <2>2, PlanAssumption DEF CallsTyped, RestTyped, Current, Op
<1>3. Current(c) \notin present => Current(c) \in gone[nonce[c]]
  <2>1. operation[nonce[c]] # NoOperation
    BY <1>1, Occupied DEF Executing, Working
  <2>2. QED
    BY <1>2, <2>1 DEF Witnessed
<1>4. \/ \E s \in {"REJECTED", "UNKNOWN"} : Fail(c, s)
      \/ \E s \in Success : Current(c) \notin present /\ Succeed(c, s)
      \/ /\ UNCHANGED <<results, outcome>>
         /\ \E label \in Working : pc' = [pc EXCEPT ![c] = label]
  BY DEF ReadTarget, SendDelete, ReceiveAnswer, CheckDeleted, Verify, Indeterminate, Success,
         Goto, Working
<1>5. \A d \in Caller \ {c} :
        pc'[d] = pc[d] /\ results'[d] = results[d] /\ outcome'[d] = outcome[d]
  BY <1>1, <1>2, <1>4, OperationEnds DEF CallsTyped
<1>6. /\ pc'[c] \in Working => 1 .. Len(results'[c]) \subseteq gone[nonce[c]]
      /\ pc'[c] = "record" /\ outcome'[c] \in Success => gone[nonce[c]] = Op
  <2>1. 1 .. Len(results[c]) \subseteq gone[nonce[c]]
    BY <1>1 DEF Witnessed
  <2>2. CASE \E s \in {"REJECTED", "UNKNOWN"} : Fail(c, s)
    BY <1>1, <1>2, <2>2, OperationEnds DEF CallsTyped, Success, Working
  <2>3. ASSUME NEW s \in Success, Current(c) \notin present, Succeed(c, s)
        PROVE  /\ pc'[c] \in Working => 1 .. Len(results'[c]) \subseteq gone[nonce[c]]
               /\ pc'[c] = "record" /\ outcome'[c] \in Success => gone[nonce[c]] = Op
    <3>1. 1 .. Len(results[c]) + 1 \subseteq gone[nonce[c]]
      BY <1>2, <1>3, <2>1, <2>3
    <3>2. CASE /\ pc' = [pc EXCEPT ![c] = "read"]
               /\ results' = [results EXCEPT ![c] = Append(results[c], s)]
      <4>1. pc'[c] = "read" /\ Len(results'[c]) = Len(results[c]) + 1
        BY <1>2, <3>2 DEF CallsTyped
      <4>2. QED
        BY <3>1, <4>1
    <3>3. CASE Len(results[c]) + 1 = NumOps /\ Fail(c, s)
      <4>1. Op \subseteq gone[nonce[c]] /\ gone[nonce[c]] \subseteq Op
        BY <1>2, <3>1, <3>3 DEF Op
      <4>2. pc'[c] = "record"
        BY <1>1, <1>2, <3>3, OperationEnds DEF CallsTyped
      <4>3. QED
        BY <4>1, <4>2 DEF Working
    <3>4. QED
      BY <1>1, <2>3, <3>2, <3>3, OperationEnds
  <2>4. CASE /\ UNCHANGED <<results, outcome>>
             /\ \E label \in Working : pc' = [pc EXCEPT ![c] = label]
    BY <1>1, <1>2, <2>1, <2>4 DEF CallsTyped, Working
  <2>5. QED
    BY <1>4, <2>2, <2>3, <2>4
<1>7. QED
  BY <1>1, <1>5, <1>6 DEF Witnessed

\* A step outside any execution, or one that records an outcome.
LEMMA WitnessedOutside ==
  ASSUME Shape, Owned, Witnessed, [Next]_vars, NEW c \in Caller, CallStep(c),
         ~(ReadTarget(c) \/ SendDelete(c) \/ ReceiveAnswer(c) \/ CheckDeleted(c)),
         ~(ConsumePlan(c) /\ CanConsume(nonce[c], expiry[c], clock[c]))
  PROVE  Witnessed'
<1>1. /\ UNCHANGED <<gone, present>>
      /\ \A d \in Caller : pc'[d] \in Executing =>
           /\ pc'[d] = pc[d] /\ nonce'[d] = nonce[d] /\ results'[d] = results[d]
           /\ outcome'[d] = outcome[d]
  BY OutsideStep
<1>2. \A d \in Caller : pc'[d] \in Working \/ pc'[d] = "record" => pc'[d] \in Executing
  BY DEF Working, Executing
<1>3. operation' = operation \/ \E d \in Caller : Records(d)
  BY <1>1, ExecutionStep DEF Onward, Begins, Shape, CallsTyped, Executing
<1>4. \A n \in Nonce :
        /\ operation'[n] # NoOperation => Op \ present' \subseteq gone'[n]
        /\ operation'[n].status \in Success => gone'[n] = Op
  <2>1. CASE operation' = operation
    BY <1>1, <2>1 DEF Witnessed
  <2>2. ASSUME NEW d \in Caller, Records(d)
        PROVE  \A n \in Nonce :
                 /\ operation'[n] # NoOperation => Op \ present' \subseteq gone'[n]
                 /\ operation'[n].status \in Success => gone'[n] = Op
    <3>1. /\ operation \in [Nonce -> OperationRecord] /\ nonce[d] \in Nonce
          /\ pc[d] = "record"
          /\ operation' = [operation EXCEPT ![nonce[d]].status = outcome[d]]
      BY <2>2 DEF Records, Shape, ConfirmationTypeOK, CallsTyped
    <3>2. operation[nonce[d]] = [expires |-> expiry[d], status |-> "EXECUTING"]
      BY <3>1 DEF Owned, Executing
    <3>3. operation'[nonce[d]].status = outcome[d]
      BY <3>1, <3>2
    <3>4. \A n \in Nonce : n # nonce[d] => operation'[n] = operation[n]
      BY <3>1
    <3>5. operation[nonce[d]] # NoOperation /\ (outcome[d] \in Success => gone[nonce[d]] = Op)
      BY <3>1, Occupied DEF Executing, Witnessed
    <3>6. QED
      BY <1>1, <3>3, <3>4, <3>5 DEF Witnessed
  <2>3. QED
    BY <1>3, <2>1, <2>2
<1>5. QED
  BY <1>1, <1>2, <1>4 DEF Witnessed

\* The step that begins an execution.
LEMMA WitnessedBegin ==
  ASSUME Shape, Owned, Witnessed, NEW c \in Caller, ConsumePlan(c),
         CanConsume(nonce[c], expiry[c], clock[c])
  PROVE  Witnessed'
<1> DEFINE m == nonce[c]
<1>1. /\ operation' = [operation EXCEPT ![m] = [expires |-> expiry[c], status |-> "EXECUTING"]]
      /\ gone' = [gone EXCEPT ![m] = Op \ present]
      /\ pc' = [pc EXCEPT ![c] = "read"] /\ pc[c] = "consume"
      /\ UNCHANGED <<present, nonce, results, outcome>>
  BY DEF ConsumePlan, StepOrReturn, Consume, Goto, graphVars
<1>2. CallsTyped /\ gone \in [Nonce -> SUBSET Op] /\ operation \in [Nonce -> OperationRecord]
  BY DEF Shape, RestTyped, ConfirmationTypeOK
<1>3. m \in Nonce /\ results[c] = <<>>
  BY <1>1, <1>2 DEF Shape, Located, CallsTyped, Working
<1>4. \A d \in Caller : pc[d] \in Executing => nonce[d] # m
  <2>1. operation[m] = NoOperation
    BY DEF CanConsume
  <2>2. QED
    BY <2>1, Occupied
<1>5. /\ operation'[m].status \notin Success /\ gone'[m] = Op \ present
      /\ \A n \in Nonce \ {m} : operation'[n] = operation[n] /\ gone'[n] = gone[n]
  BY <1>1, <1>2, <1>3 DEF Success
<1>6. \A d \in Caller \ {c} : pc'[d] = pc[d] /\ (pc[d] \in Executing => gone'[nonce[d]] = gone[nonce[d]])
  BY <1>1, <1>2, <1>4, <1>5 DEF CallsTyped
<1>7. pc'[c] = "read" /\ 1 .. Len(results[c]) = {}
  BY <1>1, <1>2, <1>3 DEF CallsTyped
<1>8. \A n \in Nonce :
        /\ operation'[n] # NoOperation => Op \ present' \subseteq gone'[n]
        /\ operation'[n].status \in Success => gone'[n] = Op
  BY <1>1, <1>5 DEF Witnessed
<1>9. \A d \in Caller :
        /\ pc'[d] \in Working => 1 .. Len(results'[d]) \subseteq gone'[nonce'[d]]
        /\ pc'[d] = "record" /\ outcome'[d] \in Success => gone'[nonce'[d]] = Op
  BY <1>1, <1>6, <1>7 DEF Witnessed, Working, Executing
<1>10. QED
  BY <1>8, <1>9 DEF Witnessed

\* Edges go, for every plan alike, or come back.
LEMMA WitnessedWorld ==
  ASSUME Shape, Witnessed,
         \/ \E c \in Caller : ServerAnswers(c)
         \/ \E n \in Nonce, o \in Op : ServerAnswersLate(n, o)
         \/ \E o \in Shared : OtherWriter(o)
         \/ Tick \/ Migration \/ UNCHANGED vars
  PROVE  Witnessed'
<1>1. UNCHANGED <<operation, pc, nonce, results, outcome>>
  BY DEF ServerAnswers, ServerAnswersLate, OtherWriter, Tick, Migration, ReadIssued,
         ReadConsumed, ReadOperations, InsertMigrated, vars, callVars, confirmationVars
<1>2. gone \in [Nonce -> SUBSET Op] /\ nonce \in [Caller -> Nonce]
  BY DEF Shape, RestTyped, CallsTyped
<1>3. \/ UNCHANGED <<present, gone>>
      \/ \E o \in Op : /\ present' = present \ {o}
                       /\ gone' = [n \in Nonce |-> gone[n] \cup {o}]
      \/ \E o \in Op : present' = present \cup {o} /\ gone' = gone
  <2>1. ASSUME NEW c \in Caller, ServerAnswers(c)
        PROVE  \/ UNCHANGED <<present, gone>>
               \/ \E o \in Op : /\ present' = present \ {o}
                                /\ gone' = [n \in Nonce |-> gone[n] \cup {o}]
    <3>1. Len(results[c]) \in Nat /\ Len(results[c]) < NumOps
      BY <2>1 DEF Shape, CallsTyped, Located, ServerAnswers, Working
    <3>2. Current(c) \in Op
      BY <3>1, PlanAssumption DEF Current, Op
    <3>3. QED
      BY <2>1, <3>2 DEF ServerAnswers, Remove
  <2>2. QED
    BY <2>1, CallerAssumption DEF ServerAnswersLate, Remove, OtherWriter, Tick, Migration,
         ReadIssued, ReadConsumed, ReadOperations, InsertMigrated, vars, graphVars, historyVars
<1>4. \A n \in Nonce : /\ gone[n] \subseteq gone'[n] /\ gone'[n] \subseteq Op
                       /\ Op \ present' \subseteq gone'[n] \cup (Op \ present)
  BY <1>2, <1>3
<1>5. \A n \in Nonce : /\ Op \ present \subseteq gone[n] => Op \ present' \subseteq gone'[n]
                       /\ gone[n] = Op => gone'[n] = Op
                       /\ \A S : S \subseteq gone[n] => S \subseteq gone'[n]
  BY <1>4
<1>6. \A n \in Nonce :
        /\ operation'[n] # NoOperation => Op \ present' \subseteq gone'[n]
        /\ operation'[n].status \in Success => gone'[n] = Op
  BY <1>1, <1>5 DEF Witnessed
<1>7. \A c \in Caller :
        /\ pc'[c] \in Working => 1 .. Len(results'[c]) \subseteq gone'[nonce'[c]]
        /\ pc'[c] = "record" /\ outcome'[c] \in Success => gone'[nonce'[c]] = Op
  BY <1>1, <1>2, <1>5 DEF Witnessed
<1>8. QED
  BY <1>6, <1>7 DEF Witnessed

LEMMA WitnessedStep ==
  ASSUME Shape, Owned, Witnessed, [Next]_vars
  PROVE  Witnessed'
<1>1. ASSUME NEW c \in Caller, CallStep(c)
      PROVE  Witnessed'
  <2>1. CASE ReadTarget(c) \/ SendDelete(c) \/ ReceiveAnswer(c) \/ CheckDeleted(c)
    BY <2>1, WitnessedExecution
  <2>2. CASE ConsumePlan(c) /\ CanConsume(nonce[c], expiry[c], clock[c])
    BY <2>2, WitnessedBegin
  <2>3. QED
    BY <1>1, <2>1, <2>2, WitnessedOutside
<1>2. QED
  BY <1>1, WitnessedWorld DEF Next

LEMMA WitnessedInvariant == Spec => [](Shape /\ Owned /\ Witnessed)
<1>1. ASSUME Init
      PROVE  Witnessed
  BY <1>1 DEF Init, ConfirmationInit, Witnessed, NoOperation, Success, Working
<1>2. Shape /\ Owned /\ Witnessed /\ [Next]_vars => Witnessed'
  BY WitnessedStep
<1>3. QED
  BY <1>1, <1>2, OwnedInvariant, PTL DEF Spec

\* A recorded success is real for any number of calls, whatever other writers
\* and late requests do to the edges.
THEOREM LegacyOutcomeProven == Spec => []OutcomeProven
<1>1. Witnessed => OutcomeProven
  BY DEF Witnessed, OutcomeProven
<1>2. QED
  BY <1>1, WitnessedInvariant, PTL
-----------------------------------------------------------------------------
(* Denials                                                                 *)

Untaken(n) == recreated \/ \A o \in Op : <<n, o>> \notin removed \cup late

\* Call c may still say REJECTED, or has deleted the first edge, which is gone.
MayDeny(c) ==
  \/ Untaken(nonce[c])
  \/ (pc[c] = "check" \/ request[c] = "committed") /\ 1 \notin present

\* What an execution may still deny has taken nothing away.
Untouched ==
  /\ \A n \in Nonce : operation[n].status \in {"NONE", "REJECTED"} => Untaken(n)
  /\ \A c \in Caller :
       /\ pc[c] = "record" /\ outcome[c] = "REJECTED" => Untaken(nonce[c])
       /\ pc[c] \in Working /\ results[c] = <<>> => MayDeny(c)

\* The operation at hand is denied only if its edge is there, or its request
\* was refused or never sent.
LEMMA UntouchedExecution ==
  ASSUME Shape, Owned, Untouched, NEW c \in Caller,
         ReadTarget(c) \/ SendDelete(c) \/ ReceiveAnswer(c) \/ CheckDeleted(c)
  PROVE  Untouched'
<1>1. /\ pc[c] \in Working /\ UNCHANGED <<operation, present, nonce, removed, recreated>>
      /\ late' = late \/ (late' = late \cup {<<nonce[c], Current(c)>>} /\ ReceiveAnswer(c))
  BY DEF ReadTarget, SendDelete, ReceiveAnswer, CheckDeleted, Working, confirmationVars,
         graphVars, historyVars, Abandoned
<1>2. CallsTyped /\ nonce[c] \in Nonce /\ pc[c] \in Executing
  BY <1>1 DEF Shape, CallsTyped, Working, Executing
<1>3. \A n \in Nonce : n # nonce[c] \/ late' = late => (Untaken(n) => Untaken(n)')
  BY <1>1 DEF Untaken
<1>4. \A d \in Caller \ {c} :
        /\ pc'[d] = pc[d] /\ results'[d] = results[d] /\ outcome'[d] = outcome[d]
        /\ request'[d] = request[d]
  BY <1>1, <1>2, OperationEnds
     DEF ReadTarget, SendDelete, ReceiveAnswer, CheckDeleted, Verify, Indeterminate, Success,
         Goto, CallsTyped
<1>5. \A n \in Nonce : operation'[n].status \in {"NONE", "REJECTED"} => Untaken(n)'
  <2>1. operation[nonce[c]].status = "EXECUTING"
    BY <1>2, Occupied
  <2>2. QED
    BY <1>1, <1>3, <2>1 DEF Untouched
<1>6. \A d \in Caller \ {c} :
        /\ pc'[d] = "record" /\ outcome'[d] = "REJECTED" => Untaken(nonce[d])'
        /\ pc'[d] \in Working /\ results'[d] = <<>> => MayDeny(d)'
  <2>1. \A d \in Caller \ {c} : pc[d] \in Executing => nonce[d] # nonce[c] /\ nonce[d] \in Nonce
    BY <1>2 DEF Owned, CallsTyped
  <2>2. QED
    BY <1>1, <1>3, <1>4, <2>1 DEF Untouched, MayDeny, Working, Executing
<1>7. /\ pc'[c] = "record" /\ outcome'[c] = "REJECTED" => Untaken(nonce[c])'
      /\ pc'[c] \in Working /\ results'[c] = <<>> => MayDeny(c)'
  <2>1. /\ results[c] = <<>> => MayDeny(c)
        /\ request[c] # "none" => pc[c] = "wait"
        /\ Current(c) = 1 \/ results[c] # <<>>
    BY <1>1 DEF Untouched, Shape, Located, Current
  <2>2. ASSUME NEW s \in Success \cup {"UNKNOWN"}, Fail(c, s) \/ Succeed(c, s)
        PROVE  /\ pc'[c] = "record" /\ outcome'[c] = "REJECTED" => Untaken(nonce[c])'
               /\ pc'[c] \in Working /\ results'[c] = <<>> => MayDeny(c)'
    <3>1. s # "REJECTED" /\ s \in Success \cup {"REJECTED", "UNKNOWN"}
      BY DEF Success
    <3>2. Fail(c, s) => pc'[c] = "record" /\ outcome'[c] # "REJECTED"
      BY <1>1, <1>2, <3>1, OperationEnds DEF CallsTyped
    <3>3. CASE Fail(c, s)
      BY <3>2, <3>3 DEF Working
    <3>4. CASE /\ pc' = [pc EXCEPT ![c] = "read"]
               /\ results' = [results EXCEPT ![c] = Append(results[c], s)]
      <4>1. pc'[c] = "read" /\ results'[c] = Append(results[c], s)
        BY <1>2, <3>4 DEF CallsTyped
      <4>2. results[c] \in Seq(Success)
        BY <1>2 DEF CallsTyped
      <4>3. Append(results[c], s) # <<>>
        BY <4>2
      <4>4. QED
        BY <4>1, <4>3
    <3>5. QED
      BY <1>1, <2>2, <3>1, <3>3, <3>4, OperationEnds
  <2>3. ASSUME Fail(c, "REJECTED"), late' = late, results[c] = <<>> => Untaken(nonce[c])
        PROVE  /\ pc'[c] = "record" /\ outcome'[c] = "REJECTED" => Untaken(nonce[c])'
               /\ pc'[c] \in Working /\ results'[c] = <<>> => MayDeny(c)'
    <3>1. pc'[c] = "record" /\ (outcome'[c] = "REJECTED" => results[c] = <<>>)
      BY <1>1, <1>2, <2>3, OperationEnds DEF CallsTyped
    <3>2. QED
      BY <1>1, <2>3, <3>1 DEF Working, Untaken
  <2>4. ASSUME UNCHANGED <<results, late>>, pc'[c] \in Working,
               results[c] = <<>> => Untaken(nonce[c]) \/ (pc'[c] = "check" /\ 1 \notin present)
        PROVE  /\ pc'[c] = "record" /\ outcome'[c] = "REJECTED" => Untaken(nonce[c])'
               /\ pc'[c] \in Working /\ results'[c] = <<>> => MayDeny(c)'
    BY <1>1, <1>2, <1>3, <2>4 DEF MayDeny, Working
  <2>5. CASE ReadTarget(c)
    <3>1. late' = late /\ (results[c] = <<>> => Untaken(nonce[c]))
      BY <2>1, <2>5 DEF ReadTarget, MayDeny, graphVars
    <3>2. \/ Fail(c, "REJECTED") \/ Succeed(c, "ALREADY_APPLIED")
          \/ pc'[c] = "send" /\ UNCHANGED results
      BY <1>2, <2>5 DEF ReadTarget, Goto, CallsTyped
    <3>3. QED
      BY <2>2, <2>3, <2>4, <3>1, <3>2 DEF Success, Working
  <2>6. CASE SendDelete(c)
    <3>1. late' = late /\ (results[c] = <<>> => Untaken(nonce[c]))
      BY <2>1, <2>6 DEF SendDelete, MayDeny, graphVars
    <3>2. Fail(c, "REJECTED") \/ (pc'[c] = "wait" /\ UNCHANGED results)
      BY <1>2, <2>6 DEF SendDelete, Goto, CallsTyped
    <3>3. QED
      BY <2>3, <2>4, <3>1, <3>2 DEF Working
  <2>7. CASE ReceiveAnswer(c)
    <3>1. \/ pc'[c] = "check" /\ UNCHANGED <<results, late>>
          \/ request[c] = "refused" /\ Fail(c, "REJECTED") /\ late' = late
          \/ Fail(c, "UNKNOWN")
      BY <1>2, <2>7 DEF ReceiveAnswer, Indeterminate, Goto, CallsTyped
    <3>2. pc[c] = "wait"
      BY <2>7 DEF ReceiveAnswer
    <3>3. QED
      BY <2>1, <2>2, <2>3, <2>4, <3>1, <3>2 DEF MayDeny, Working
  <2>8. CASE CheckDeleted(c)
    <3>1. late' = late
      BY <2>8 DEF CheckDeleted, graphVars
    <3>2. Fail(c, "UNKNOWN") \/ Succeed(c, "APPLIED")
            \/ (Current(c) \in present /\ Fail(c, "REJECTED"))
      BY <2>8 DEF CheckDeleted, Verify
    <3>3. Current(c) \in present => (results[c] = <<>> => Untaken(nonce[c]))
      BY <2>1 DEF MayDeny
    <3>4. QED
      BY <2>2, <2>3, <3>1, <3>2, <3>3 DEF Success
  <2>9. QED
    BY <2>5, <2>6, <2>7, <2>8
<1>8. QED
  BY <1>1, <1>5, <1>6, <1>7 DEF Untouched

\* A call that dies leaves its request to a plan that is never recorded.
LEMMA UntouchedOutside ==
  ASSUME Shape, Owned, Untouched, [Next]_vars, NEW c \in Caller, CallStep(c),
         ~(ReadTarget(c) \/ SendDelete(c) \/ ReceiveAnswer(c) \/ CheckDeleted(c)),
         ~(ConsumePlan(c) /\ CanConsume(nonce[c], expiry[c], clock[c]))
  PROVE  Untouched'
<1>1. /\ UNCHANGED <<present, removed, recreated>>
      /\ late' = late \/ Die(c)
      /\ \A d \in Caller : pc'[d] \in Executing =>
           /\ pc'[d] = pc[d] /\ nonce'[d] = nonce[d] /\ results'[d] = results[d]
           /\ outcome'[d] = outcome[d] /\ request'[d] = request[d]
  BY OutsideStep
<1>2. CallsTyped /\ operation \in [Nonce -> OperationRecord]
  BY DEF Shape, ConfirmationTypeOK
<1>3. CASE late' = late
  <2>1. \A n \in Nonce : Untaken(n) => Untaken(n)'
    BY <1>1, <1>3 DEF Untaken
  <2>2. \A d \in Caller : pc'[d] \in Executing => (Untaken(nonce[d]) => Untaken(nonce[d])')
    BY <1>1, <1>3 DEF Untaken
  <2>3. \A n \in Nonce : operation'[n].status \in {"NONE", "REJECTED"} => Untaken(n)'
    <3>1. operation' = operation \/ \E d \in Caller : Records(d)
      BY <1>1, <1>2, ExecutionStep DEF Onward, Begins, CallsTyped, Executing
    <3>2. ASSUME NEW d \in Caller, Records(d), NEW n \in Nonce,
                 operation'[n].status \in {"NONE", "REJECTED"}
          PROVE  Untaken(n)'
      <4>1. /\ nonce[d] \in Nonce /\ pc[d] = "record" /\ outcome[d] \in Recorded
            /\ operation' = [operation EXCEPT ![nonce[d]].status = outcome[d]]
        BY <1>2, <3>2 DEF Records, CallsTyped
      <4>2. operation[nonce[d]] = [expires |-> expiry[d], status |-> "EXECUTING"]
        BY <4>1 DEF Owned, Executing
      <4>3. operation'[nonce[d]].status = outcome[d]
        BY <1>2, <4>1, <4>2
      <4>4. n # nonce[d] => operation'[n] = operation[n]
        BY <1>2, <4>1
      <4>5. n = nonce[d] => outcome[d] = "REJECTED"
        BY <3>2, <4>1, <4>3 DEF Recorded
      <4>6. Untaken(n)
        BY <3>2, <4>1, <4>4, <4>5 DEF Untouched
      <4>7. QED
        BY <2>1, <4>6
    <3>3. QED
      BY <2>1, <3>1, <3>2 DEF Untouched
  <2>4. QED
    BY <1>1, <2>2, <2>3 DEF Untouched, MayDeny, Working, Executing
<1>4. CASE Die(c) /\ late' # late
  <2>1. /\ pc[c] = "wait" /\ nonce[c] \in Nonce /\ pc'[c] = "idle" /\ operation' = operation
        /\ late' = late \cup {<<nonce[c], Current(c)>>}
    BY <1>2, <1>4 DEF Die, Abandoned, Return, Goto, Shape, Located, CallsTyped, confirmationVars
  <2>2. \A n \in Nonce : n # nonce[c] => (Untaken(n) => Untaken(n)')
    BY <1>1, <2>1 DEF Untaken
  <2>3. \A d \in Caller : pc'[d] \in Executing =>
          /\ pc[d] \in Executing /\ nonce[d] # nonce[c]
          /\ Untaken(nonce[d]) => Untaken(nonce[d])'
    <3>1. ASSUME NEW d \in Caller, pc'[d] \in Executing
          PROVE  /\ pc[d] \in Executing /\ nonce[d] # nonce[c] /\ nonce'[d] = nonce[d]
      BY <1>1, <2>1, <3>1 DEF Owned, Executing
    <3>2. QED
      BY <1>1, <2>1, <3>1 DEF Untaken
  <2>4. \A n \in Nonce : operation'[n].status \in {"NONE", "REJECTED"} => Untaken(n)'
    <3>1. operation[nonce[c]].status = "EXECUTING"
      BY <2>1, Occupied DEF Executing
    <3>2. QED
      BY <2>1, <2>2, <3>1 DEF Untouched
  <2>5. QED
    BY <1>1, <2>3, <2>4 DEF Untouched, MayDeny, Working, Executing
<1>5. QED
  BY <1>1, <1>3, <1>4

LEMMA UntouchedBegin ==
  ASSUME Shape, Owned, Untouched, NEW c \in Caller, ConsumePlan(c),
         CanConsume(nonce[c], expiry[c], clock[c])
  PROVE  Untouched'
<1>1. /\ operation' = [operation EXCEPT ![nonce[c]] = [expires |-> expiry[c], status |-> "EXECUTING"]]
      /\ pc' = [pc EXCEPT ![c] = "read"] /\ operation[nonce[c]] = NoOperation
      /\ UNCHANGED <<present, late, removed, recreated, nonce, results, outcome, request>>
  BY DEF ConsumePlan, StepOrReturn, Consume, CanConsume, Goto, graphVars
<1>2. CallsTyped /\ nonce[c] \in Nonce /\ operation \in [Nonce -> OperationRecord]
  BY DEF Shape, CallsTyped, ConfirmationTypeOK
<1>3. Untaken(nonce[c])
  BY <1>1, <1>2 DEF Untouched, NoOperation
<1>4. \A n \in Nonce : /\ Untaken(n) => Untaken(n)'
                       /\ operation'[n] = operation[n] \/ operation'[n].status = "EXECUTING"
  BY <1>1, <1>2 DEF Untaken
<1>5. \A d \in Caller : /\ Untaken(nonce[d]) => Untaken(nonce[d])'
                        /\ d # c => pc'[d] = pc[d]
  BY <1>1, <1>2 DEF Untaken, CallsTyped
<1>6. pc'[c] = "read"
  BY <1>1, <1>2 DEF CallsTyped
<1>7. QED
  BY <1>1, <1>3, <1>4, <1>5, <1>6 DEF Untouched, MayDeny

\* The server carries requests out, now or late, and other writers put back.
LEMMA UntouchedWorld ==
  ASSUME Shape, Owned, Untouched,
         \/ \E c \in Caller : ServerAnswers(c)
         \/ \E n \in Nonce, o \in Op : ServerAnswersLate(n, o)
         \/ \E o \in Shared : OtherWriter(o)
         \/ Tick \/ Migration \/ UNCHANGED vars
  PROVE  Untouched'
<1>1. UNCHANGED <<operation, pc, nonce, results, outcome>>
  BY DEF ServerAnswers, ServerAnswersLate, OtherWriter, Tick, Migration, ReadIssued,
         ReadConsumed, ReadOperations, InsertMigrated, vars, callVars, confirmationVars
<1>2. CallsTyped
  BY DEF Shape
<1>3. ASSUME NEW c \in Caller, ServerAnswers(c)
      PROVE  Untouched'
  <2>1. pc[c] = "wait" /\ nonce[c] \in Nonce /\ request[c] = "pending"
    BY <1>2, <1>3 DEF ServerAnswers, Shape, Located, CallsTyped
  <2>2. /\ UNCHANGED <<late, recreated>> /\ present' \subseteq present
        /\ removed' \subseteq removed \cup {<<nonce[c], Current(c)>>}
        /\ \A d \in Caller \ {c} : request'[d] = request[d]
        /\ \/ request'[c] = "committed" /\ Current(c) \notin present'
           \/ UNCHANGED removed
    BY <1>2, <1>3 DEF ServerAnswers, Remove, CallsTyped
  <2>3. \A n \in Nonce : n # nonce[c] \/ UNCHANGED removed => (Untaken(n) => Untaken(n)')
    BY <2>2 DEF Untaken
  <2>4. \A d \in Caller : pc[d] \in Executing /\ d # c =>
          /\ nonce[d] # nonce[c]
          /\ Untaken(nonce[d]) => Untaken(nonce[d])'
    <3>1. \A d \in Caller : pc[d] \in Executing /\ d # c => nonce[d] # nonce[c]
      BY <2>1 DEF Owned, Executing
    <3>2. QED
      BY <1>1, <2>2, <3>1 DEF Untaken
  <2>5. \A n \in Nonce : operation'[n].status \in {"NONE", "REJECTED"} => Untaken(n)'
    <3>1. operation[nonce[c]].status = "EXECUTING"
      BY <2>1, Occupied DEF Executing
    <3>2. QED
      BY <1>1, <2>3, <3>1 DEF Untouched
  <2>6. results[c] = <<>> => MayDeny(c)'
    <3>1. results[c] = <<>> => Untaken(nonce[c]) /\ Current(c) = 1
      BY <2>1 DEF Untouched, MayDeny, Working, Current
    <3>2. UNCHANGED removed => (Untaken(nonce[c]) => Untaken(nonce[c])')
      BY <1>1, <2>2 DEF Untaken
    <3>3. QED
      BY <1>1, <2>2, <3>1, <3>2 DEF MayDeny
  <2>7. QED
    BY <1>1, <2>1, <2>2, <2>4, <2>5, <2>6 DEF Untouched, MayDeny, Working, Executing
<1>4. CASE \/ \E n \in Nonce, o \in Op : ServerAnswersLate(n, o)
           \/ \E o \in Shared : OtherWriter(o)
           \/ Tick \/ Migration \/ UNCHANGED vars
  <2>1. /\ request' = request /\ (recreated => recreated')
        /\ removed' \cup late' \subseteq removed \cup late
        /\ present' \subseteq present \/ recreated'
    BY <1>4 DEF ServerAnswersLate, Remove, OtherWriter, Tick, Migration, ReadIssued,
         ReadConsumed, ReadOperations, InsertMigrated, vars, callVars, graphVars, historyVars,
         Shape, RestTyped
  <2>2. /\ \A n \in Nonce : Untaken(n) => Untaken(n)'
        /\ \A d \in Caller : Untaken(nonce[d]) => Untaken(nonce[d])'
        /\ recreated' => \A d \in Caller : Untaken(nonce[d])'
    BY <1>1, <2>1 DEF Untaken
  <2>3. \A d \in Caller : MayDeny(d) => MayDeny(d)'
    BY <1>1, <2>1, <2>2 DEF MayDeny
  <2>4. QED
    BY <1>1, <2>2, <2>3 DEF Untouched
<1>5. QED
  BY <1>3, <1>4

LEMMA UntouchedStep ==
  ASSUME Shape, Owned, Untouched, [Next]_vars
  PROVE  Untouched'
<1>1. ASSUME NEW c \in Caller, CallStep(c)
      PROVE  Untouched'
  <2>1. CASE ReadTarget(c) \/ SendDelete(c) \/ ReceiveAnswer(c) \/ CheckDeleted(c)
    BY <2>1, UntouchedExecution
  <2>2. CASE ConsumePlan(c) /\ CanConsume(nonce[c], expiry[c], clock[c])
    BY <2>2, UntouchedBegin
  <2>3. QED
    BY <1>1, <2>1, <2>2, UntouchedOutside
<1>2. QED
  BY <1>1, UntouchedWorld DEF Next

LEMMA UntouchedInvariant == Spec => [](Shape /\ Owned /\ Untouched)
<1>1. ASSUME Init
      PROVE  Untouched
  BY <1>1 DEF Init, Untouched, Untaken, Working
<1>2. Shape /\ Owned /\ Untouched /\ [Next]_vars => Untouched'
  BY UntouchedStep
<1>3. QED
  BY <1>1, <1>2, OwnedInvariant, PTL DEF Spec

\* What is recorded as REJECTED took no edge away and never will, unless an
\* edge was put back by another writer.
THEOREM LegacyRejectedUntouched == Spec => []RejectedUntouched
<1>1. Untouched => RejectedUntouched
  BY DEF Untouched, Untaken, RejectedUntouched
<1>2. QED
  BY <1>1, UntouchedInvariant, PTL
=============================================================================
