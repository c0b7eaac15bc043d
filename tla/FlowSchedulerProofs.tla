------------------------- MODULE FlowSchedulerProofs -------------------------
(***************************************************************************)
(* Theorems about FlowScheduler, for every set of calls, pipelines and     *)
(* nodes, every dependency between nodes and every choice of lenient ones. *)
(*   Typed  types, and which calls hold a pipeline;                        *)
(*   Once   a call that has still to run its pipeline has not run it;      *)
(*   Clean  a pipeline that is not running is as a new one;                *)
(*   Own    what a run has read and written is its call's.                 *)
(***************************************************************************)
EXTENDS FlowScheduler, TLAPS

NodeStage == {"waiting", "assigning", "clearing", "ready", "working", "done"}

\* What to_json can return.
Dict == UNION {[K -> SUBSET Call] : K \in SUBSET Key}

RunTyped ==
  /\ input \in [Pipeline -> [data_json : SUBSET Call, stream : BOOLEAN]]
  /\ state \in [Pipeline -> [Key -> SUBSET Call]]
  /\ node \in [Pipeline -> [Node -> NodeStage]]
  /\ seen \in [Pipeline -> [Node -> Dict]]
  /\ failed \in [Pipeline -> {"none", "status", "exception"}]

CallTyped ==
  /\ pool \in [Pipeline -> {"none", "new", "free", "busy"}]
  /\ pc \in [Call -> Stages]
  /\ mine \in [Call -> Pipeline \cup {NoPipeline}]
  /\ runs \in [Call -> Nat]
  /\ answer \in [Call -> SUBSET Call]
  /\ \A c \in Call : mine[c] # NoPipeline <=> pc[c] \in Held

Typed == RunTyped /\ CallTyped

\* Calls that have still to run their pipeline.
Before == {"idle", "build", "prepare", "prepared"}

Once == \A c \in Call : runs[c] <= 1 /\ (pc[c] \in Before => runs[c] = 0)
-----------------------------------------------------------------------------
(* Dictionaries                                                            *)

LEMMA DictShape ==
  ASSUME NEW d
  PROVE  d \in Dict <=> /\ d = [k \in DOMAIN d |-> d[k]] /\ DOMAIN d \subseteq Key
                        /\ \A k \in DOMAIN d : d[k] \subseteq Call
<1>1. ASSUME d \in Dict
      PROVE  /\ d = [k \in DOMAIN d |-> d[k]] /\ DOMAIN d \subseteq Key
             /\ \A k \in DOMAIN d : d[k] \subseteq Call
  <2>1. PICK K \in SUBSET Key : d \in [K -> SUBSET Call]
    BY <1>1 DEF Dict
  <2>2. QED
    BY <2>1
<1>2. ASSUME d = [k \in DOMAIN d |-> d[k]], DOMAIN d \subseteq Key,
             \A k \in DOMAIN d : d[k] \subseteq Call
      PROVE  d \in Dict
  <2>1. d \in [DOMAIN d -> SUBSET Call]
    BY <1>2
  <2>2. QED
    BY <1>2, <2>1 DEF Dict
<1>3. QED
  BY <1>1, <1>2

LEMMA ExportTyped ==
  ASSUME NEW s \in [Key -> SUBSET Call]
  PROVE  ToJson(s) \in Dict
<1>1. /\ DOMAIN ToJson(s) \subseteq Key
      /\ \A k \in DOMAIN ToJson(s) : ToJson(s)[k] \subseteq Call
      /\ ToJson(s) = [k \in DOMAIN ToJson(s) |-> ToJson(s)[k]]
  BY DEF ToJson
<1>2. QED
  BY <1>1, DictShape

LEMMA AssignTyped ==
  ASSUME NEW s \in [Key -> SUBSET Call], NEW d,
         \A k \in DOMAIN d : d[k] \subseteq Call
  PROVE  Assign(s, d) \in [Key -> SUBSET Call]
BY DEF Assign

LEMMA WorkedTyped ==
  ASSUME RunTyped, NEW p \in Pipeline, NEW n \in Node
  PROVE  \A k \in DOMAIN Worked(p, n) : Worked(p, n)[k] \subseteq Call
<1>1. \A k \in DOMAIN seen[p][n] : seen[p][n][k] \subseteq Call
  BY DictShape DEF RunTyped
<1>2. QED
  BY <1>1 DEF Worked

LEMMA SetupTyped == Setup \in [Key -> SUBSET Call] /\ ToJson(Setup) \in Dict
<1>1. Setup \in [Key -> SUBSET Call]
  BY DEF Setup, None
<1>2. QED
  BY <1>1, ExportTyped
-----------------------------------------------------------------------------
(* Types                                                                   *)

LEMMA NodeStepTyped ==
  ASSUME RunTyped, NEW p \in Pipeline, NEW n \in Node, NodeStep(p, n)
  PROVE  RunTyped'
<1>1. node' \in [Pipeline -> [Node -> NodeStage]]
  <2>1. \E stage \in NodeStage : Becomes(p, n, stage)
    BY DEF NodeStep, NodeStarts, NodeAssigns, NodeClears, NodeReads, NodeWrites, NodeGivesUp,
           NodeFails, Finishes, NodeStage
  <2>2. QED
    BY <2>1 DEF Becomes, RunTyped
<1>2. /\ input' \in [Pipeline -> [data_json : SUBSET Call, stream : BOOLEAN]]
      /\ failed' \in [Pipeline -> {"none", "status", "exception"}]
  BY DEF RunTyped, NodeStep, NodeStarts, NodeAssigns, NodeClears, NodeReads, NodeWrites,
         NodeGivesUp, NodeFails, None
<1>3. seen' \in [Pipeline -> [Node -> Dict]]
  <2>1. ToJson(state[p]) \in Dict /\ ToJson(Setup) \in Dict
    BY ExportTyped, SetupTyped DEF RunTyped
  <2>2. seen' = seen \/ \E d \in Dict : seen' = [seen EXCEPT ![p][n] = d]
    BY <2>1 DEF NodeStep, NodeStarts, NodeAssigns, NodeClears, NodeReads, NodeWrites,
         NodeGivesUp, NodeFails, Finishes
  <2>3. ASSUME NEW d \in Dict, seen' = [seen EXCEPT ![p][n] = d]
        PROVE  seen' \in [Pipeline -> [Node -> Dict]]
    <3>1. seen \in [Pipeline -> [Node -> Dict]]
      BY DEF RunTyped
    <3>2. QED
      BY <2>3, <3>1
  <2>4. QED
    BY <2>2, <2>3 DEF RunTyped
<1>4. state' \in [Pipeline -> [Key -> SUBSET Call]]
  <2>1. state' = state \/ \E d \in {[query |-> input[p].data_json], Worked(p, n), seen[p][n]} :
                            state' = [state EXCEPT ![p] = Assign(state[p], d)]
    BY DEF NodeStep, NodeStarts, NodeAssigns, NodeClears, NodeReads, NodeWrites,
           NodeGivesUp, NodeFails, Update
  <2>2. /\ \A k \in DOMAIN Worked(p, n) : Worked(p, n)[k] \subseteq Call
        /\ \A k \in DOMAIN seen[p][n] : seen[p][n][k] \subseteq Call
        /\ input[p].data_json \subseteq Call
    BY WorkedTyped, DictShape DEF RunTyped
  <2>3. /\ Assign(state[p], Worked(p, n)) \in [Key -> SUBSET Call]
        /\ Assign(state[p], seen[p][n]) \in [Key -> SUBSET Call]
        /\ Assign(state[p], [query |-> input[p].data_json]) \in [Key -> SUBSET Call]
    BY <2>2, AssignTyped DEF RunTyped
  <2>4. ASSUME NEW s \in [Key -> SUBSET Call], state' = [state EXCEPT ![p] = s]
        PROVE  state' \in [Pipeline -> [Key -> SUBSET Call]]
    BY <2>4 DEF RunTyped
  <2>5. state' = state \/ \E s \in [Key -> SUBSET Call] : state' = [state EXCEPT ![p] = s]
    BY <2>1, <2>3
  <2>6. QED
    BY <2>4, <2>5 DEF RunTyped
<1>5. QED
  BY <1>1, <1>2, <1>3, <1>4 DEF RunTyped

\* A call goes on, with a pipeline or without.
LEMMA CallTypedStep ==
  ASSUME CallTyped, NEW c \in Call, NEW label \in Stages, NEW m \in Pipeline \cup {NoPipeline},
         Goto(c, label), mine' = [mine EXCEPT ![c] = m], m # NoPipeline <=> label \in Held,
         pool' \in [Pipeline -> {"none", "new", "free", "busy"}],
         runs' \in [Call -> Nat], answer' \in [Call -> SUBSET Call]
  PROVE  CallTyped'
BY DEF CallTyped, Goto

LEMMA CallStays ==
  ASSUME CallTyped, NEW c \in Call, NEW label \in Held, pc[c] \in Held, Goto(c, label),
         UNCHANGED <<pool, mine>>, runs' \in [Call -> Nat], answer' \in [Call -> SUBSET Call]
  PROVE  CallTyped'
BY DEF CallTyped, Goto, Stages

\* The pipeline that Build takes.
LEMMA BuildTakes ==
  ASSUME Unbuilt # {}
  PROVE  (CHOOSE q \in Unbuilt : TRUE) \in Unbuilt
OBVIOUS

LEMMA TypedStep ==
  ASSUME Typed, [Next]_vars
  PROVE  Typed'
<1>1. ASSUME NEW c \in Call, Fetch(c) \/ Step(c)
      PROVE  Typed'
  <2>1. RunTyped /\ CallTyped /\ (mine[c] \in Pipeline \/ pc[c] \notin Held)
    BY SchedulerAssumption DEF Typed, CallTyped
  <2>2. CASE FetchOne(c) \/ FetchNone(c) \/ BuildFails(c)
    <3>1. RunTyped'
      BY <2>1, <2>2 DEF FetchOne, FetchNone, BuildFails, RunTyped, runVars
    <3>2. CASE FetchOne(c)
      <4>1. PICK p \in Pipeline : /\ pool' = [pool EXCEPT ![p] = "busy"]
                                 /\ mine' = [mine EXCEPT ![c] = p]
                                 /\ Goto(c, "prepare") /\ UNCHANGED <<runs, answer>>
        BY <3>2 DEF FetchOne
      <4>2. p # NoPipeline
        BY SchedulerAssumption
      <4>3. pool' \in [Pipeline -> {"none", "new", "free", "busy"}]
        BY <2>1, <4>1 DEF CallTyped
      <4>4. runs' \in [Call -> Nat] /\ answer' \in [Call -> SUBSET Call]
        BY <2>1, <4>1 DEF CallTyped
      <4>5. CallTyped'
        BY <2>1, <4>1, <4>2, <4>3, <4>4, CallTypedStep DEF Held, Stages
      <4>6. QED
        BY <3>1, <4>5 DEF Typed
    <3>3. CASE FetchNone(c) \/ BuildFails(c)
      <4>1. CallTyped'
        BY <2>1, <3>3 DEF FetchNone, BuildFails, Begins, Goto, CallTyped, Held, Stages
      <4>2. QED
        BY <3>1, <4>1 DEF Typed
    <3>4. QED
      BY <2>2, <3>1, <3>2, <3>3 DEF Typed
  <2>4. CASE Build(c)
    <3>1. PICK p \in Unbuilt : /\ pool' = [pool EXCEPT ![p] = "new"]
                               /\ mine' = [mine EXCEPT ![c] = p]
                               /\ input' = [input EXCEPT ![p] = Prepared(EmptyInput, c)]
                               /\ Goto(c, "prepared")
                               /\ UNCHANGED <<state, node, seen, failed, runs, answer>>
      BY <2>4, BuildTakes DEF Build
    <3>2. Prepared(EmptyInput, c) \in [data_json : SUBSET Call, stream : BOOLEAN]
      BY DEF Prepared, EmptyInput
    <3>3. p \in Pipeline /\ p # NoPipeline
      BY SchedulerAssumption DEF Unbuilt
    <3>4. RunTyped'
      BY <2>1, <3>1, <3>2, <3>3 DEF RunTyped
    <3>5. pool' \in [Pipeline -> {"none", "new", "free", "busy"}]
      BY <2>1, <3>1, <3>3 DEF CallTyped
    <3>6. runs' \in [Call -> Nat] /\ answer' \in [Call -> SUBSET Call]
      BY <2>1, <3>1 DEF CallTyped
    <3>7. CallTyped'
      BY <2>1, <3>1, <3>3, <3>5, <3>6 DEF CallTyped, Goto, Held, Stages
    <3>8. QED
      BY <3>4, <3>7 DEF Typed
  <2>5. CASE Prepare(c)
    <3>1. mine[c] \in Pipeline /\ input[mine[c]] \in [data_json : SUBSET Call, stream : BOOLEAN]
      BY <2>1, <2>5 DEF Prepare, Held, RunTyped
    <3>2. Prepared(input[mine[c]], c) \in [data_json : SUBSET Call, stream : BOOLEAN]
      BY <3>1 DEF Prepared
    <3>3. RunTyped'
      BY <2>1, <2>5, <3>1, <3>2 DEF Prepare, RunTyped
    <3>4. CallTyped'
      BY <2>1, <2>5, CallStays DEF Prepare, CallTyped, Held
    <3>5. QED
      BY <3>3, <3>4 DEF Typed
  <2>6. CASE PrepareFails(c) \/ DealFails(c) \/ StreamEnds(c) \/ StreamBreaks(c)
    <3>1. RunTyped'
      BY <2>1, <2>6 DEF PrepareFails, DealFails, StreamEnds, StreamBreaks, RunTyped, runVars
    <3>2. CallTyped'
      BY <2>1, <2>6, CallStays
         DEF PrepareFails, DealFails, StreamEnds, StreamBreaks, CallTyped, Held
    <3>3. QED
      BY <3>1, <3>2 DEF Typed
  <2>7. CASE Run(c)
    <3>1. RunTyped'
      BY <2>1, <2>7, SetupTyped DEF Run, RunStarts, RunTyped
    <3>2. runs' \in [Call -> Nat]
      BY <2>1, <2>7 DEF Run, CallTyped
    <3>3. CallTyped'
      BY <2>1, <2>7, <3>2, CallStays DEF Run, CallTyped, Held
    <3>4. QED
      BY <3>1, <3>3 DEF Typed
  <2>8. ASSUME NEW n \in Node, Work(c, n)
        PROVE  Typed'
    <3>1. RunTyped'
      BY <2>1, <2>8, NodeStepTyped DEF Work, Held
    <3>2. QED
      BY <2>1, <2>8, <3>1 DEF Work, callVars, Typed, CallTyped
  <2>9. CASE RunReturns(c)
    <3>1. mine[c] \in Pipeline /\ AfterRun[failed[mine[c]]] \in Held
      <4>1. mine[c] \in Pipeline /\ failed[mine[c]] \in {"none", "status", "exception"}
        BY <2>1, <2>9 DEF RunReturns, Held, RunTyped
      <4>2. QED
        BY <4>1 DEF AfterRun, Held
    <3>2. EmptyInput \in [data_json : SUBSET Call, stream : BOOLEAN]
      BY DEF EmptyInput, None
    <3>3. RunTyped'
      BY <2>1, <2>9, <3>1, <3>2 DEF RunReturns, RunEnds, Reset, RunTyped, NodeStage
    <3>4. CallTyped'
      BY <2>1, <2>9, <3>1, CallStays DEF RunReturns, CallTyped, Held
    <3>5. QED
      BY <3>3, <3>4 DEF Typed
  <2>10. CASE Deal(c)
    <3>1. \A k \in Key : state[mine[c]][k] \subseteq Call
      BY <2>1, <2>10 DEF Deal, Held, RunTyped
    <3>2. {"stream_generator", Final} \subseteq Key
      BY FlowAssumption DEF Key
    <3>3. answer' \in [Call -> SUBSET Call]
      BY <2>1, <2>10, <3>1, <3>2 DEF Deal, CallTyped
    <3>4. pc[c] \in Held /\ \E label \in Held : Goto(c, label)
      BY <2>10 DEF Deal, Held
    <3>5. CallTyped'
      BY <2>1, <2>10, <3>3, <3>4, CallStays DEF Deal, CallTyped
    <3>6. RunTyped'
      BY <2>1, <2>10 DEF Deal, RunTyped, runVars
    <3>7. QED
      BY <3>5, <3>6 DEF Typed
  <2>11. CASE Returns(c) \/ RunFailed(c) \/ Raises(c)
    <3>1. RunTyped'
      BY <2>1, <2>11 DEF Returns, RunFailed, Raises, Leave, RunTyped, runVars
    <3>2. \E label \in {"returned", "raised"} : Leave(c, label)
      BY <2>11 DEF Returns, RunFailed, Raises
    <3>3. pool' \in [Pipeline -> {"none", "new", "free", "busy"}]
      BY <2>1, <2>11 DEF Returns, RunFailed, Raises, PutBack, CallTyped
    <3>4. CallTyped'
      BY <2>1, <3>2, <3>3, CallTypedStep DEF Leave, CallTyped, Stages, Held
    <3>5. QED
      BY <3>1, <3>4 DEF Typed
  <2>12. QED
    BY <1>1, <2>2, <2>4, <2>5, <2>6, <2>7, <2>8, <2>9, <2>10, <2>11 DEF Fetch, Step
<1>2. CASE UNCHANGED vars
  BY <1>2 DEF vars, runVars, callVars, Typed, RunTyped, CallTyped
<1>3. QED
  BY <1>1, <1>2 DEF Next, Quiet

LEMMA TypedInitially ==
  ASSUME Init
  PROVE  Typed
<1>1. RunTyped
  BY SetupTyped DEF Init, RunInit, RunTyped, EmptyInput, None, NodeStage
<1>2. CallTyped
  BY DEF Init, CallTyped, Stages, Held
<1>3. QED
  BY <1>1, <1>2 DEF Typed

LEMMA TypedInvariant == Spec => []Typed
<1>1. QED
  BY TypedInitially, TypedStep, PTL DEF Spec

\* Every variable keeps its type, and a call holds a pipeline exactly while it
\* may use one.
THEOREM FlowTypeCorrect == Spec => []TypeOK
<1>1. Typed => TypeOK
  BY DictShape DEF Typed, RunTyped, CallTyped, TypeOK, NodeStage
<1>2. QED
  BY <1>1, TypedInvariant, PTL
-----------------------------------------------------------------------------
(* The pool                                                                *)

\* What a step of a call does to the pipelines and their users.
Takes(c) ==
  \E p \in Pipeline : /\ mine[c] = NoPipeline /\ mine' = [mine EXCEPT ![c] = p]
                      /\ \/ pool[p] = "free" /\ pool' = [pool EXCEPT ![p] = "busy"]
                         \/ pool[p] = "none" /\ pool' = [pool EXCEPT ![p] = "new"]

Leaves(c) ==
  /\ mine[c] \in Pipeline /\ mine' = [mine EXCEPT ![c] = NoPipeline]
  /\ \/ pool' = [pool EXCEPT ![mine[c]] = "free"]
     \/ pool[mine[c]] # "busy" /\ pool' = pool

LEMMA PoolStep ==
  ASSUME Typed, [Next]_vars
  PROVE  UNCHANGED <<pool, mine>> \/ \E c \in Call : Takes(c) \/ Leaves(c)
<1>1. ASSUME NEW c \in Call, Fetch(c) \/ Step(c)
      PROVE  UNCHANGED <<pool, mine>> \/ Takes(c) \/ Leaves(c)
  <2>1. /\ mine[c] # NoPipeline <=> pc[c] \in Held
        /\ mine[c] \in Pipeline \cup {NoPipeline}
    BY DEF Typed, CallTyped
  <2>2. CASE FetchOne(c)
    BY <2>1, <2>2 DEF FetchOne, Begins, Takes, Held
  <2>3. CASE Build(c)
    BY <2>1, <2>3, BuildTakes DEF Build, Takes, Held, Unbuilt
  <2>4. CASE Returns(c) \/ RunFailed(c) \/ Raises(c)
    BY <2>1, <2>4 DEF Returns, RunFailed, Raises, PutBack, Leave, Leaves, Held
  <2>5. QED
    BY <1>1, <2>2, <2>3, <2>4
       DEF Fetch, Step, FetchNone, BuildFails, Prepare, PrepareFails, Run, Work, RunReturns, Deal,
           DealFails, StreamEnds, StreamBreaks, callVars
<1>2. QED
  BY <1>1 DEF Next, Quiet, vars, callVars

LEMMA PoolSoundStep ==
  ASSUME Typed, PoolSound, [Next]_vars
  PROVE  PoolSound'
<1>1. /\ pool \in [Pipeline -> {"none", "new", "free", "busy"}]
      /\ mine \in [Call -> Pipeline \cup {NoPipeline}]
      /\ NoPipeline \notin Pipeline
  BY SchedulerAssumption DEF Typed, CallTyped
<1>2. CASE UNCHANGED <<pool, mine>>
  BY <1>2 DEF PoolSound, Users
<1>3. ASSUME NEW c \in Call, Takes(c)
      PROVE  PoolSound'
  <2>1. PICK p \in Pipeline :
          /\ mine[c] = NoPipeline /\ mine' = [mine EXCEPT ![c] = p]
          /\ \/ pool[p] = "free" /\ pool' = [pool EXCEPT ![p] = "busy"]
             \/ pool[p] = "none" /\ pool' = [pool EXCEPT ![p] = "new"]
    BY <1>3 DEF Takes
  <2>2. Users(p) = {}
    BY <2>1 DEF PoolSound
  <2>3. Users(p)' = {c} /\ pool'[p] \in {"busy", "new"}
    BY <1>1, <2>1, <2>2 DEF Users
  <2>4. \A q \in Pipeline \ {p} : Users(q)' = Users(q) /\ pool'[q] = pool[q]
    BY <1>1, <2>1 DEF Users
  <2>5. QED
    BY <2>3, <2>4 DEF PoolSound
<1>4. ASSUME NEW c \in Call, Leaves(c)
      PROVE  PoolSound'
  <2>1. PICK p \in Pipeline :
          /\ mine[c] = p /\ mine' = [mine EXCEPT ![c] = NoPipeline]
          /\ pool'[p] # "busy"
          /\ \A q \in Pipeline \ {p} : pool'[q] = pool[q]
    BY <1>1, <1>4 DEF Leaves
  <2>2. Users(p) = {c}
    BY <2>1 DEF PoolSound, Users
  <2>3. Users(p)' = {}
    BY <1>1, <2>1, <2>2 DEF Users
  <2>4. \A q \in Pipeline \ {p} : Users(q)' = Users(q)
    BY <1>1, <2>1 DEF Users
  <2>5. QED
    BY <2>1, <2>3, <2>4 DEF PoolSound
<1>5. QED
  BY <1>2, <1>3, <1>4, PoolStep

LEMMA PoolInvariant == Spec => [](Typed /\ PoolSound)
<1>1. ASSUME Init
      PROVE  PoolSound
  <2>1. /\ \A p \in Pipeline : pool[p] = "none"
        /\ \A c \in Call : mine[c] \notin Pipeline
    BY <1>1, SchedulerAssumption DEF Init
  <2>2. QED
    BY <2>1 DEF PoolSound, Users
<1>2. Typed /\ PoolSound /\ [Next]_vars => PoolSound'
  BY PoolSoundStep
<1>3. QED
  BY <1>1, <1>2, TypedInvariant, PTL DEF Spec

\* A pipeline serves one call at a time, for any number of calls at once, and
\* one that a stream or a failed call still uses is not in the pool.
THEOREM PipelinesNotShared == Spec => []PoolSound
<1>1. QED
  BY PoolInvariant, PTL

LEMMA OnceStep ==
  ASSUME Typed, Once, [Next]_vars
  PROVE  Once'
<1>1. ASSUME NEW c \in Call, Fetch(c) \/ Step(c)
      PROVE  Once'
  <2>1. /\ runs \in [Call -> Nat] /\ pc \in [Call -> Stages]
        /\ runs[c] <= 1 /\ (pc[c] \in Before => runs[c] = 0)
    BY DEF Typed, CallTyped, Once
  <2>2. CASE Run(c)
    BY <2>1, <2>2 DEF Run, Goto, Once, Before
  <2>3. CASE ~Run(c) /\ ~RunReturns(c)
    <3>1. runs' = runs
      BY <1>1, <2>3 DEF Fetch, Step, FetchOne, FetchNone, Build, BuildFails, Prepare,
            PrepareFails, Work, Deal, DealFails, StreamEnds, StreamBreaks, Returns,
            RunFailed, Raises, Leave, callVars
    <3>2. pc' = pc \/ \E label : Goto(c, label) /\ (label \in Before => pc[c] \in Before)
      BY <1>1, <2>3 DEF Fetch, Step, FetchOne, FetchNone, Build, BuildFails, Prepare,
            PrepareFails, Work, Deal, DealFails, StreamEnds, StreamBreaks, Returns,
            RunFailed, Raises, Leave, callVars, Begins, Before
    <3>3. QED
      BY <2>1, <3>1, <3>2 DEF Goto, Once
  <2>4. CASE RunReturns(c)
    <3>1. AfterRun[failed[mine[c]]] \notin Before
      <4>1. mine[c] \in Pipeline
        BY <2>4 DEF Typed, CallTyped, RunReturns, Held
      <4>2. failed[mine[c]] \in {"none", "status", "exception"}
        BY <4>1 DEF Typed, RunTyped
      <4>3. QED
        BY <4>2 DEF AfterRun, Before
    <3>2. QED
      BY <2>1, <2>4, <3>1 DEF RunReturns, Goto, Once
  <2>5. QED
    BY <2>2, <2>3, <2>4
<1>2. CASE UNCHANGED vars
  BY <1>2 DEF vars, callVars, Once
<1>3. QED
  BY <1>1, <1>2 DEF Next, Quiet

\* No call runs a pipeline twice, streaming or not.
THEOREM RunsAtMostOnce == Spec => []RunsOnce
<1>1. Init => Once
  BY DEF Init, Once
<1>2. Typed /\ Once /\ [Next]_vars => Once'
  BY OnceStep
<1>3. Once => RunsOnce
  BY DEF Once, RunsOnce
<1>4. QED
  BY <1>1, <1>2, <1>3, TypedInvariant, PTL DEF Spec
-----------------------------------------------------------------------------
(* One run                                                                 *)

\* Where a node of call c leaves its result.
ResultOf(c, n) == IF n = Final /\ c \in Streaming THEN "stream_generator" ELSE n

AtRest(p) == failed[p] = "none" /\ \A n \in Node : node[p][n] = "waiting"

\* A run of pipeline p for call c: data_json is cleared only after the query is
\* in the state, and nothing that is in the state is ever taken away.
RunOwn(p, c) ==
  /\ input[p].data_json \in {{}, {c}} /\ input[p].stream = (c \in Streaming)
  /\ input[p].data_json = {c} \/ state[p]["query"] = {c}
  /\ \A k \in Key : state[p][k] \in {{}, {c}}
  /\ \A n \in Node :
       /\ node[p][n] \in {"clearing", "ready", "working"} => state[p]["query"] = {c}
       /\ node[p][n] = "working" =>
            "query" \in DOMAIN seen[p][n] /\ \A k \in DOMAIN seen[p][n] : seen[p][n][k] = {c}
       /\ node[p][n] = "done" /\ n \notin Lenient /\ failed[p] = "none" =>
            state[p][ResultOf(c, n)] = {c}

LEMMA KeyParts ==
  /\ "query" \in Key /\ "stream_generator" \in Key /\ Node \subseteq Key
  /\ Final \in Node /\ Final \notin Lenient
BY FlowAssumption DEF Key

\* Assigning back values of call c only adds to what is there.
LEMMA AssignOwn ==
  ASSUME NEW c \in Call, NEW s \in [Key -> SUBSET Call], \A k \in Key : s[k] \in {{}, {c}},
         NEW d, DOMAIN d \subseteq Key, \A k \in DOMAIN d : d[k] = {c}
  PROVE  /\ \A k \in Key : Assign(s, d)[k] \in {{}, {c}}
         /\ \A k \in Key : s[k] = {c} => Assign(s, d)[k] = {c}
         /\ \A k \in DOMAIN d : Assign(s, d)[k] = {c}
BY DEF Assign

\* What a node makes of values of call c is of call c.
LEMMA WorkedOwn ==
  ASSUME RunTyped, NEW p \in Pipeline, NEW n \in Node, NEW c \in Call, RunOwn(p, c),
         node[p][n] = "working"
  PROVE  /\ DOMAIN Worked(p, n) \subseteq Key /\ ResultOf(c, n) \in DOMAIN Worked(p, n)
         /\ \A k \in DOMAIN Worked(p, n) : Worked(p, n)[k] = {c}
<1>1. /\ ResultKey(p, n) = ResultOf(c, n) /\ ResultOf(c, n) \in Key
      /\ "query" \in DOMAIN seen[p][n] /\ \A k \in DOMAIN seen[p][n] : seen[p][n][k] = {c}
      /\ DOMAIN seen[p][n] \subseteq Key
  BY KeyParts, DictShape DEF RunOwn, ResultKey, ResultOf, RunTyped
<1>2. UNION {seen[p][n][j] : j \in DOMAIN seen[p][n]} = {c}
  BY <1>1
<1>3. /\ DOMAIN Worked(p, n) = DOMAIN seen[p][n] \cup {ResultOf(c, n)}
      /\ \A k \in DOMAIN Worked(p, n) : Worked(p, n)[k] = {c}
  BY <1>1, <1>2 DEF Worked
<1>4. QED
  BY <1>1, <1>3

\* How a step of a node changes what the state, the input and it itself are.
LEMMA RunOwnStep ==
  ASSUME RunTyped, NEW p \in Pipeline, NEW n \in Node, NEW c \in Call, RunOwn(p, c),
         NodeStep(p, n)
  PROVE  RunOwn(p, c)'
<1>1. \A m \in Node \ {n} : node'[p][m] = node[p][m] /\ seen'[p][m] = seen[p][m]
  BY DEF RunTyped, NodeStep, NodeStarts, NodeAssigns, NodeClears, NodeReads, NodeWrites,
         NodeGivesUp, NodeFails, Finishes, Becomes
<1>2. state[p] \in [Key -> SUBSET Call] /\ \A k \in Key : state[p][k] \in {{}, {c}}
  BY DEF RunTyped, RunOwn
<1>3. failed'[p] = "none" => failed[p] = "none"
  BY DEF RunTyped, NodeStep, NodeStarts, NodeAssigns, NodeClears, NodeReads, NodeWrites,
         NodeGivesUp, NodeFails
<1>4. ASSUME UNCHANGED state, input'[p].stream = input[p].stream,
             input'[p].data_json = input[p].data_json
               \/ (input'[p].data_json = {} /\ state[p]["query"] = {c}),
             node'[p][n] \in {"clearing", "ready", "working"} => state[p]["query"] = {c},
             node'[p][n] = "working" =>
               "query" \in DOMAIN seen'[p][n] /\ \A k \in DOMAIN seen'[p][n] : seen'[p][n][k] = {c},
             node'[p][n] = "done" => failed'[p] # "none"
      PROVE  RunOwn(p, c)'
  <2>1. /\ input'[p].data_json \in {{}, {c}} /\ input'[p].stream = (c \in Streaming)
        /\ input'[p].data_json = {c} \/ state'[p]["query"] = {c}
        /\ \A k \in Key : state'[p][k] \in {{}, {c}}
    BY <1>4 DEF RunOwn
  <2>2. \A m \in Node : ResultOf(c, m)' = ResultOf(c, m)
    BY DEF ResultOf
  <2>3. ASSUME NEW m \in Node
        PROVE  /\ node'[p][m] \in {"clearing", "ready", "working"} => state'[p]["query"] = {c}
               /\ node'[p][m] = "working" =>
                    "query" \in DOMAIN seen'[p][m] /\ \A k \in DOMAIN seen'[p][m] : seen'[p][m][k] = {c}
               /\ node'[p][m] = "done" /\ m \notin Lenient /\ failed'[p] = "none" =>
                    state'[p][ResultOf(c, m)] = {c}
    <3>1. CASE m = n
      BY <1>4, <3>1
    <3>2. CASE m # n
      BY <1>1, <1>3, <1>4, <3>2 DEF RunOwn
    <3>3. QED
      BY <3>1, <3>2
  <2>4. QED
    BY <2>1, <2>2, <2>3 DEF RunOwn
<1>5. ASSUME UNCHANGED input, NEW d, DOMAIN d \subseteq Key, \A k \in DOMAIN d : d[k] = {c},
             state'[p] = Assign(state[p], d), node'[p][n] \in {"clearing", "done"},
             node'[p][n] = "clearing" => "query" \in DOMAIN d,
             node'[p][n] = "done" => n \in Lenient \/ ResultOf(c, n) \in DOMAIN d
      PROVE  RunOwn(p, c)'
  <2>1. /\ \A k \in Key : state'[p][k] \in {{}, {c}}
        /\ \A k \in Key : state[p][k] = {c} => state'[p][k] = {c}
        /\ \A k \in DOMAIN d : state'[p][k] = {c}
    BY <1>2, <1>5, AssignOwn
  <2>2. \A m \in Node : ResultOf(c, m) \in Key /\ "query" \in Key
    BY KeyParts DEF ResultOf
  <2>3. \A m \in Node : ResultOf(c, m)' = ResultOf(c, m)
    BY DEF ResultOf
  <2>4. \A m \in Node :
          /\ node'[p][m] \in {"clearing", "ready", "working"} => state'[p]["query"] = {c}
          /\ node'[p][m] = "working" =>
               "query" \in DOMAIN seen'[p][m] /\ \A k \in DOMAIN seen'[p][m] : seen'[p][m][k] = {c}
          /\ node'[p][m] = "done" /\ m \notin Lenient /\ failed'[p] = "none" =>
               state'[p][ResultOf(c, m)] = {c}
    BY <1>1, <1>3, <1>5, <2>1, <2>2 DEF RunOwn
  <2>5. /\ input'[p].data_json \in {{}, {c}} /\ input'[p].stream = (c \in Streaming)
        /\ input'[p].data_json = {c} \/ state'[p]["query"] = {c}
    BY <1>5, <2>1, <2>2 DEF RunOwn
  <2>6. QED
    BY <2>1, <2>3, <2>4, <2>5 DEF RunOwn
<1>6. CASE NodeStarts(p, n)
  <2>1. node'[p][n] = IF input[p].data_json = {} THEN "ready" ELSE "assigning"
    BY <1>6 DEF NodeStarts, Becomes, RunTyped, None
  <2>2. UNCHANGED <<state, input>>
    BY <1>6 DEF NodeStarts
  <2>3. input[p].data_json = {} => state[p]["query"] = {c}
    BY DEF RunOwn
  <2>4. QED
    BY <1>4, <2>1, <2>2, <2>3
<1>7. CASE NodeAssigns(p, n)
  <2>1. CASE input[p].data_json = {}
    <3>1. node'[p][n] = "done" /\ failed'[p] # "none" /\ UNCHANGED <<state, input>>
      BY <1>7, <2>1 DEF NodeAssigns, Becomes, RunTyped, None
    <3>2. QED
      BY <1>4, <3>1
  <2>2. CASE input[p].data_json # {}
    <3>1. input[p].data_json = {c}
      BY <2>2 DEF RunOwn
    <3>2. /\ node'[p][n] = "clearing" /\ UNCHANGED input
          /\ state'[p] = Assign(state[p], [query |-> {c}])
      BY <1>7, <2>2, <3>1 DEF NodeAssigns, Becomes, RunTyped, None
    <3>3. /\ DOMAIN [query |-> {c}] = {"query"}
          /\ \A k \in DOMAIN [query |-> {c}] : [query |-> {c}][k] = {c}
      OBVIOUS
    <3>4. QED
      BY <1>5, <3>2, <3>3, KeyParts
  <2>3. QED
    BY <2>1, <2>2
<1>8. CASE NodeClears(p, n)
  <2>1. /\ node[p][n] = "clearing" /\ node'[p][n] = "ready" /\ UNCHANGED state
        /\ input'[p].data_json = {} /\ input'[p].stream = input[p].stream
    BY <1>8 DEF NodeClears, Becomes, RunTyped, None
  <2>2. state[p]["query"] = {c}
    BY <2>1 DEF RunOwn
  <2>3. QED
    BY <1>4, <2>1, <2>2
<1>9. CASE NodeReads(p, n)
  <2>1. /\ node[p][n] = "ready" /\ node'[p][n] = "working" /\ UNCHANGED <<state, input>>
        /\ seen'[p][n] = ToJson(state[p])
    BY <1>9 DEF NodeReads, Becomes, RunTyped
  <2>2. state[p]["query"] = {c}
    BY <2>1 DEF RunOwn
  <2>3. /\ "query" \in DOMAIN ToJson(state[p])
        /\ \A k \in DOMAIN ToJson(state[p]) : ToJson(state[p])[k] = {c}
    BY <1>2, <2>2, KeyParts DEF ToJson, None
  <2>4. QED
    BY <1>4, <2>1, <2>2, <2>3
<1>10. CASE NodeWrites(p, n) \/ NodeGivesUp(p, n)
  <2>1. node[p][n] = "working" /\ node'[p][n] = "done" /\ UNCHANGED input
    BY <1>10 DEF NodeWrites, NodeGivesUp, Finishes, Becomes, RunTyped
  <2>2. CASE NodeWrites(p, n)
    <3>1. state'[p] = Assign(state[p], Worked(p, n))
      BY <2>2 DEF NodeWrites, Update, RunTyped
    <3>2. QED
      BY <1>5, <2>1, <3>1, WorkedOwn
  <2>3. CASE NodeGivesUp(p, n)
    <3>1. state'[p] = Assign(state[p], seen[p][n]) /\ n \in Lenient
      BY <2>3 DEF NodeGivesUp, Update, RunTyped
    <3>2. DOMAIN seen[p][n] \subseteq Key /\ \A k \in DOMAIN seen[p][n] : seen[p][n][k] = {c}
      BY <2>1, DictShape DEF RunTyped, RunOwn
    <3>3. QED
      BY <1>5, <2>1, <3>1, <3>2
  <2>4. QED
    BY <1>10, <2>2, <2>3
<1>11. CASE NodeFails(p, n)
  <2>1. node'[p][n] = "done" /\ failed'[p] # "none" /\ UNCHANGED <<state, input>>
    BY <1>11 DEF NodeFails, Finishes, Becomes, RunTyped
  <2>2. QED
    BY <1>4, <2>1
<1>12. QED
  BY <1>6, <1>7, <1>8, <1>9, <1>10, <1>11 DEF NodeStep
-----------------------------------------------------------------------------
(* All calls                                                               *)

OwnInput(c) == [data_json |-> {c}, stream |-> c \in Streaming]

\* What call c may expect of its pipeline, and its client of its answer.
Fits(c, p) ==
  /\ pc[c] \in Held /\ pc[c] # "running" => AtRest(p)
  /\ pc[c] \in Held /\ pc[c] \notin {"prepared", "running"} => input[p] = EmptyInput
  /\ pc[c] = "prepared" => input[p] = OwnInput(c)
  /\ pc[c] = "running" => RunOwn(p, c)
  /\ pc[c] = "deal" => state[p][ResultOf(c, Final)] = {c}
  /\ pc[c] \in {"stream", "dealt", "returned"} => answer[c] = {c}

Fresh(p) == AtRest(p) /\ input[p] = EmptyInput

Own ==
  /\ \A p \in Pipeline : (\A c \in Call : mine[c] # p) => Fresh(p)
  /\ \A c \in Call : Fits(c, mine[c])

SameRun(p) ==
  /\ input'[p] = input[p] /\ state'[p] = state[p] /\ node'[p] = node[p]
  /\ seen'[p] = seen[p] /\ failed'[p] = failed[p]

\* A step of call c leaves alone what it does not hold.
LEMMA Frame ==
  ASSUME Typed, NEW c \in Call, Fetch(c) \/ Step(c)
  PROVE  /\ \A p \in Pipeline \ {mine[c], mine'[c]} : SameRun(p)
         /\ \A d \in Call \ {c} : pc'[d] = pc[d] /\ mine'[d] = mine[d] /\ answer'[d] = answer[d]
<1>1. /\ input \in [Pipeline -> [data_json : SUBSET Call, stream : BOOLEAN]]
      /\ state \in [Pipeline -> [Key -> SUBSET Call]]
      /\ node \in [Pipeline -> [Node -> NodeStage]]
      /\ seen \in [Pipeline -> [Node -> Dict]]
      /\ failed \in [Pipeline -> {"none", "status", "exception"}]
      /\ pc \in [Call -> Stages] /\ mine \in [Call -> Pipeline \cup {NoPipeline}]
      /\ answer \in [Call -> SUBSET Call]
  BY DEF Typed, RunTyped, CallTyped
<1>2. CASE Build(c)
  BY <1>1, <1>2 DEF Build, Goto, SameRun
<1>3. CASE Prepare(c) \/ Run(c) \/ RunReturns(c)
  BY <1>1, <1>3 DEF Prepare, Run, RunStarts, RunReturns, RunEnds, Goto, SameRun
<1>4. ASSUME NEW n \in Node, Work(c, n)
      PROVE  \A p \in Pipeline \ {mine[c]} : SameRun(p)
  BY <1>1, <1>4 DEF Work, NodeStep, NodeStarts, NodeAssigns, NodeClears, NodeReads, NodeWrites,
         NodeGivesUp, NodeFails, Finishes, Becomes, Update, SameRun
<1>5. ASSUME NEW n \in Node, Work(c, n)
      PROVE  UNCHANGED <<pc, mine, answer>>
  BY <1>5 DEF Work, callVars
<1>6. CASE FetchOne(c) \/ FetchNone(c) \/ BuildFails(c) \/ PrepareFails(c) \/ Deal(c) \/ DealFails(c)
           \/ StreamEnds(c) \/ StreamBreaks(c) \/ Returns(c) \/ RunFailed(c) \/ Raises(c)
  <2>1. UNCHANGED runVars
    BY <1>6 DEF FetchOne, FetchNone, BuildFails, PrepareFails, Deal, DealFails, StreamEnds,
           StreamBreaks, Returns, RunFailed, Raises, Leave
  <2>2. \A d \in Call \ {c} : pc'[d] = pc[d] /\ mine'[d] = mine[d] /\ answer'[d] = answer[d]
    BY <1>1, <1>6 DEF FetchOne, FetchNone, BuildFails, PrepareFails, Deal, DealFails, StreamEnds,
           StreamBreaks, Returns, RunFailed, Raises, Leave, Goto
  <2>3. QED
    BY <2>1, <2>2 DEF runVars, SameRun
<1>7. QED
  BY <1>2, <1>3, <1>4, <1>5, <1>6 DEF Fetch, Step

\* What fits goes on to fit while nobody touches it.
LEMMA FitsStays ==
  ASSUME NEW d \in Call, NEW p, Fits(d, p), SameRun(p) \/ pc[d] \notin Held,
         pc'[d] = pc[d], answer'[d] = answer[d], NEW q, q = p
  PROVE  Fits(d, q)'
BY DEF Fits, SameRun, AtRest, RunOwn, OwnInput, EmptyInput, None, ResultOf, Held

\* The steps of call c, with the pipeline p it holds or comes to hold.
LEMMA FitsStep ==
  ASSUME Typed, PoolSound, Own, NEW c \in Call, Fetch(c) \/ Step(c), NEW p \in Pipeline,
         p = mine[c] \/ p = mine'[c]
  PROVE  /\ mine'[c] = p => Fits(c, p)'
         /\ mine'[c] # p => Fresh(p)' /\ Fits(c, NoPipeline)'
<1>1. RunTyped /\ CallTyped /\ (mine[c] # NoPipeline <=> pc[c] \in Held) /\ p # NoPipeline
  BY SchedulerAssumption DEF Typed, CallTyped
<1>2. /\ pc \in [Call -> Stages] /\ mine \in [Call -> Pipeline \cup {NoPipeline}]
      /\ answer \in [Call -> SUBSET Call]
      /\ input \in [Pipeline -> [data_json : SUBSET Call, stream : BOOLEAN]]
  BY <1>1 DEF RunTyped, CallTyped
<1>3. mine[c] = p => Fits(c, p)
  BY DEF Own
<1>4. (\A d \in Call : mine[d] # p) => Fresh(p)
  BY DEF Own
<1>5. EmptyInput.data_json = {} /\ EmptyInput.stream = FALSE
  BY DEF EmptyInput, None
<1>6. CASE FetchOne(c)
  <2>1. UNCHANGED runVars /\ pc'[c] = "prepare" /\ pc[c] = "idle"
    BY <1>2, <1>6 DEF FetchOne, Goto, Begins
  <2>2. mine[c] = NoPipeline /\ mine'[c] = p /\ pool[p] = "free"
    BY <1>1, <1>2, <1>6, <2>1 DEF FetchOne, Held
  <2>3. Fresh(p)
    BY <1>4, <2>2 DEF PoolSound, Users
  <2>4. QED
    BY <2>1, <2>2, <2>3 DEF Fits, Fresh, AtRest, runVars, EmptyInput
<1>7. CASE FetchNone(c) \/ BuildFails(c)
  <2>1. pc[c] \notin Held /\ mine' = mine
    BY <1>7 DEF FetchNone, BuildFails, Begins, Held
  <2>2. QED
    BY <1>1, <2>1
<1>8. CASE Build(c)
  <2>1. pc'[c] = "prepared" /\ pc[c] = "build" /\ UNCHANGED <<node, failed>>
    BY <1>2, <1>8 DEF Build, Goto
  <2>2. /\ mine[c] = NoPipeline /\ mine'[c] = p /\ p \in Unbuilt
        /\ input'[p] = Prepared(EmptyInput, c)
    BY <1>1, <1>2, <1>8, <2>1, BuildTakes DEF Build, Held, Unbuilt
  <2>3. Fresh(p)
    BY <1>4, <2>2 DEF PoolSound, Users, Unbuilt
  <2>4. input'[p] = OwnInput(c)
    BY <1>5, <2>2 DEF Prepared, OwnInput
  <2>5. QED
    BY <2>1, <2>2, <2>3, <2>4 DEF Fits, Fresh, AtRest, OwnInput
<1>9. CASE Prepare(c)
  <2>1. pc'[c] = "prepared" /\ pc[c] = "prepare" /\ UNCHANGED <<node, failed, mine>>
    BY <1>2, <1>9 DEF Prepare, Goto
  <2>2. mine[c] = p /\ Fits(c, p)
    BY <1>3, <2>1
  <2>3. input'[p] = Prepared(input[p], c) /\ input[p] = EmptyInput
    BY <1>2, <1>9, <2>1, <2>2 DEF Prepare, Fits, Held
  <2>4. input'[p] = OwnInput(c)
    BY <1>5, <2>3 DEF Prepared, OwnInput
  <2>5. QED
    BY <2>1, <2>2, <2>4 DEF Fits, AtRest, OwnInput, Held
<1>10. CASE Run(c)
  <2>1. pc'[c] = "running" /\ pc[c] = "prepared" /\ UNCHANGED <<input, node, seen, failed, mine>>
    BY <1>2, <1>10 DEF Run, RunStarts, Goto
  <2>2. mine[c] = p /\ Fits(c, p)
    BY <1>3, <2>1
  <2>3. input[p] = OwnInput(c) /\ AtRest(p)
    BY <2>1, <2>2 DEF Fits, Held
  <2>4. state'[p] = Setup
    BY <1>1, <1>10, <2>2 DEF Run, RunStarts, RunTyped
  <2>5. RunOwn(p, c)'
    <3>1. input'[p].data_json = {c} /\ input'[p].stream = (c \in Streaming)
      BY <2>1, <2>3 DEF OwnInput
    <3>2. \A k \in Key : state'[p][k] = {}
      BY <2>4 DEF Setup, None
    <3>3. \A n \in Node : node'[p][n] = "waiting"
      BY <2>1, <2>3 DEF AtRest
    <3>4. QED
      BY <3>1, <3>2, <3>3 DEF RunOwn
  <2>6. QED
    BY <2>1, <2>2, <2>5 DEF Fits
<1>11. ASSUME NEW n \in Node, Work(c, n)
       PROVE  mine'[c] = p /\ Fits(c, p)'
  <2>1. pc[c] = "running" /\ UNCHANGED <<pc, mine>>
    BY <1>11 DEF Work, callVars
  <2>2. mine[c] = p /\ Fits(c, p)
    BY <1>3, <2>1
  <2>3. NodeStep(p, n) /\ RunOwn(p, c)
    BY <1>11, <2>1, <2>2 DEF Work, Fits
  <2>4. RunOwn(p, c)'
    BY <1>1, <2>3, RunOwnStep
  <2>5. QED
    BY <2>1, <2>2, <2>4 DEF Fits
<1>12. CASE RunReturns(c)
  <2>1. pc[c] = "running" /\ UNCHANGED <<state, mine, answer>>
    BY <1>12 DEF RunReturns, RunEnds
  <2>2. mine[c] = p /\ Fits(c, p)
    BY <1>3, <2>1
  <2>3. RunOwn(p, c)
    BY <2>1, <2>2 DEF Fits
  <2>4. /\ RunOver(p) /\ pc'[c] = AfterRun[failed[p]] /\ failed[p] \in {"none", "status", "exception"}
        /\ input'[p] = EmptyInput /\ AtRest(p)'
    BY <1>1, <1>2, <1>12, <2>2 DEF RunReturns, RunEnds, Goto, Reset, AtRest, RunTyped
  <2>5. failed[p] = "none" => state'[p][ResultOf(c, Final)] = {c}
    BY <2>1, <2>3, <2>4, KeyParts DEF RunOver, RunOwn
  <2>6. pc'[c] = "deal" => failed[p] = "none"
    BY <2>4 DEF AfterRun
  <2>7. pc'[c] \in {"deal", "error", "raising"}
    BY <2>4 DEF AfterRun
  <2>8. QED
    BY <2>1, <2>2, <2>4, <2>5, <2>6, <2>7 DEF Fits, EmptyInput, ResultOf
<1>13. CASE Deal(c)
  <2>1. pc[c] = "deal" /\ UNCHANGED runVars /\ UNCHANGED mine /\ pc'[c] \in {"stream", "dealt"}
    BY <1>2, <1>13 DEF Deal, Goto
  <2>2. mine[c] = p /\ Fits(c, p)
    BY <1>3, <2>1
  <2>3. answer'[c] = state[p][ResultOf(c, Final)]
    BY <1>2, <1>13, <2>2 DEF Deal, ResultOf
  <2>4. answer'[c] = {c} /\ AtRest(p) /\ input[p] = EmptyInput
    BY <2>1, <2>2, <2>3 DEF Fits, Held
  <2>5. QED
    BY <2>1, <2>2, <2>4 DEF Fits, AtRest, runVars, EmptyInput, Held
<1>14. CASE PrepareFails(c) \/ DealFails(c) \/ StreamEnds(c) \/ StreamBreaks(c)
  <2>1. /\ pc[c] \in {"prepare", "deal", "stream"} /\ UNCHANGED runVars /\ UNCHANGED <<mine, answer>>
        /\ pc'[c] = "raising" \/ (pc[c] = "stream" /\ pc'[c] = "dealt")
    BY <1>2, <1>14 DEF PrepareFails, DealFails, StreamEnds, StreamBreaks, Goto
  <2>2. mine[c] = p /\ Fits(c, p)
    BY <1>3, <2>1
  <2>3. QED
    BY <2>1, <2>2 DEF Fits, AtRest, runVars, EmptyInput, Held
<1>15. CASE Returns(c) \/ RunFailed(c) \/ Raises(c)
  <2>1. /\ pc[c] \in {"dealt", "error", "raising"} /\ UNCHANGED runVars /\ UNCHANGED answer
        /\ mine'[c] = NoPipeline
        /\ pc'[c] = "raised" \/ (pc[c] = "dealt" /\ pc'[c] = "returned")
    BY <1>2, <1>15 DEF Returns, RunFailed, Raises, Leave, Goto
  <2>2. mine[c] = p /\ Fits(c, p)
    BY <1>1, <1>3, <2>1
  <2>3. QED
    BY <1>1, <2>1, <2>2 DEF Fits, Fresh, AtRest, runVars, EmptyInput, Held
<1>16. QED
  BY <1>6, <1>7, <1>8, <1>9, <1>10, <1>11, <1>12, <1>13, <1>14, <1>15 DEF Fetch, Step

LEMMA OwnStep ==
  ASSUME Typed, PoolSound, Own, [Next]_vars
  PROVE  Own'
<1>1. ASSUME NEW c \in Call, Fetch(c) \/ Step(c)
      PROVE  Own'
  <2>1. /\ mine \in [Call -> Pipeline \cup {NoPipeline}]
        /\ mine' \in [Call -> Pipeline \cup {NoPipeline}]
        /\ \A d \in Call : mine[d] # NoPipeline <=> pc[d] \in Held
        /\ \A d \in Call : (mine[d] # NoPipeline <=> pc[d] \in Held)'
        /\ NoPipeline \notin Pipeline
        /\ PoolSound'
    <3>1. Next
      BY <1>1 DEF Next
    <3>2. Typed' /\ PoolSound'
      BY <3>1, TypedStep, PoolSoundStep
    <3>3. QED
      BY <3>2, SchedulerAssumption DEF Typed, CallTyped
  <2>2. /\ \A p \in Pipeline \ {mine[c], mine'[c]} : SameRun(p)
        /\ \A d \in Call \ {c} : pc'[d] = pc[d] /\ mine'[d] = mine[d] /\ answer'[d] = answer[d]
    BY <1>1, Frame
  <2>3. \A p \in Pipeline : p = mine[c] \/ p = mine'[c] =>
          /\ mine'[c] = p => Fits(c, p)'
          /\ mine'[c] # p => Fresh(p)' /\ Fits(c, NoPipeline)'
    BY <1>1, FitsStep
  <2>4. ASSUME NEW p \in Pipeline, \A d \in Call : mine'[d] # p
        PROVE  Fresh(p)'
    <3>1. CASE p = mine[c]
      BY <2>3, <2>4, <3>1
    <3>2. CASE p # mine[c]
      <4>1. \A d \in Call : mine[d] # p
        BY <2>2, <2>4, <3>2
      <4>2. SameRun(p) /\ Fresh(p)
        BY <2>2, <2>4, <3>2, <4>1 DEF Own
      <4>3. QED
        BY <4>2 DEF SameRun, Fresh, AtRest, EmptyInput
    <3>3. QED
      BY <3>1, <3>2
  <2>5. ASSUME NEW d \in Call \ {c}
        PROVE  Fits(d, mine[d])' /\ mine'[d] = mine[d]
    <3>1. Fits(d, mine[d]) /\ mine'[d] = mine[d] /\ pc'[d] = pc[d] /\ answer'[d] = answer[d]
      BY <2>2, <2>5 DEF Own
    <3>2. SameRun(mine[d]) \/ pc[d] \notin Held
      <4>1. ASSUME pc[d] \in Held
            PROVE  mine[d] \in Pipeline /\ mine[d] # mine[c] /\ mine[d] # mine'[c]
        <5>1. PICK p \in Pipeline : p = mine[d]
          BY <2>1, <2>5, <4>1
        <5>2. mine[c] # p
          BY <2>5, <5>1 DEF PoolSound, Users
        <5>3. mine'[c] # p
          <6>1. mine'[d] = p
            BY <3>1, <5>1
          <6>2. QED
            BY <2>1, <2>5, <6>1 DEF PoolSound, Users
        <5>4. QED
          BY <5>1, <5>2, <5>3
      <4>2. QED
        BY <2>2, <4>1
    <3>3. ASSUME NEW p, p = mine[d]
          PROVE  Fits(d, p)'
      BY <3>1, <3>2, <3>3, FitsStays
    <3>4. QED
      BY <3>1, <3>3 DEF Fits
  <2>6. Fits(c, mine[c])'
    <3>1. CASE mine'[c] \in Pipeline
      <4>1. PICK p \in Pipeline : p = mine'[c]
        BY <3>1
      <4>2. Fits(c, p)'
        BY <2>3, <4>1
      <4>3. QED
        BY <4>1, <4>2 DEF Fits
    <3>2. CASE mine'[c] = NoPipeline /\ mine[c] \in Pipeline
      <4>1. Fits(c, NoPipeline)'
        BY <2>1, <2>3, <3>2
      <4>2. QED
        BY <3>2, <4>1 DEF Fits
    <3>3. CASE mine'[c] = NoPipeline /\ mine[c] = NoPipeline
      <4>1. pc'[c] \notin Held /\ pc[c] \notin Held /\ pc \in [Call -> Stages]
        BY <2>1, <3>3 DEF Typed, CallTyped
      <4>2. FetchOne(c) \/ FetchNone(c) \/ Build(c) \/ BuildFails(c)
        BY <1>1, <4>1 DEF Fetch, Step, Prepare, PrepareFails, Run, Work, RunReturns, Deal,
           DealFails, StreamEnds, StreamBreaks, Returns, RunFailed, Raises, Held
      <4>3. pc'[c] \in {"prepare", "build", "prepared", "raised"}
        BY <4>1, <4>2 DEF FetchOne, FetchNone, Build, BuildFails, Goto
      <4>4. QED
        BY <4>1, <4>3 DEF Fits, Held
    <3>4. QED
      BY <2>1, <3>1, <3>2, <3>3
  <2>7. QED
    BY <2>4, <2>5, <2>6 DEF Own
<1>2. CASE UNCHANGED vars
  <2>1. /\ \A p : SameRun(p)
        /\ UNCHANGED <<pc, mine, answer>>
    BY <1>2 DEF vars, runVars, callVars, SameRun
  <2>2. \A p : Fresh(p) => Fresh(p)'
    BY <2>1 DEF SameRun, Fresh, AtRest, EmptyInput
  <2>3. ASSUME NEW c \in Call
        PROVE  Fits(c, mine[c])'
    <3>1. PICK p : p = mine[c]
      OBVIOUS
    <3>2. Fits(c, p)'
      BY <2>1, <3>1, FitsStays DEF Own
    <3>3. QED
      BY <2>1, <3>1, <3>2 DEF Fits
  <2>4. QED
    BY <2>1, <2>2, <2>3 DEF Own
<1>3. QED
  BY <1>1, <1>2 DEF Next, Quiet

LEMMA OwnInvariant == Spec => [](Typed /\ PoolSound /\ Own)
<1>1. ASSUME Init
      PROVE  Own
  <2>1. \A p \in Pipeline : Fresh(p)
    BY <1>1 DEF Init, RunInit, Fresh, AtRest, EmptyInput
  <2>2. \A c \in Call : pc[c] = "idle"
    BY <1>1 DEF Init
  <2>3. QED
    BY <2>1, <2>2 DEF Own, Fits, Held
<1>2. Typed /\ PoolSound /\ Own /\ [Next]_vars => Own'
  BY OwnStep
<1>3. QED
  BY <1>1, <1>2, PoolInvariant, PTL DEF Spec

\* On whatever pipeline earlier calls have used, failed on or left behind, an
\* answer is made from the data of its own call.
THEOREM AnswersNotMixed == Spec => []AnswersAreOwn
<1>1. Own => AnswersAreOwn
  BY DEF Own, Fits, AnswersAreOwn
<1>2. QED
  BY <1>1, OwnInvariant, PTL

\* However many nodes start at once, none works without the call's query.
THEOREM NodesSeeInput == Spec => []InputReachesNodes
<1>1. Own => InputReachesNodes
  BY DEF Own, Fits, RunOwn, InputReachesNodes
<1>2. QED
  BY <1>1, OwnInvariant, PTL

\* However many nodes assign back their copies of the state at once, no result
\* is lost.
THEOREM ResultsNotLost == Spec => []ResultsSurvive
<1>1. ASSUME Typed, Own, NEW p \in Pipeline, NEW n \in Node,
             node[p][n] = "done", n \notin Lenient, failed[p] = "none"
      PROVE  state[p][n] \cup state[p]["stream_generator"] # {}
  <2>1. ~Fresh(p) /\ ~AtRest(p)
    BY <1>1 DEF Fresh, AtRest
  <2>2. PICK c \in Call : mine[c] = p
    BY <1>1, <2>1 DEF Own
  <2>3. pc[c] \in Held
    BY <1>1, <2>2, SchedulerAssumption DEF Typed, CallTyped
  <2>4. RunOwn(p, c)
    BY <1>1, <2>1, <2>2, <2>3 DEF Own, Fits
  <2>5. QED
    BY <1>1, <2>4 DEF RunOwn, ResultOf
<1>2. Typed /\ Own => ResultsSurvive
  BY <1>1 DEF ResultsSurvive
<1>3. QED
  BY <1>2, OwnInvariant, PTL
=============================================================================
