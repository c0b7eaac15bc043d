---------------------------- MODULE FlowScheduler ----------------------------
(***************************************************************************)
(* The Scheduler of hugegraph-llm (flows/scheduler.py) for one flow: calls *)
(* of schedule_flow and schedule_stream_flow share the pipelines of its    *)
(* GPipelineManager, whose fetch, add and release are atomic.  A call that *)
(* fetches nothing builds a pipeline, and adds it to the pool only at the  *)
(* end; one that fetches a pipeline prepares its input again and releases  *)
(* it in a finally clause.                                                 *)
(***************************************************************************)
EXTENDS FlowRun

CONSTANTS Streaming,  \* the calls of schedule_stream_flow
          NoPipeline, \* "pipeline is None"
          MaxActive   \* bound on the calls under way at once

ASSUME SchedulerAssumption ==
  /\ Streaming \subseteq Call
  /\ NoPipeline \notin Pipeline
  /\ MaxActive \in Nat \ {0}

VARIABLES
  pool,   \* each pipeline: none (not built), new (not in the pool), free, busy
  pc,     \* what each call does
  mine,   \* the pipeline it works with
  runs,   \* how often it has run one
  answer  \* what it has handed to its client

callVars == <<pool, pc, mine, runs, answer>>
vars == <<runVars, callVars>>

Held == {"prepare", "prepared", "running", "deal", "stream", "dealt", "error", "raising"}
Stages == Held \cup {"idle", "build", "returned", "raised"}
Over(c) == pc[c] \in {"returned", "raised"}

TypeOK ==
  /\ input \in [Pipeline -> [data_json : SUBSET Call, stream : BOOLEAN]]
  /\ state \in [Pipeline -> [Key -> SUBSET Call]]
  /\ node \in [Pipeline -> [Node ->
       {"waiting", "assigning", "clearing", "ready", "working", "done"}]]
  /\ \A p \in Pipeline, n \in Node :
       /\ DOMAIN seen[p][n] \subseteq Key
       /\ \A k \in DOMAIN seen[p][n] : seen[p][n][k] \subseteq Call
  /\ failed \in [Pipeline -> {"none", "status", "exception"}]
  /\ pool \in [Pipeline -> {"none", "new", "free", "busy"}]
  /\ pc \in [Call -> Stages]
  /\ mine \in [Call -> Pipeline \cup {NoPipeline}]
  /\ runs \in [Call -> Nat]
  /\ answer \in [Call -> SUBSET Call]
  /\ \A c \in Call : mine[c] # NoPipeline <=> pc[c] \in Held

Init ==
  /\ RunInit
  /\ pool = [p \in Pipeline |-> "none"]
  /\ pc = [c \in Call |-> "idle"]
  /\ mine = [c \in Call |-> NoPipeline]
  /\ runs = [c \in Call |-> 0]
  /\ answer = [c \in Call |-> {}]

Goto(c, stage) == pc' = [pc EXCEPT ![c] = stage]

Active == {c \in Call : pc[c] # "idle" /\ ~Over(c)}

Begins(c) == pc[c] = "idle" /\ Cardinality(Active) < MaxActive

\* manager.fetch() finds a free pipeline.
FetchOne(c) ==
  /\ Begins(c)
  /\ \E p \in Pipeline :
       /\ pool[p] = "free"
       /\ pool' = [pool EXCEPT ![p] = "busy"]
       /\ mine' = [mine EXCEPT ![c] = p]
  /\ Goto(c, "prepare")
  /\ UNCHANGED <<runVars, runs, answer>>

\* manager.fetch() returns None.
FetchNone(c) ==
  /\ Begins(c)
  /\ \A p \in Pipeline : pool[p] # "free"
  /\ Goto(c, "build")
  /\ UNCHANGED <<runVars, pool, mine, runs, answer>>

\* flow.prepare; a streaming call sets stream, any other leaves it as it is.
Prepared(in, c) == [data_json |-> {c}, stream |-> in.stream \/ c \in Streaming]

Unbuilt == {p \in Pipeline : pool[p] = "none"}

\* flow.build_flow: a pipeline of this call's own, prepared and initialised.
\* Which of the unbuilt ones it is makes no difference.
Build(c) ==
  /\ pc[c] = "build"
  /\ Unbuilt # {}
  /\ LET p == CHOOSE q \in Unbuilt : TRUE
     IN /\ pool' = [pool EXCEPT ![p] = "new"]
        /\ mine' = [mine EXCEPT ![c] = p]
        /\ input' = [input EXCEPT ![p] = Prepared(EmptyInput, c)]
  /\ Goto(c, "prepared")
  /\ UNCHANGED <<state, node, seen, failed, runs, answer>>

\* prepare refuses the arguments, or init returns an error.
BuildFails(c) ==
  /\ pc[c] = "build"
  /\ Goto(c, "raised")
  /\ UNCHANGED <<runVars, pool, mine, runs, answer>>

Prepare(c) ==
  /\ pc[c] = "prepare"
  /\ input' = [input EXCEPT ![mine[c]] = Prepared(@, c)]
  /\ Goto(c, "prepared")
  /\ UNCHANGED <<state, node, seen, failed, pool, mine, runs, answer>>

\* Only flows that do not stream refuse arguments.
PrepareFails(c) ==
  /\ pc[c] = "prepare"
  /\ c \notin Streaming
  /\ Goto(c, "raising")
  /\ UNCHANGED <<runVars, pool, mine, runs, answer>>

Run(c) ==
  /\ pc[c] = "prepared"
  /\ RunStarts(mine[c])
  /\ runs' = [runs EXCEPT ![c] = @ + 1]
  /\ Goto(c, "running")
  /\ UNCHANGED <<pool, mine, answer>>

Work(c, n) ==
  /\ pc[c] = "running"
  /\ NodeStep(mine[c], n)
  /\ UNCHANGED callVars

\* What the scheduler does next.
AfterRun == [none |-> "deal", status |-> "error", exception |-> "raising"]

\* Mutation: the pipeline is put back as soon as its run is over.
RunReturnsPipeline(c) ==
  /\ pc[c] = "running"
  /\ RunEnds(mine[c])
  /\ pool' = [pool EXCEPT ![mine[c]] = "free"]
  /\ Goto(c, AfterRun[failed[mine[c]]])
  /\ UNCHANGED <<mine, runs, answer>>

RunReturns(c) ==
  /\ pc[c] = "running"
  /\ RunEnds(mine[c])
  /\ Goto(c, AfterRun[failed[mine[c]]])
  /\ UNCHANGED <<pool, mine, runs, answer>>

\* post_deal and post_deal_stream read the state: the answer, or the generator
\* that makes it.
Deal(c) ==
  /\ pc[c] = "deal"
  /\ LET key == IF c \in Streaming THEN "stream_generator" ELSE Final
     IN answer' = [answer EXCEPT ![c] = state[mine[c]][key]]
  /\ Goto(c, IF c \in Streaming THEN "stream" ELSE "dealt")
  /\ UNCHANGED <<runVars, pool, mine, runs>>

DealFails(c) ==
  /\ pc[c] = "deal"
  /\ c \notin Streaming
  /\ Goto(c, "raising")
  /\ UNCHANGED <<runVars, pool, mine, runs, answer>>

\* The client has taken every chunk.
StreamEnds(c) ==
  /\ pc[c] = "stream"
  /\ Goto(c, "dealt")
  /\ UNCHANGED <<runVars, pool, mine, runs, answer>>

\* The client leaves, or the model fails while it streams.
StreamBreaks(c) ==
  /\ pc[c] = "stream"
  /\ Goto(c, "raising")
  /\ UNCHANGED <<runVars, pool, mine, runs, answer>>

Leave(c, end) ==
  /\ mine' = [mine EXCEPT ![c] = NoPipeline]
  /\ Goto(c, end)
  /\ UNCHANGED <<runVars, runs, answer>>

PutBack(c) == pool' = [pool EXCEPT ![mine[c]] = "free"]

\* Mutation: a stream's first run goes on into the reuse path.
FallsThrough(c) ==
  /\ pc[c] = "dealt"
  /\ PutBack(c)
  /\ IF c \in Streaming /\ pool[mine[c]] = "new"
     THEN /\ Goto(c, "prepare")
          /\ UNCHANGED <<runVars, mine, runs, answer>>
     ELSE Leave(c, "returned")

\* Mutation: the call goes on holding what it has returned.
ReturnsHolding(c) ==
  /\ pc[c] = "dealt"
  /\ PutBack(c)
  /\ Goto(c, "returned")
  /\ UNCHANGED <<runVars, mine, runs, answer>>

\* manager.add or manager.release, then return.
Returns(c) ==
  /\ pc[c] = "dealt"
  /\ PutBack(c)
  /\ Leave(c, "returned")

\* The run's status was an error: the pipeline goes (back) to the pool.
RunFailed(c) ==
  /\ pc[c] = "error"
  /\ PutBack(c)
  /\ Leave(c, "raised")

\* Mutation: no finally.
RaisesWithoutFinally(c) ==
  /\ pc[c] = "raising"
  /\ UNCHANGED pool
  /\ Leave(c, "raised")

\* An exception leaves through the finally clause if the pipeline was fetched;
\* one that was built for this call is never added.
Raises(c) ==
  /\ pc[c] = "raising"
  /\ IF pool[mine[c]] = "busy" THEN PutBack(c) ELSE UNCHANGED pool
  /\ Leave(c, "raised")

Fetch(c) == FetchOne(c) \/ FetchNone(c)

Step(c) ==
  \/ Build(c) \/ BuildFails(c)
  \/ Prepare(c) \/ PrepareFails(c)
  \/ Run(c) \/ (\E n \in Node : Work(c, n)) \/ RunReturns(c)
  \/ Deal(c) \/ DealFails(c)
  \/ StreamEnds(c) \/ StreamBreaks(c)
  \/ Returns(c) \/ RunFailed(c) \/ Raises(c)

\* Every call has ended: nothing more happens.
Quiet ==
  /\ \A c \in Call : Over(c)
  /\ UNCHANGED vars

Next == (\E c \in Call : Fetch(c) \/ Step(c)) \/ Quiet

Spec == Init /\ [][Next]_vars

\* Threads run, a model answers or fails, and a client reads its stream or
\* goes away.
Fairness == WF_vars(\E c \in Call : Step(c))

FairSpec == Spec /\ Fairness

-----------------------------------------------------------------------------

Users(p) == {c \in Call : mine[c] = p}

\* A pipeline serves one call at a time, and is in the pool for the next one
\* exactly when no call still works with it: neither a stream that is being
\* read nor a failed call may share it or keep it (fetch, add and release in
\* schedule_flow and schedule_stream_flow).
PoolSound ==
  \A p \in Pipeline :
    /\ \A c, d \in Users(p) : c = d
    /\ pool[p] \in {"none", "free"} => Users(p) = {}
    /\ pool[p] = "busy" => Users(p) # {}

\* An answer comes from the data of its own call and has the call's form, on
\* whatever pipeline earlier calls have used, failed on or left behind (setup
\* and reset in state/ai_state.py, prepare before every run).
AnswersAreOwn ==
  \A c \in Call : pc[c] \in {"stream", "dealt", "returned"} => answer[c] = {c}

\* A call runs a pipeline at most once, streaming or not (issue #360, the
\* return after manager.add in schedule_stream_flow).
RunsOnce == \A c \in Call : runs[c] <= 1

\* No node works on a dictionary without the call's query, however the node
\* that assigns data_json and clears it is interleaved with the others
\* (node_init in nodes/base_node.py).
InputReachesNodes ==
  \A c \in Call, n \in Node :
    pc[c] = "running" /\ node[mine[c]][n] = "working" =>
      "query" \in DOMAIN seen[mine[c]][n] /\ seen[mine[c]][n]["query"] = {c}

\* What a node has added to the state stays there until the run is over,
\* although every node assigns back a copy taken before the others wrote: no
\* node still holds a copy that would take the result away (to_json and
\* assign_from_json in state/ai_state.py, run in nodes/base_node.py).
ResultsSurvive ==
  \A p \in Pipeline, n \in Node :
    node[p][n] = "done" /\ n \notin Lenient /\ failed[p] = "none" =>
      state[p][n] \cup state[p]["stream_generator"] # {}

\* Every fetched pipeline is given back for good: a failing node, a client that
\* leaves in the middle of a stream and an exception all lead to release.
PoolDrains == <>[](\A p \in Pipeline : pool[p] # "busy")
==============================================================================
