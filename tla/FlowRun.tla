------------------------------- MODULE FlowRun -------------------------------
(***************************************************************************)
(* One run of a pipeline of hugegraph-llm: the nodes of a flow's graph run *)
(* on the threads of pycgraph over one WkFlowInput and one WkFlowState     *)
(* (nodes/base_node.py, state/ai_state.py).                                *)
(*                                                                         *)
(* A value of the state is the set of the calls it was computed from; {}   *)
(* is None.  The state is modelled with one key per node, its result, and  *)
(* the two keys that are written otherwise.  The interpreter may switch    *)
(* threads between a test and the statement after it, so a node's          *)
(* initialisation is three steps.                                          *)
(***************************************************************************)
EXTENDS Naturals, FiniteSets

CONSTANTS Call,      \* calls of the scheduler
          Pipeline,  \* the pipelines a flow can have built
          Node,      \* nodes of the flow
          Final,     \* its last node, AnswerSynthesizeNode
          DependsOn, \* what registerGElement was given: Node -> SUBSET Node
          Lenient    \* nodes that answer a failure with their input, unchanged

ASSUME FlowAssumption ==
  /\ Final \in Node
  /\ DependsOn \in [Node -> SUBSET Node]
  /\ Lenient \subseteq Node \ {Final}

VARIABLES
  input,  \* WkFlowInput of each pipeline
  state,  \* its WkFlowState
  node,   \* what each of its nodes does
  seen,   \* the dictionary each node works on
  failed  \* how the run has failed: none, status or exception

runVars == <<input, state, node, seen, failed>>

Key == Node \cup {"query", "stream_generator"}
None == {}
EmptyInput == [data_json |-> None, stream |-> FALSE]

\* WkFlowState.setup.
Setup == [k \in Key |-> None]

\* Mutation: reset leaves stream alone.
ResetKeepsStream(in) == [EmptyInput EXCEPT !.stream = in.stream]

\* WkFlowInput.reset.
Reset(in) == EmptyInput

\* Mutation: None is exported as well.
ToJsonWithNone(s) == s

\* WkFlowState.to_json: what is not None.
ToJson(s) == [k \in {key \in Key : s[key] # None} |-> s[k]]

\* WkFlowState.assign_from_json.
Assign(s, data) == [k \in Key |-> IF k \in DOMAIN data THEN data[k] ELSE s[k]]

InFlight(p) == {n \in Node : node[p][n] \notin {"waiting", "done"}}

RunInit ==
  /\ input = [p \in Pipeline |-> EmptyInput]
  /\ state = [p \in Pipeline |-> Setup]
  /\ node = [p \in Pipeline |-> [n \in Node |-> "waiting"]]
  /\ seen = [p \in Pipeline |-> [n \in Node |-> ToJson(Setup)]]
  /\ failed = [p \in Pipeline |-> "none"]

\* The start of pipeline.run: the state is set up.
RunStarts(p) ==
  /\ state' = [state EXCEPT ![p] = Setup]
  /\ UNCHANGED <<input, node, seen, failed>>

Becomes(p, n, stage) == node' = [node EXCEPT ![p][n] = stage]

\* A node is started when the nodes it depends on are done, and none once the
\* run has failed; it finds data_json set, or not.
NodeStarts(p, n) ==
  /\ node[p][n] = "waiting"
  /\ failed[p] = "none"
  /\ \A m \in DependsOn[n] : node[p][m] = "done"
  /\ Becomes(p, n, IF input[p].data_json = None THEN "ready" ELSE "assigning")
  /\ UNCHANGED <<input, state, seen, failed>>

\* Mutation: data_json is cleared before it is assigned.
AssignsAfterClear(p, n) ==
  /\ node[p][n] = "assigning"
  /\ input' = [input EXCEPT ![p].data_json = None]
  /\ Becomes(p, n, "clearing")
  /\ UNCHANGED <<state, seen, failed>>

\* data_json is read again: another node may have cleared it, and None has no
\* items.
NodeAssigns(p, n) ==
  /\ node[p][n] = "assigning"
  /\ IF input[p].data_json = None
     THEN /\ Becomes(p, n, "done")
          /\ failed' = [failed EXCEPT ![p] = "exception"]
          /\ UNCHANGED state
     ELSE /\ Becomes(p, n, "clearing")
          /\ state' = [state EXCEPT ![p] = Assign(@, [query |-> input[p].data_json])]
          /\ UNCHANGED failed
  /\ UNCHANGED <<input, seen>>

NodeClears(p, n) ==
  /\ node[p][n] = "clearing"
  /\ input' = [input EXCEPT ![p].data_json = None]
  /\ Becomes(p, n, "ready")
  /\ UNCHANGED <<state, seen, failed>>

\* Under the lock the node copies the state.
NodeReads(p, n) ==
  /\ node[p][n] = "ready"
  /\ Becomes(p, n, "working")
  /\ seen' = [seen EXCEPT ![p][n] = ToJson(state[p])]
  /\ UNCHANGED <<input, state, failed>>

\* The dictionary is a local of the node's run.
Finishes(p, n) ==
  /\ Becomes(p, n, "done")
  /\ seen' = [seen EXCEPT ![p][n] = ToJson(Setup)]

Update(p, res) == state' = [state EXCEPT ![p] = Assign(@, res)]

\* What the operator adds to the dictionary: its result, made from all it was
\* given; the last node of a streaming call leaves a generator instead.
ResultKey(p, n) == IF n = Final /\ input[p].stream THEN "stream_generator" ELSE n
Worked(p, n) ==
  [k \in DOMAIN seen[p][n] \cup {ResultKey(p, n)} |->
     IF k = ResultKey(p, n) THEN UNION {seen[p][n][j] : j \in DOMAIN seen[p][n]}
     ELSE seen[p][n][k]]

\* The whole dictionary is assigned back, keys the operator never touched
\* included, whatever other nodes have written since it was copied.
NodeWrites(p, n) ==
  /\ node[p][n] = "working"
  /\ Update(p, Worked(p, n))
  /\ Finishes(p, n)
  /\ UNCHANGED <<input, failed>>

\* A lenient node logs its failure and returns the dictionary it was given.
NodeGivesUp(p, n) ==
  /\ node[p][n] = "working"
  /\ n \in Lenient
  /\ Update(p, seen[p][n])
  /\ Finishes(p, n)
  /\ UNCHANGED <<input, failed>>

\* ValueError, TypeError, KeyError and NotImplementedError become an error
\* status, anything else leaves pipeline.run as an exception.
NodeFails(p, n) ==
  /\ node[p][n] = "working"
  /\ Finishes(p, n)
  /\ \E how \in {"status", "exception"} : failed' = [failed EXCEPT ![p] = how]
  /\ UNCHANGED <<input, state>>

NodeStep(p, n) ==
  \/ NodeStarts(p, n)
  \/ NodeAssigns(p, n)
  \/ NodeClears(p, n)
  \/ NodeReads(p, n)
  \/ NodeWrites(p, n)
  \/ NodeGivesUp(p, n)
  \/ NodeFails(p, n)

\* pycgraph: pipeline.run returns when no node is left to run; the scheduler puts a
\* pipeline whose run failed back into the pool, so nothing of it may still run.
RunOver(p) ==
  \/ \A n \in Node : node[p][n] = "done"
  \/ failed[p] # "none" /\ InFlight(p) = {}

RunEnds(p) ==
  /\ RunOver(p)
  /\ input' = [input EXCEPT ![p] = Reset(@)]
  /\ node' = [node EXCEPT ![p] = [n \in Node |-> "waiting"]]
  /\ failed' = [failed EXCEPT ![p] = "none"]
  /\ UNCHANGED <<state, seen>>
==============================================================================
