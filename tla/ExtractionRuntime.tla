-------------------------- MODULE ExtractionRuntime --------------------------
(***************************************************************************)
(* aextract_graph with a model factory (hugegraph_llm_sdk/api.py): groups  *)
(* of MaxWorkers chunks are run by native-async workers (arun_chunks), the *)
(* models created for a group are closed before the next group starts      *)
(* (OwnedModels), and the caller may cancel at any time, repeatedly.       *)
(*                                                                         *)
(* One event loop: a step of this module is what one task does between two *)
(* awaits.  Task.cancel makes the task's next step raise CancelledError;   *)
(* gather cancels its tasks when its waiter is cancelled, and hands the    *)
(* first exception to its waiter at once.                                  *)
(***************************************************************************)
EXTENDS ChunkReview, Sequences, FiniteSets

CONSTANTS NumChunks,   \* length of texts
          MaxWorkers,  \* ExtractionOptions.max_workers
          MaxCancels   \* bound on the caller's cancellations

ASSUME RuntimeAssumption ==
  /\ NumChunks \in Nat \ {0}
  /\ MaxWorkers \in Nat \ {0}
  /\ MaxCancels \in Nat

Chunk == 1 .. NumChunks
Worker == 1 .. MaxWorkers

VARIABLES
  review,      \* the argument of that name
  stage,       \* where aextract_graph waits: gather, drain or close
  outcome,     \* how it ended
  groupEnd,    \* last chunk of the current group
  collected,   \* results of the groups before
  cancels,     \* how often the caller has cancelled
  cancelling,  \* a cancellation not yet raised in aextract_graph
  raised,      \* did the group's body raise CancelledError?
  cursor,      \* last chunk taken from the iterator
  results,     \* the group's result slots, one per chunk taken
  stopped,     \* the flag the workers share
  wpc,         \* where each worker stands
  slot,        \* the slot of its chunk
  row,         \* its chunk's loop
  using,       \* the model it calls, named by the chunk it was created for
  wcancel,     \* was the worker's task cancelled?
  model,       \* each model: none, open or closed
  closes,      \* how often close was called on it
  closeFailed, \* did a close raise an error?
  closeRaised  \* did a close raise CancelledError?

mainVars == <<review, stage, outcome, groupEnd, collected, cancels, cancelling, raised>>
groupVars == <<cursor, results, stopped>>
workerVars == <<wpc, slot, row, using, wcancel>>
modelVars == <<model, closes, closeFailed, closeRaised>>
vars == <<mainVars, groupVars, workerVars, modelVars>>

Result == [chunk : Chunk, row : ChunkRow]

TypeOK ==
  /\ review \in BOOLEAN
  /\ stage \in {"gather", "drain", "close", "done"}
  /\ outcome \in {"none", "ok", "cancelled", "error"}
  /\ groupEnd \in Chunk
  /\ collected \in Seq(Result)
  /\ cancels \in 0 .. MaxCancels
  /\ cancelling \in BOOLEAN
  /\ raised \in BOOLEAN
  /\ cursor \in 0 .. NumChunks
  /\ results \in Seq(Result)
  /\ stopped \in BOOLEAN
  /\ wpc \in [Worker -> {"new", "yield", "call", "done", "raised"}]
  /\ slot \in [Worker -> Nat]
  /\ row \in [Worker -> ChunkRow]
  /\ using \in [Worker -> Chunk]
  /\ wcancel \in [Worker -> BOOLEAN]
  /\ model \in [Chunk -> {"none", "open", "closed"}]
  /\ closes \in [Chunk -> Nat]
  /\ closeFailed \in BOOLEAN
  /\ closeRaised \in BOOLEAN

\* Mutation: all chunks in one group.
OneGroup(from) == NumChunks

\* Mutation: the last group is not clipped.
GroupEndUnclipped(from) == from + MaxWorkers

\* The last chunk of the group that begins after chunk from.
GroupEnd(from) == IF from + MaxWorkers < NumChunks THEN from + MaxWorkers ELSE NumChunks

\* A group's tasks are created and gathered; locals not in use have an
\* arbitrary fixed value.
Init ==
  /\ review \in BOOLEAN
  /\ stage = "gather"
  /\ outcome = "none"
  /\ groupEnd = GroupEnd(0)
  /\ collected = <<>>
  /\ cancels = 0
  /\ cancelling = FALSE
  /\ raised = FALSE
  /\ cursor = 0
  /\ results = <<>>
  /\ stopped = FALSE
  /\ wpc = [w \in Worker |-> "new"]
  /\ slot = [w \in Worker |-> 0]
  /\ row = [w \in Worker |-> Begin(review)]
  /\ using = [w \in Worker |-> 1]
  /\ wcancel = [w \in Worker |-> FALSE]
  /\ model = [k \in Chunk |-> "none"]
  /\ closes = [k \in Chunk |-> 0]
  /\ closeFailed = FALSE
  /\ closeRaised = FALSE
-----------------------------------------------------------------------------
(* A worker of arun_chunks                                                 *)

Finished(w) == wpc[w] \in {"done", "raised"}

\* The worker leaves its chunk and goes where label says.
Leave(w, label) ==
  /\ wpc' = [wpc EXCEPT ![w] = label]
  /\ slot' = [slot EXCEPT ![w] = 0]
  /\ row' = [row EXCEPT ![w] = Begin(review)]
  /\ using' = [using EXCEPT ![w] = 1]

\* The first check of the flag, up to the sleep.
Start(w) ==
  /\ wpc[w] = "new" /\ ~wcancel[w]
  /\ Leave(w, IF stopped THEN "done" ELSE "yield")
  /\ UNCHANGED <<mainVars, groupVars, wcancel, modelVars>>

\* OwnedModels.add refuses a model seen before, also one closed since.
Seen(m) == model[m] # "none"

\* prepare: the factory fails, or returns model m, which is new, or not; a
\* new model is owned even if it is unsuitable and the chunk fails.
PrepareFails(w, k) ==
  /\ results' = Append(results, [chunk |-> k, 
                                row |-> [CallFailed(Begin(review)) EXCEPT !.calls = 0]])
  /\ Leave(w, "yield")
  /\ \/ UNCHANGED model
     \/ ~Seen(k) /\ model' = [model EXCEPT ![k] = "open"]

PrepareSucceeds(w, k, m) ==
  /\ m = k \/ model[m] # "none"
  /\ ~Seen(m)
  /\ model' = [model EXCEPT ![m] = IF @ = "none" THEN "open" ELSE @]
  /\ results' = Append(results, [chunk |-> k, row |-> Begin(review)])
  /\ slot' = [slot EXCEPT ![w] = Len(results) + 1]
  /\ row' = [row EXCEPT ![w] = Begin(review)]
  /\ using' = [using EXCEPT ![w] = m]
  /\ wpc' = [wpc EXCEPT ![w] = "call"]

\* After the sleep: stop, find the iterator exhausted, or take the next
\* chunk, reserve its slot, prepare a bundle, and call extract.
TakeChunk(w) ==
  /\ wpc[w] = "yield" /\ ~wcancel[w]
  /\ IF stopped \/ cursor = groupEnd
     THEN Leave(w, "done") /\ UNCHANGED <<cursor, results, model>>
     ELSE /\ cursor' = cursor + 1
          /\ \/ PrepareFails(w, cursor + 1)
             \/ \E m \in Chunk : PrepareSucceeds(w, cursor + 1, m)
  /\ UNCHANGED <<mainVars, stopped, wcancel, closes, closeFailed, closeRaised>>

\* Mutation: results are kept in the order in which chunks finish.
StoreLast(w, r) ==
  LET others == [i \in 1 .. Len(results) - 1 |->
                   IF i < slot[w] THEN results[i] ELSE results[i + 1]]
  IN  Append(others, [results[slot[w]] EXCEPT !.row = r])

\* The finished chunk goes into its slot.
Store(w, r) == [results EXCEPT ![slot[w]].row = r]

\* A model call of arun_chunk returns or fails, and the loop goes on to its
\* next call or ends.
CallReturns(w) ==
  /\ wpc[w] = "call" /\ ~wcancel[w]
  /\ \E r \in Answers(row[w]) :
       IF r.status = "none"
       THEN row' = [row EXCEPT ![w] = r] /\ UNCHANGED <<wpc, slot, using, results>>
       ELSE results' = Store(w, r) /\ Leave(w, "yield")
  /\ UNCHANGED <<mainVars, cursor, stopped, wcancel, modelVars>>

\* CancelledError: of the worker's own cancellation, which a task that has not
\* begun does not even notice, or of a client whose own task was cancelled.
\* No chunk result comes of it.
WorkerRaises(w) ==
  /\ ~Finished(w)
  /\ wcancel[w] \/ wpc[w] = "call"
  /\ stopped' = (stopped \/ wpc[w] # "new")
  /\ Leave(w, "raised")
  /\ UNCHANGED <<mainVars, cursor, results, wcancel, modelVars>>

WorkerStep(w) == Start(w) \/ TakeChunk(w) \/ CallReturns(w) \/ WorkerRaises(w)
-----------------------------------------------------------------------------
(* aextract_graph and arun_chunks                                          *)

AllFinished == \A w \in Worker : Finished(w)

\* gather has its result, or the exception of one of its tasks.
GatherDone == AllFinished \/ \E w \in Worker : wpc[w] = "raised"

CancelWorkers == wcancel' = [w \in Worker |-> wcancel[w] \/ ~Finished(w)]

\* Every worker has returned: the group's results are the slots.
GroupReturns ==
  /\ stage = "gather"
  /\ \A w \in Worker : wpc[w] = "done"
  /\ ~cancelling
  /\ collected' = collected \o results
  /\ stage' = "close"
  /\ UNCHANGED <<review, outcome, groupEnd, cancels, cancelling, raised, groupVars,
                 workerVars, modelVars>>

\* An exception of a worker or a cancellation: stop and cancel every worker,
\* and wait for them.
GroupRaises ==
  /\ stage = "gather"
  /\ GatherDone
  /\ cancelling \/ \E w \in Worker : wpc[w] = "raised"
  /\ stopped' = TRUE
  /\ CancelWorkers
  /\ stage' = "drain"
  /\ raised' = TRUE
  /\ cancelling' = FALSE
  /\ UNCHANGED <<review, outcome, groupEnd, collected, cancels, cursor, results, wpc, slot,
                 row, using, modelVars>>

\* The body is over, and __aexit__ begins.
ToCleanup ==
  /\ stage' = "close"
  /\ cancelling' = FALSE
  /\ UNCHANGED <<review, outcome, groupEnd, collected, cancels, raised, groupVars,
                 workerVars, modelVars>>

\* Mutation: the workers are cancelled but not awaited.
DrainedAtOnce == stage = "drain" /\ ToCleanup

\* Mutation: every worker is expected to raise CancelledError.
DrainedByRaising ==
  stage = "drain" /\ (\A w \in Worker : wpc[w] = "raised") /\ ToCleanup

\* The second gather returns when all have ended, cancelled or not.
Drained == stage = "drain" /\ AllFinished /\ ToCleanup

\* _aclose_all, in a task of its own: the models of the group, last one
\* first; an error or a client's own cancellation does not skip the others.
CloseModel ==
  /\ stage = "close"
  /\ \E k \in Chunk :
       /\ model[k] = "open"
       /\ \A j \in Chunk : model[j] = "open" => j <= k
       /\ model' = [model EXCEPT ![k] = "closed"]
       /\ closes' = [closes EXCEPT ![k] = @ + 1]
  /\ \/ UNCHANGED <<closeFailed, closeRaised>>
     \/ closeFailed' = TRUE /\ UNCHANGED closeRaised
     \/ closeRaised' = TRUE /\ UNCHANGED closeFailed
  /\ UNCHANGED <<mainVars, groupVars, workerVars>>

NoneOpen == \A k \in Chunk : model[k] # "open"

\* Mutation: without the shielded loop a cancellation ends the cleanup.
CleanupInterrupted == NoneOpen \/ cancelling

\* __aexit__ waits in a loop until the cleanup task is done.
CleanupDone == NoneOpen

\* Mutation: a cancellation that arrives during the cleanup is swallowed.
CancellationOfBody == raised \/ closeRaised

\* __aexit__ raises a cancellation of the body, of the cleanup, or of a client.
Cancellation == raised \/ cancelling \/ closeRaised

NextGroup ==
  /\ stage' = "gather"
  /\ groupEnd' = GroupEnd(groupEnd)
  /\ results' = <<>>
  /\ wpc' = [w \in Worker |-> "new"]
  /\ UNCHANGED <<outcome, cursor, stopped, slot, row, using, wcancel>>

End(result) ==
  /\ stage' = "done"
  /\ outcome' = result
  /\ UNCHANGED <<groupEnd, groupVars, workerVars>>

LeaveGroup ==
  /\ stage = "close"
  /\ CleanupDone
  /\ IF Cancellation THEN End("cancelled")
     ELSE IF closeFailed THEN End("error")
     ELSE IF groupEnd < NumChunks THEN NextGroup
     ELSE End("ok")
  /\ UNCHANGED <<review, collected, cancels, cancelling, raised, modelVars>>

MainStep == GroupReturns \/ GroupRaises \/ Drained \/ CloseModel \/ LeaveGroup

\* The caller cancels: gather passes it on to its tasks, the cleanup task is
\* shielded from it.
Cancel ==
  /\ stage # "done"
  /\ cancels < MaxCancels
  /\ cancels' = cancels + 1
  /\ cancelling' = TRUE
  /\ IF stage = "drain" \/ (stage = "gather" /\ ~GatherDone)
     THEN CancelWorkers
     ELSE UNCHANGED wcancel
  /\ UNCHANGED <<review, stage, outcome, groupEnd, collected, raised, groupVars, wpc, slot,
                 row, using, modelVars>>

\* The caller has its answer.
Over == stage = "done" /\ UNCHANGED vars

Next == MainStep \/ Cancel \/ Over \/ \E w \in Worker : WorkerStep(w)

Spec == Init /\ [][Next]_vars

\* The event loop runs every task that can go on, and every model call, and
\* every close, ends one day.
Fairness == WF_vars(MainStep) /\ \A w \in Worker : WF_vars(WorkerStep(w))

FairSpec == Spec /\ Fairness
-----------------------------------------------------------------------------
(* Safety                                                                  *)

\* Every chunk's row that is worked on or handed out.
Rows == {row[w] : w \in Worker} \cup {results[i].row : i \in DOMAIN results}
          \cup {collected[i].row : i \in DOMAIN collected}

\* Reviews and repairs stay within the options, and with them the number of
\* paid model calls, on every path through the loop (run_chunk).
WithinBudget == \A r \in Rows : Bounded(r)

\* A status is never better than what is known of the very graph handed out:
\* final needs a passed review after the last repair, candidate a valid graph
\* and a spent budget (run_chunk; _aggregate persists final chunks only).
StatusEarned == \A r \in Rows : Earned(r)

\* No worker calls a closed model: all workers have ended before the cleanup
\* begins, also when the caller cancels again meanwhile, and a factory cannot
\* bring back a model of an earlier group (arun_chunks, OwnedModels.add).
ModelsUsable == \A w \in Worker : wpc[w] = "call" => model[using[w]] = "open"

\* Open clients do not accumulate over the groups (the comment in
\* aextract_graph: completed chunks must not accumulate open connections).
OpenBounded == Cardinality({k \in Chunk : model[k] = "open"}) <= MaxWorkers

\* Every model is closed once, and none is left open at the end, however often
\* the caller cancels and whichever close fails (OwnedModels.__aexit__).
ClosedOnce ==
  \A k \in Chunk : /\ closes[k] <= 1
                   /\ stage = "done" => closes[k] = IF model[k] = "none" THEN 0 ELSE 1

\* A successful call returns one result per chunk, in the order of the texts,
\* each one finished ("Every reserved slot is filled" in arun_chunks).
ResultsInOrder ==
  outcome = "ok" =>
    /\ Len(collected) = NumChunks
    /\ \A k \in Chunk : collected[k].chunk = k /\ collected[k].row.status # "none"

\* A cancellation is never swallowed: not by a worker that turns it into a
\* failed chunk, not by the cleanup (arun_chunks, OwnedModels.__aexit__).
CancelReachesCaller == stage = "done" /\ cancels > 0 => outcome = "cancelled"

\* Every call ends, cancelled or not (arun_chunks, OwnedModels.__aexit__).
Terminates == <>(stage = "done")

=============================================================================
