--------------------------- MODULE ExtractionProofs ---------------------------
(***************************************************************************)
(* Theorems about ChunkReview and ExtractionRuntime, for every number of   *)
(* chunks, workers, reviews, repairs and cancellations.                    *)
(*   RowOK  what a chunk's row promises on every path through the loop;    *)
(*   Typed  types, and the slot of a worker;                               *)
(*   Staged what holds while workers are awaited and models closed;        *)
(*   Filled which chunks a group has taken, and who fills their slots.     *)
(***************************************************************************)
EXTENDS ExtractionRuntime, FiniteSetTheorems, SequenceTheorems, TLAPS

-----------------------------------------------------------------------------
(* One chunk                                                               *)

RowOK(r) ==
  /\ r \in ChunkRow /\ Bounded(r) /\ Earned(r)
  /\ r.call = "review" => r.valid /\ r.review
  /\ r.status = "none" <=> r.call # "none"

LEMMA BeginOK ==
  ASSUME NEW b \in BOOLEAN
  PROVE  RowOK(Begin(b)) /\ Begin(b).status = "none"
BY OptionsAssumption DEF RowOK, Begin, ChunkRow, Bounded, Earned, ChunkStatus

\* The next call is made only within its budget.
LEMMA CallsOK ==
  ASSUME NEW r \in ChunkRow, Bounded(r), r.status = "none"
  PROVE  /\ ~FixesSpent(r) => RowOK(CallRepair(r))
         /\ ~ReviewsSpent(r) /\ r.valid /\ r.review => RowOK(CallReview(r))
<1>1. ~FixesSpent(r) => RowOK(CallRepair(r))
  <2> DEFINE q == CallRepair(r)
  <2>1. /\ q \in ChunkRow /\ q.status = "none" /\ q.call = "repair"
        /\ q.fixes = r.fixes + 1 /\ q.reviews = r.reviews /\ q.calls = r.calls + 1
    <3>1. q = [r EXCEPT !.call = "repair", !.fixes = r.fixes + 1, !.calls = r.calls + 1]
      BY DEF CallRepair
    <3>2. r.fixes + 1 \in Nat /\ r.calls + 1 \in Nat
      BY DEF ChunkRow
    <3> HIDE DEF q
    <3>3. QED
      BY <3>1, <3>2 DEF ChunkRow
  <2>2. ~FixesSpent(r) => Bounded(q)
    BY <2>1, OptionsAssumption DEF Bounded, FixesSpent, ChunkRow
  <2>3. Earned(q)
    BY <2>1 DEF Earned
  <2>4. QED
    BY <2>1, <2>2, <2>3 DEF RowOK
<1>2. ~ReviewsSpent(r) /\ r.valid /\ r.review => RowOK(CallReview(r))
  <2> DEFINE q == CallReview(r)
  <2>1. /\ q \in ChunkRow /\ q.status = "none" /\ q.call = "review"
        /\ q.fixes = r.fixes /\ q.reviews = r.reviews + 1 /\ q.calls = r.calls + 1
        /\ q.valid = r.valid /\ q.review = r.review
    <3>1. q = [r EXCEPT !.call = "review", !.reviews = r.reviews + 1, !.calls = r.calls + 1]
      BY DEF CallReview
    <3>2. r.reviews + 1 \in Nat /\ r.calls + 1 \in Nat
      BY DEF ChunkRow
    <3> HIDE DEF q
    <3>3. QED
      BY <3>1, <3>2 DEF ChunkRow
  <2>2. ~ReviewsSpent(r) => Bounded(q)
    BY <2>1, OptionsAssumption DEF Bounded, ReviewsSpent, ChunkRow
  <2>3. Earned(q)
    BY <2>1 DEF Earned
  <2>4. QED
    BY <2>1, <2>2, <2>3 DEF RowOK
<1>3. QED
  BY <1>1, <1>2

\* The loop ends with a status that the row has earned.
LEMMA FinishOK ==
  ASSUME NEW r \in ChunkRow, Bounded(r), NEW s \in ChunkStatus,
         s = "final" => r.valid /\ r.decision = "pass",
         s = "validated" => r.valid /\ ~r.review,
         s = "candidate" => r.valid /\ (ReviewsSpent(r) \/ FixesSpent(r)),
         s = "blocked" => ~r.valid \/ r.decision = "block"
  PROVE  RowOK(Finish(r, s))
<1> DEFINE q == Finish(r, s)
<1>1. /\ q \in ChunkRow /\ q.status = s /\ q.call = "none" /\ q.valid = r.valid
      /\ q.review = r.review /\ q.decision = r.decision
      /\ q.fixes = r.fixes /\ q.reviews = r.reviews /\ q.calls = r.calls
  BY DEF Finish, ChunkRow
<1>2. Bounded(q) /\ (ReviewsSpent(q) <=> ReviewsSpent(r)) /\ (FixesSpent(q) <=> FixesSpent(r))
  BY <1>1 DEF Bounded, ReviewsSpent, FixesSpent
<1>3. Earned(q)
  BY <1>1, <1>2 DEF Earned, ChunkStatus
<1>4. QED
  BY <1>1, <1>2, <1>3 DEF RowOK, ChunkStatus

LEMMA GraphOK ==
  ASSUME NEW r, RowOK(r), r.status = "none", NEW v \in BOOLEAN
  PROVE  RowOK(GraphReturned(r, v))
<1> DEFINE q == [r EXCEPT !.valid = v, !.decision = "none"]
<1>1. /\ q \in ChunkRow /\ q.status = "none" /\ q.valid = v /\ q.review = r.review
      /\ q.fixes = r.fixes /\ q.reviews = r.reviews /\ q.calls = r.calls
  BY DEF RowOK, ChunkRow
<1>2. Bounded(q)
  BY <1>1 DEF RowOK, Bounded
<1> HIDE DEF q
<1>3. RowOK(Judge(q))
  <2>1. CASE ~q.review
    <3>1. Judge(q) = Finish(q, IF q.valid THEN "validated" ELSE "blocked")
      BY <2>1 DEF Judge
    <3>2. QED
      BY <1>1, <1>2, <2>1, <3>1, FinishOK DEF ChunkStatus
  <2>2. CASE q.review /\ ~q.valid /\ FixesSpent(q)
    BY <1>1, <1>2, <2>2, FinishOK DEF Judge, ChunkStatus
  <2>3. CASE q.review /\ ~q.valid /\ ~FixesSpent(q)
    BY <1>1, <1>2, <2>3, CallsOK DEF Judge
  <2>4. CASE q.review /\ q.valid /\ ReviewsSpent(q)
    BY <1>1, <1>2, <2>4, FinishOK DEF Judge, ChunkStatus
  <2>5. CASE q.review /\ q.valid /\ ~ReviewsSpent(q)
    BY <1>1, <1>2, <2>5, CallsOK DEF Judge
  <2>6. QED
    BY <2>1, <2>2, <2>3, <2>4, <2>5
<1>4. QED
  BY <1>3 DEF GraphReturned, q

LEMMA ReviewOK ==
  ASSUME NEW r, RowOK(r), r.call = "review", NEW d \in {"pass", "fix", "block"}
  PROVE  RowOK(ReviewReturned(r, d))
<1> DEFINE q == [r EXCEPT !.decision = d]
<1>1. /\ q \in ChunkRow /\ q.status = "none" /\ q.valid /\ q.decision = d
      /\ q.fixes = r.fixes /\ q.reviews = r.reviews /\ q.calls = r.calls
  BY DEF RowOK, ChunkRow
<1>2. Bounded(q)
  BY <1>1 DEF RowOK, Bounded
<1> HIDE DEF q
<1>3. /\ d = "pass" => RowOK(Finish(q, "final"))
      /\ d = "block" => RowOK(Finish(q, "blocked"))
      /\ FixesSpent(q) => RowOK(Finish(q, "candidate"))
      /\ ~FixesSpent(q) => RowOK(CallRepair(q))
  BY <1>1, <1>2, FinishOK, CallsOK DEF ChunkStatus
<1>4. /\ d = "pass" => ReviewReturned(r, d) = Finish(q, "final")
      /\ d = "block" => ReviewReturned(r, d) = Finish(q, "blocked")
      /\ d = "fix" => ReviewReturned(r, d) = IF FixesSpent(q) THEN Finish(q, "candidate")
                                             ELSE CallRepair(q)
  BY DEF ReviewReturned, q
<1>5. QED
  BY <1>3, <1>4

LEMMA FailedOK ==
  ASSUME NEW r, RowOK(r)
  PROVE  RowOK(CallFailed(r)) /\ CallFailed(r).status = "failed"
<1>1. RowOK(CallFailed(r))
  BY FinishOK DEF CallFailed, ChunkStatus, RowOK
<1>2. QED
  BY <1>1 DEF CallFailed, Finish, RowOK, ChunkRow

LEMMA AnswersOK ==
  ASSUME NEW r, RowOK(r), r.status = "none", NEW a \in Answers(r)
  PROVE  RowOK(a)
BY GraphOK, ReviewOK, FailedOK DEF Answers
-----------------------------------------------------------------------------
(* Types and rows                                                          *)

WorkersTyped ==
  /\ wpc \in [Worker -> {"new", "yield", "call", "done", "raised"}]
  /\ slot \in [Worker -> Nat]
  /\ using \in [Worker -> Chunk]
  /\ wcancel \in [Worker -> BOOLEAN]
  /\ \A w \in Worker : wpc[w] = "call" => slot[w] \in DOMAIN results

GroupTyped ==
  /\ results \in Seq(Result)
  /\ stopped \in BOOLEAN
  /\ groupEnd \in Chunk
  /\ cursor \in 0 .. groupEnd

ModelsTyped ==
  /\ model \in [Chunk -> {"none", "open", "closed"}]
  /\ closes \in [Chunk -> Nat]
  /\ closeFailed \in BOOLEAN
  /\ closeRaised \in BOOLEAN

MainTyped ==
  /\ review \in BOOLEAN
  /\ stage \in {"gather", "drain", "close", "done"}
  /\ outcome \in {"none", "ok", "cancelled", "error"}
  /\ collected \in Seq(Result)
  /\ cancels \in 0 .. MaxCancels
  /\ cancelling \in BOOLEAN
  /\ raised \in BOOLEAN

\* A worker's row is one the loop has not finished.
RowsOK ==
  /\ row \in [Worker -> ChunkRow]
  /\ \A w \in Worker : RowOK(row[w]) /\ row[w].status = "none"
  /\ \A i \in DOMAIN results : RowOK(results[i].row)
  /\ \A i \in DOMAIN collected : RowOK(collected[i].row)

Typed == WorkersTyped /\ GroupTyped /\ ModelsTyped /\ MainTyped /\ RowsOK

LEMMA GroupEndShape ==
  ASSUME NEW k \in 0 .. NumChunks - 1
  PROVE  /\ GroupEnd(k) \in Chunk /\ k < GroupEnd(k)
         /\ GroupEnd(k) <= NumChunks /\ GroupEnd(k) <= k + MaxWorkers
BY RuntimeAssumption DEF GroupEnd, Chunk

\* A worker that leaves its chunk.
LEMMA LeaveTyped ==
  ASSUME Typed, NEW w \in Worker, NEW label \in {"yield", "done", "raised"}, Leave(w, label),
         UNCHANGED <<mainVars, wcancel>>, DOMAIN results \subseteq DOMAIN results'
  PROVE  /\ WorkersTyped' /\ row' \in [Worker -> ChunkRow]
         /\ \A v \in Worker : RowOK(row'[v]) /\ row'[v].status = "none"
<1>1. 1 \in Chunk /\ review \in BOOLEAN
  BY RuntimeAssumption DEF Typed, MainTyped, Chunk
<1>2. RowOK(Begin(review)) /\ Begin(review).status = "none" /\ Begin(review) \in ChunkRow
  BY <1>1, BeginOK DEF RowOK
<1>3. row' \in [Worker -> ChunkRow] /\ \A v \in Worker : RowOK(row'[v]) /\ row'[v].status = "none"
  BY <1>2 DEF Leave, Typed, RowsOK
<1>4. WorkersTyped'
  BY <1>1 DEF Leave, Typed, WorkersTyped
<1>5. QED
  BY <1>3, <1>4

\* A chunk's slot is reserved and filled with row r.
LEMMA AppendTyped ==
  ASSUME Typed, NEW k \in Chunk, NEW r, RowOK(r),
         results' = Append(results, [chunk |-> k, row |-> r])
  PROVE  /\ results' \in Seq(Result) /\ DOMAIN results \subseteq DOMAIN results'
         /\ Len(results) + 1 \in DOMAIN results' /\ Len(results) + 1 \in Nat
         /\ \A i \in DOMAIN results' : RowOK(results'[i].row)
<1>1. [chunk |-> k, row |-> r] \in Result
  BY DEF Result, RowOK
<1>2. results \in Seq(Result) /\ \A i \in DOMAIN results : RowOK(results[i].row)
  BY DEF Typed, GroupTyped, RowsOK
<1>3. /\ results' \in Seq(Result) /\ DOMAIN results' = 1 .. Len(results) + 1
      /\ DOMAIN results = 1 .. Len(results) /\ Len(results) \in Nat
      /\ \A i \in 1 .. Len(results) : results'[i] = results[i]
      /\ results'[Len(results) + 1] = [chunk |-> k, row |-> r]
  BY <1>1, <1>2
<1>4. QED
  BY <1>2, <1>3

LEMMA WorkerTyped ==
  ASSUME Typed, NEW w \in Worker, WorkerStep(w)
  PROVE  Typed'
<1>1. MainTyped /\ GroupTyped /\ ModelsTyped /\ WorkersTyped /\ RowsOK
  BY DEF Typed
<1>2. UNCHANGED <<mainVars, wcancel>> /\ MainTyped'
  BY <1>1 DEF WorkerStep, Start, TakeChunk, CallReturns, WorkerRaises, mainVars, MainTyped
<1>3. CASE Start(w) \/ WorkerRaises(w) \/ (TakeChunk(w) /\ (stopped \/ cursor = groupEnd))
  <2>1. /\ \E label \in {"yield", "done", "raised"} : Leave(w, label)
        /\ UNCHANGED <<cursor, results, modelVars>> /\ stopped' \in BOOLEAN
    BY <1>1, <1>3 DEF Start, WorkerRaises, TakeChunk, groupVars, modelVars, GroupTyped
  <2>2. /\ WorkersTyped' /\ row' \in [Worker -> ChunkRow]
        /\ \A v \in Worker : RowOK(row'[v]) /\ row'[v].status = "none"
    BY <1>2, <2>1, LeaveTyped
  <2>3. QED
    BY <1>1, <1>2, <2>1, <2>2 DEF Typed, GroupTyped, ModelsTyped, RowsOK, mainVars, modelVars
<1>4. CASE TakeChunk(w) /\ ~(stopped \/ cursor = groupEnd)
  <2> DEFINE k == cursor + 1
  <2>1. /\ cursor' = k /\ k \in Chunk /\ k <= groupEnd /\ UNCHANGED <<stopped, closes, closeFailed, closeRaised>>
        /\ PrepareFails(w, k) \/ \E m \in Chunk : PrepareSucceeds(w, k, m)
    BY <1>1, <1>4, RuntimeAssumption DEF TakeChunk, GroupTyped, Chunk
  <2>2. ModelsTyped'
    BY <1>1, <2>1 DEF ModelsTyped, PrepareFails, PrepareSucceeds
  <2>3. cursor' \in 0 .. groupEnd' /\ groupEnd' \in Chunk /\ stopped' \in BOOLEAN
    BY <1>1, <1>2, <2>1 DEF GroupTyped, mainVars, Chunk
  <2>4. RowOK(Begin(review)) /\ Begin(review).status = "none"
    BY <1>1, BeginOK DEF MainTyped
  <2>5. CASE PrepareFails(w, k)
    <3> DEFINE r == [CallFailed(Begin(review)) EXCEPT !.calls = 0]
    <3>1. RowOK(r)
      <4>1. RowOK(CallFailed(Begin(review))) /\ CallFailed(Begin(review)).status = "failed"
        BY <2>4, FailedOK
      <4>2. /\ r \in ChunkRow /\ r.status = "failed" /\ r.call = "none" /\ r.reviews = 0
            /\ r.fixes = 0 /\ r.calls = 0
        BY <2>4 DEF CallFailed, Finish, Begin, RowOK, ChunkRow, ChunkStatus
      <4>3. QED
        BY <4>2, OptionsAssumption DEF RowOK, Bounded, Earned
    <3>2. results' = Append(results, [chunk |-> k, row |-> r])
      BY <2>5 DEF PrepareFails
    <3>3. /\ results' \in Seq(Result) /\ DOMAIN results \subseteq DOMAIN results'
          /\ \A i \in DOMAIN results' : RowOK(results'[i].row)
      BY <2>1, <3>1, <3>2, AppendTyped
    <3>4. /\ WorkersTyped' /\ row' \in [Worker -> ChunkRow]
          /\ \A v \in Worker : RowOK(row'[v]) /\ row'[v].status = "none"
      BY <1>2, <2>5, <3>3, LeaveTyped DEF PrepareFails
    <3>5. QED
      BY <1>1, <1>2, <2>2, <2>3, <3>3, <3>4 DEF Typed, GroupTyped, RowsOK, mainVars
  <2>6. ASSUME NEW m \in Chunk, PrepareSucceeds(w, k, m)
        PROVE  Typed'
    <3>1. /\ results' \in Seq(Result) /\ DOMAIN results \subseteq DOMAIN results'
          /\ Len(results) + 1 \in DOMAIN results' /\ Len(results) + 1 \in Nat
          /\ \A i \in DOMAIN results' : RowOK(results'[i].row)
      BY <2>1, <2>4, <2>6, AppendTyped DEF PrepareSucceeds
    <3>2. WorkersTyped'
      BY <1>1, <1>2, <2>6, <3>1 DEF WorkersTyped, PrepareSucceeds
    <3>3. row' \in [Worker -> ChunkRow] /\ \A v \in Worker : RowOK(row'[v]) /\ row'[v].status = "none"
      BY <1>1, <2>4, <2>6 DEF RowsOK, PrepareSucceeds, RowOK
    <3>4. QED
      BY <1>1, <1>2, <2>2, <2>3, <3>1, <3>2, <3>3 DEF Typed, GroupTyped, RowsOK, mainVars
  <2>7. QED
    BY <2>1, <2>5, <2>6
<1>5. CASE CallReturns(w)
  <2>1. PICK r \in Answers(row[w]) :
          IF r.status = "none"
          THEN row' = [row EXCEPT ![w] = r] /\ UNCHANGED <<wpc, slot, using, results>>
          ELSE results' = Store(w, r) /\ Leave(w, "yield")
    BY <1>5 DEF CallReturns
  <2>2. RowOK(r) /\ r \in ChunkRow
    BY <1>1, <2>1, AnswersOK DEF RowsOK, RowOK
  <2>3. UNCHANGED <<cursor, stopped, modelVars>> /\ slot[w] \in DOMAIN results
    BY <1>1, <1>5 DEF CallReturns, WorkersTyped
  <2>4. CASE r.status = "none"
    BY <1>1, <1>2, <2>1, <2>2, <2>3, <2>4
       DEF Typed, WorkersTyped, GroupTyped, ModelsTyped, RowsOK, mainVars, modelVars
  <2>5. CASE r.status # "none"
    <3>1. results' = [results EXCEPT ![slot[w]] = [results[slot[w]] EXCEPT !.row = r]]
          /\ Leave(w, "yield")
      BY <2>1, <2>5 DEF Store
    <3>2. results[slot[w]] \in Result
      BY <1>1, <2>3 DEF GroupTyped
    <3>3. /\ [results[slot[w]] EXCEPT !.row = r] \in Result
          /\ [results[slot[w]] EXCEPT !.row = r].row = r
      BY <2>2, <3>2 DEF Result
    <3>4. /\ results' \in Seq(Result) /\ DOMAIN results' = DOMAIN results
          /\ \A i \in DOMAIN results : results'[i].row = IF i = slot[w] THEN r ELSE results[i].row
      BY <1>1, <2>3, <3>1, <3>3 DEF GroupTyped
    <3>5. /\ WorkersTyped' /\ row' \in [Worker -> ChunkRow]
          /\ \A v \in Worker : RowOK(row'[v]) /\ row'[v].status = "none"
      BY <1>2, <3>1, <3>4, LeaveTyped
    <3>6. QED
      BY <1>1, <1>2, <2>2, <2>3, <3>4, <3>5
         DEF Typed, GroupTyped, ModelsTyped, RowsOK, mainVars, modelVars
  <2>6. QED
    BY <2>4, <2>5
<1>6. QED
  BY <1>3, <1>4, <1>5 DEF WorkerStep

LEMMA MainTypedStep ==
  ASSUME Typed, MainStep \/ Cancel
  PROVE  Typed'
<1>1. MainTyped /\ GroupTyped /\ ModelsTyped /\ WorkersTyped /\ RowsOK
  BY DEF Typed
<1>2. CASE GroupReturns
  <2>1. collected' \in Seq(Result) /\ \A i \in DOMAIN collected' : RowOK(collected'[i].row)
    BY <1>1, <1>2 DEF GroupReturns, MainTyped, GroupTyped, RowsOK
  <2>2. QED
    BY <1>1, <1>2, <2>1 DEF GroupReturns, Typed, MainTyped, GroupTyped, ModelsTyped, WorkersTyped,
       RowsOK, groupVars, workerVars, modelVars
<1>3. CASE GroupRaises \/ Drained \/ Cancel
  <2>1. UNCHANGED <<groupEnd, collected, cursor, results, wpc, slot, row, using, modelVars>>
    BY <1>3 DEF GroupRaises, Drained, ToCleanup, Cancel, groupVars, workerVars
  <2>2. MainTyped'
    <3>1. CASE GroupRaises \/ Drained
      BY <1>1, <3>1 DEF GroupRaises, Drained, ToCleanup, MainTyped
    <3>2. CASE Cancel
      <4>1. cancels' \in 0 .. MaxCancels
        BY <1>1, <3>2, RuntimeAssumption DEF Cancel, MainTyped
      <4>2. QED
        BY <1>1, <3>2, <4>1 DEF Cancel, MainTyped
    <3>3. QED
      BY <1>3, <3>1, <3>2
  <2>3. wcancel' \in [Worker -> BOOLEAN] /\ stopped' \in BOOLEAN
    BY <1>1, <1>3 DEF GroupRaises, Drained, ToCleanup, Cancel, CancelWorkers, WorkersTyped,
       GroupTyped, groupVars, workerVars
  <2>4. QED
    BY <1>1, <2>1, <2>2, <2>3 DEF Typed, GroupTyped, ModelsTyped, WorkersTyped, RowsOK, modelVars
<1>4. CASE CloseModel
  <2>1. ModelsTyped'
    <3>1. PICK k \in Chunk : /\ model' = [model EXCEPT ![k] = "closed"]
                             /\ closes' = [closes EXCEPT ![k] = @ + 1]
      BY <1>4 DEF CloseModel
    <3>2. closeFailed' \in BOOLEAN /\ closeRaised' \in BOOLEAN
      BY <1>1, <1>4 DEF CloseModel, ModelsTyped
    <3>3. QED
      BY <1>1, <3>1, <3>2 DEF ModelsTyped
  <2>2. QED
    BY <1>1, <1>4, <2>1 DEF CloseModel, Typed, MainTyped, GroupTyped, WorkersTyped, RowsOK,
       mainVars, groupVars, workerVars
<1>5. CASE LeaveGroup
  <2>1. UNCHANGED <<review, collected, cancels, cancelling, raised, modelVars>>
    BY <1>5 DEF LeaveGroup
  <2>2. (\E result \in {"ok", "cancelled", "error"} : End(result)) \/ (groupEnd < NumChunks /\ NextGroup)
    BY <1>5 DEF LeaveGroup
  <2>3. ASSUME NEW result \in {"ok", "cancelled", "error"}, End(result)
        PROVE  Typed'
    BY <1>1, <2>1, <2>3 DEF End, Typed, MainTyped, GroupTyped, ModelsTyped, WorkersTyped,
       RowsOK, groupVars, workerVars, modelVars
  <2>4. CASE groupEnd < NumChunks /\ NextGroup
    <3>1. groupEnd \in 0 .. NumChunks - 1
      BY <1>1, <2>4, RuntimeAssumption DEF GroupTyped, Chunk
    <3>2. GroupEnd(groupEnd) \in Chunk /\ groupEnd < GroupEnd(groupEnd)
      BY <3>1, GroupEndShape
    <3>3. groupEnd' \in Chunk /\ cursor' \in 0 .. groupEnd'
      BY <1>1, <2>4, <3>2 DEF NextGroup, GroupTyped, Chunk
    <3>4. /\ results' = <<>> /\ stage' = "gather" /\ wpc' = [w \in Worker |-> "new"]
          /\ UNCHANGED <<outcome, stopped, slot, row, using, wcancel>>
      BY <2>4 DEF NextGroup
    <3>5. QED
      BY <1>1, <2>1, <3>3, <3>4 DEF Typed, MainTyped, GroupTyped, ModelsTyped, WorkersTyped,
         RowsOK, modelVars
  <2>5. QED
    BY <2>2, <2>3, <2>4
<1>6. QED
  BY <1>2, <1>3, <1>4, <1>5 DEF MainStep

LEMMA TypedInvariant == Spec => []Typed
<1>1. ASSUME Init
      PROVE  Typed
  <2>1. /\ RowOK(Begin(review)) /\ Begin(review).status = "none" /\ Begin(review) \in ChunkRow
    BY <1>1, BeginOK DEF Init, RowOK
  <2>2. 1 \in Chunk /\ groupEnd \in Chunk /\ 0 \in 0 .. groupEnd /\ 0 \in 0 .. MaxCancels
    <3>1. 0 \in 0 .. NumChunks - 1 /\ groupEnd = GroupEnd(0)
      BY <1>1, RuntimeAssumption DEF Init
    <3>2. GroupEnd(0) \in Chunk
      BY <3>1, GroupEndShape
    <3>3. QED
      BY <3>1, <3>2, RuntimeAssumption DEF Chunk
  <2>3. MainTyped /\ GroupTyped /\ ModelsTyped
    <3>1. collected = <<>> /\ results = <<>> /\ <<>> \in Seq(Result)
      BY <1>1 DEF Init
    <3>2. MainTyped
      BY <1>1, <2>2, <3>1 DEF Init, MainTyped
    <3>3. GroupTyped
      BY <1>1, <2>2, <3>1 DEF Init, GroupTyped
    <3>4. ModelsTyped
      BY <1>1 DEF Init, ModelsTyped
    <3>5. QED
      BY <3>2, <3>3, <3>4
  <2>4. WorkersTyped
    BY <1>1, <2>2 DEF Init, WorkersTyped
  <2>5. RowsOK
    BY <1>1, <2>1 DEF Init, RowsOK
  <2>6. QED
    BY <2>3, <2>4, <2>5 DEF Typed
<1>2. ASSUME Typed, [Next]_vars
      PROVE  Typed'
  <2>1. CASE UNCHANGED vars
    BY <1>2, <2>1 DEF vars, mainVars, groupVars, workerVars, modelVars, Typed, MainTyped,
       GroupTyped, ModelsTyped, WorkersTyped, RowsOK
  <2>2. QED
    BY <1>2, <2>1, WorkerTyped, MainTypedStep DEF Next, Over
<1>3. QED
  BY <1>1, <1>2, PTL DEF Spec

\* Every variable keeps its type, for any number of chunks and workers.
THEOREM ExtractionTypeCorrect == Spec => []TypeOK
<1>1. ASSUME Typed
      PROVE  TypeOK
  <2>1. cursor \in 0 .. NumChunks
    BY <1>1, RuntimeAssumption DEF Typed, GroupTyped, Chunk
  <2>2. QED
    BY <1>1, <2>1 DEF Typed, MainTyped, GroupTyped, ModelsTyped, WorkersTyped, RowsOK, TypeOK
<1>2. QED
  BY <1>1, TypedInvariant, PTL

LEMMA RowsPromise ==
  ASSUME Typed, NEW r \in Rows
  PROVE  Bounded(r) /\ Earned(r)
BY DEF Typed, RowsOK, Rows, RowOK

\* Reviews and repairs stay within the options, and with them the model calls,
\* for any budget.
THEOREM BudgetsHold == Spec => []WithinBudget
<1>1. Typed => WithinBudget
  BY RowsPromise DEF WithinBudget
<1>2. QED
  BY <1>1, TypedInvariant, PTL

\* A status is never better than what is known of the very graph handed out.
THEOREM StatusesEarned == Spec => []StatusEarned
<1>1. Typed => StatusEarned
  BY RowsPromise DEF StatusEarned
<1>2. QED
  BY <1>1, TypedInvariant, PTL
-----------------------------------------------------------------------------
(* Stages                                                                  *)

Staged ==
  /\ stage \in {"close", "done"} => AllFinished
  /\ stage = "drain" => raised
  /\ stage = "gather" => ~raised
  /\ stage # "done" => outcome = "none"
  /\ stage = "done" => NoneOpen
  /\ cancels > 0 => IF stage = "done" THEN outcome = "cancelled" ELSE cancelling \/ raised
  /\ \A w \in Worker : wpc[w] = "call" => model[using[w]] = "open"
  /\ \A k \in Chunk : closes[k] = IF model[k] = "closed" THEN 1 ELSE 0

\* Workers act only before the cleanup; a model they open is a new one.
LEMMA StagedWorker ==
  ASSUME Typed, Staged, NEW w \in Worker, WorkerStep(w)
  PROVE  Staged'
<1>1. WorkersTyped /\ ModelsTyped
  BY DEF Typed
<1>2. UNCHANGED mainVars /\ UNCHANGED closes /\ stage \in {"gather", "drain"}
  <2>1. ~Finished(w) /\ UNCHANGED mainVars /\ UNCHANGED closes
    BY DEF WorkerStep, Start, TakeChunk, CallReturns, WorkerRaises, Finished, modelVars
  <2>2. QED
    BY <2>1 DEF Staged, AllFinished, Typed, MainTyped
<1>3. \/ /\ UNCHANGED model
         /\ \A v \in Worker : wpc'[v] = "call" => wpc[v] = "call" /\ using'[v] = using[v]
      \/ \E m \in Chunk :
           /\ model[m] = "none" /\ model' = [model EXCEPT ![m] = "open"]
           /\ \A v \in Worker : wpc'[v] = "call" =>
                using'[v] = m \/ (wpc[v] = "call" /\ using'[v] = using[v])
  <2>1. CASE Start(w) \/ WorkerRaises(w) \/ (TakeChunk(w) /\ (stopped \/ cursor = groupEnd))
    BY <1>1, <2>1 DEF Start, WorkerRaises, TakeChunk, Leave, WorkersTyped, modelVars
  <2>2. CASE TakeChunk(w) /\ ~(stopped \/ cursor = groupEnd)
    <3>1. cursor + 1 \in Chunk
      BY <2>2, RuntimeAssumption DEF Typed, GroupTyped, Chunk
    <3>2. PrepareFails(w, cursor + 1) \/ \E m \in Chunk : PrepareSucceeds(w, cursor + 1, m)
      BY <2>2 DEF TakeChunk
    <3>3. CASE PrepareFails(w, cursor + 1)
      BY <1>1, <3>1, <3>3 DEF PrepareFails, Leave, WorkersTyped, ModelsTyped, Seen
    <3>4. ASSUME NEW m \in Chunk, PrepareSucceeds(w, cursor + 1, m)
          PROVE  /\ model[m] = "none" /\ model' = [model EXCEPT ![m] = "open"]
                 /\ \A v \in Worker : wpc'[v] = "call" =>
                      using'[v] = m \/ (wpc[v] = "call" /\ using'[v] = using[v])
      BY <1>1, <3>4 DEF PrepareSucceeds, WorkersTyped, ModelsTyped, Seen
    <3>5. QED
      BY <3>2, <3>3, <3>4
  <2>3. CASE CallReturns(w)
    BY <1>1, <2>3 DEF CallReturns, Leave, WorkersTyped, modelVars
  <2>4. QED
    BY <2>1, <2>2, <2>3 DEF WorkerStep
<1>4. \A v \in Worker : wpc'[v] = "call" => model'[using'[v]] = "open"
  BY <1>1, <1>3 DEF Staged, WorkersTyped, ModelsTyped
<1>5. \A k \in Chunk : closes'[k] = IF model'[k] = "closed" THEN 1 ELSE 0
  BY <1>1, <1>2, <1>3 DEF Staged, ModelsTyped
<1>6. QED
  BY <1>2, <1>4, <1>5 DEF Staged, mainVars

LEMMA StagedMain ==
  ASSUME Typed, Staged, MainStep \/ Cancel
  PROVE  Staged'
<1>1. WorkersTyped /\ ModelsTyped /\ MainTyped
  BY DEF Typed
<1>2. CASE GroupReturns
  BY <1>2 DEF GroupReturns, Staged, AllFinished, Finished, workerVars, modelVars
<1>3. CASE GroupRaises
  BY <1>1, <1>3 DEF GroupRaises, Staged, modelVars, MainTyped
<1>4. CASE Drained
  BY <1>4 DEF Drained, ToCleanup, Staged, AllFinished, Finished, workerVars, modelVars
<1>5. CASE CloseModel
  <2>1. PICK k \in Chunk : /\ model[k] = "open" /\ model' = [model EXCEPT ![k] = "closed"]
                           /\ closes' = [closes EXCEPT ![k] = @ + 1]
    BY <1>5 DEF CloseModel
  <2>2. /\ stage = "close" /\ UNCHANGED mainVars /\ UNCHANGED workerVars /\ AllFinished
    BY <1>5 DEF CloseModel, Staged
  <2>3. AllFinished' /\ \A w \in Worker : wpc'[w] # "call"
    BY <2>2 DEF AllFinished, Finished, workerVars
  <2>4. \A j \in Chunk : closes'[j] = IF model'[j] = "closed" THEN 1 ELSE 0
    BY <1>1, <2>1 DEF Staged, ModelsTyped
  <2>5. QED
    BY <2>2, <2>3, <2>4 DEF Staged, mainVars
<1>6. CASE LeaveGroup
  <2>1. /\ stage = "close" /\ NoneOpen /\ AllFinished
        /\ UNCHANGED <<review, collected, cancels, cancelling, raised, modelVars>>
        /\ IF Cancellation THEN End("cancelled")
           ELSE (\E result \in {"error", "ok"} : End(result)) \/ NextGroup
    BY <1>6 DEF LeaveGroup, CleanupDone, Staged
  <2>2. cancels > 0 => Cancellation
    BY <2>1 DEF Cancellation, Staged
  <2>3. NoneOpen'
    BY <2>1 DEF NoneOpen, modelVars
  <2>4. \A k \in Chunk : closes'[k] = IF model'[k] = "closed" THEN 1 ELSE 0
    BY <2>1 DEF Staged, modelVars
  <2>5. CASE NextGroup /\ ~Cancellation
    BY <2>1, <2>2, <2>4, <2>5 DEF NextGroup, Staged, Cancellation
  <2>6. ASSUME NEW result \in {"ok", "error", "cancelled"}, End(result),
               Cancellation => result = "cancelled"
        PROVE  Staged'
    BY <2>1, <2>2, <2>3, <2>4, <2>6 DEF End, Staged, AllFinished, Finished, workerVars
  <2>7. QED
    BY <2>1, <2>5, <2>6
<1>7. CASE Cancel
  BY <1>1, <1>7 DEF Cancel, Staged, AllFinished, Finished, modelVars, NoneOpen
<1>8. QED
  BY <1>2, <1>3, <1>4, <1>5, <1>6, <1>7 DEF MainStep

LEMMA StagedInvariant == Spec => [](Typed /\ Staged)
<1>1. Init => Staged
  BY DEF Init, Staged
<1>2. ASSUME Typed, Staged, [Next]_vars
      PROVE  Staged'
  <2>1. CASE UNCHANGED vars
    BY <1>2, <2>1 DEF vars, mainVars, workerVars, modelVars, Staged, AllFinished, Finished, NoneOpen
  <2>2. QED
    BY <1>2, <2>1, StagedWorker, StagedMain DEF Next, Over
<1>3. QED
  BY <1>1, <1>2, TypedInvariant, PTL DEF Spec

\* No worker calls a closed model, however often the caller cancels and
\* whatever the factory returns.
THEOREM ModelsStayUsable == Spec => []ModelsUsable
<1>1. Staged => ModelsUsable
  BY DEF Staged, ModelsUsable
<1>2. QED
  BY <1>1, StagedInvariant, PTL

\* Every model is closed once, and none is left open at the end.
THEOREM ModelsClosedOnce == Spec => []ClosedOnce
<1>1. Typed /\ Staged => ClosedOnce
  BY DEF Typed, ModelsTyped, Staged, NoneOpen, ClosedOnce
<1>2. QED
  BY <1>1, StagedInvariant, PTL

\* A cancellation is never swallowed, whenever and however often it arrives.
THEOREM CancellationReported == Spec => []CancelReachesCaller
<1>1. Staged => CancelReachesCaller
  BY DEF Staged, CancelReachesCaller
<1>2. QED
  BY <1>1, StagedInvariant, PTL
-----------------------------------------------------------------------------
(* Slots                                                                   *)

\* The group of the chunks after chunk s.
Group(s) ==
  /\ groupEnd = GroupEnd(s) /\ s <= cursor /\ Len(results) = cursor - s
  /\ \A i \in DOMAIN results : results[i].chunk = s + i
  /\ stage \in {"gather", "drain"} => Len(collected) = s
  /\ \A k \in Chunk : /\ model[k] # "none" => k <= cursor
                      /\ model[k] = "open" => s < k

Filled ==
  /\ \E s \in 0 .. NumChunks - 1 : Group(s)
  /\ \A i \in DOMAIN collected : collected[i].chunk = i /\ collected[i].row.status # "none"
  /\ stage = "close" /\ ~raised => Len(collected) = groupEnd /\ cursor = groupEnd /\ ~stopped
  /\ stopped => raised \/ \E w \in Worker : wpc[w] = "raised"
  /\ \A w \in Worker : wpc[w] = "done" => stopped \/ cursor = groupEnd
  /\ \A i \in DOMAIN results : results[i].row.status = "none" =>
       stopped \/ \E w \in Worker : wpc[w] = "call" /\ slot[w] = i
  /\ outcome = "ok" => Len(collected) = NumChunks

\* What a worker does to the slots and to the flag.
LEMMA SlotStep ==
  ASSUME Typed, Staged, NEW w \in Worker, WorkerStep(w)
  PROVE  /\ UNCHANGED mainVars /\ wpc[w] \in {"new", "yield", "call"}
         /\ \A v \in Worker \ {w} : wpc'[v] = wpc[v] /\ slot'[v] = slot[v]
         /\ stopped' => stopped \/ wpc'[w] = "raised"
         /\ stopped => stopped'
         /\ wpc'[w] = "done" => stopped \/ cursor = groupEnd
         /\ \/ /\ UNCHANGED <<cursor, results, model>>
               /\ wpc[w] = "call" => stopped' \/ (wpc'[w] = "call" /\ slot'[w] = slot[w])
            \/ /\ UNCHANGED <<cursor, model>> /\ wpc[w] = "call" /\ wpc'[w] = "yield"
               /\ \E r \in ChunkRow : r.status # "none" /\ results' = Store(w, r)
            \/ /\ cursor < groupEnd /\ cursor' = cursor + 1 /\ wpc[w] = "yield"
               /\ model' = model \/ model' = [model EXCEPT ![cursor + 1] = "open"]
               /\ \E r \in ChunkRow :
                    /\ results' = Append(results, [chunk |-> cursor + 1, row |-> r])
                    /\ r.status # "none" \/ (wpc'[w] = "call" /\ slot'[w] = Len(results) + 1)
<1>1. /\ WorkersTyped /\ GroupTyped /\ MainTyped /\ cursor \in Nat /\ groupEnd \in Nat
      /\ review \in BOOLEAN /\ cursor <= groupEnd
  BY RuntimeAssumption DEF Typed, GroupTyped, MainTyped, Chunk
<1>2. CASE Start(w)
  <2>1. /\ UNCHANGED <<mainVars, cursor, results, stopped, model>> /\ wpc[w] = "new"
        /\ Leave(w, IF stopped THEN "done" ELSE "yield")
    BY <1>2 DEF Start, groupVars, modelVars
  <2>2. QED
    BY <1>1, <2>1 DEF Leave, WorkersTyped
<1>a. CASE WorkerRaises(w)
  <2>1. /\ UNCHANGED <<mainVars, cursor, results, model>> /\ wpc[w] \in {"new", "yield", "call"}
        /\ stopped' = (stopped \/ wpc[w] # "new") /\ Leave(w, "raised")
    BY <1>1, <1>a DEF WorkerRaises, modelVars, Finished, WorkersTyped
  <2>2. wpc'[w] = "raised" /\ \A v \in Worker \ {w} : wpc'[v] = wpc[v] /\ slot'[v] = slot[v]
    BY <1>1, <2>1 DEF Leave, WorkersTyped
  <2>3. QED
    BY <1>1, <2>1, <2>2 DEF GroupTyped
<1>3. CASE TakeChunk(w) /\ (stopped \/ cursor = groupEnd)
  BY <1>1, <1>3 DEF TakeChunk, Leave, WorkersTyped
<1>4. CASE TakeChunk(w) /\ ~(stopped \/ cursor = groupEnd)
  <2>1. /\ UNCHANGED mainVars /\ UNCHANGED stopped /\ cursor < groupEnd /\ cursor' = cursor + 1 /\ wpc[w] = "yield"
        /\ PrepareFails(w, cursor + 1) \/ \E m \in Chunk : PrepareSucceeds(w, cursor + 1, m)
    BY <1>1, <1>4 DEF TakeChunk
  <2>2. CASE PrepareFails(w, cursor + 1)
    <3> DEFINE r == [CallFailed(Begin(review)) EXCEPT !.calls = 0]
    <3>1. r \in ChunkRow /\ r.status = "failed"
      BY <1>1 DEF CallFailed, Finish, Begin, ChunkRow, ChunkStatus
    <3>2. results' = Append(results, [chunk |-> cursor + 1, row |-> r])
      BY <2>2 DEF PrepareFails
    <3>3. /\ model' = model \/ model' = [model EXCEPT ![cursor + 1] = "open"]
          /\ \A v \in Worker \ {w} : wpc'[v] = wpc[v] /\ slot'[v] = slot[v]
          /\ wpc'[w] = "yield"
      BY <1>1, <2>2 DEF PrepareFails, Leave, WorkersTyped
    <3> HIDE DEF r
    <3>4. QED
      BY <2>1, <3>1, <3>2, <3>3
  <2>3. ASSUME NEW m \in Chunk, PrepareSucceeds(w, cursor + 1, m)
        PROVE  /\ model' = model \/ model' = [model EXCEPT ![cursor + 1] = "open"]
               /\ \A v \in Worker \ {w} : wpc'[v] = wpc[v] /\ slot'[v] = slot[v]
               /\ results' = Append(results, [chunk |-> cursor + 1, row |-> Begin(review)])
               /\ wpc'[w] = "call" /\ slot'[w] = Len(results) + 1 /\ Begin(review) \in ChunkRow
    <3>1. m = cursor + 1 /\ model[m] = "none"
      BY <2>3 DEF PrepareSucceeds, Seen
    <3>2. Begin(review) \in ChunkRow
      BY <1>1, BeginOK DEF RowOK
    <3>3. QED
      BY <1>1, <2>3, <3>1, <3>2 DEF PrepareSucceeds, WorkersTyped
  <2>4. QED
    BY <2>1, <2>2, <2>3
<1>5. CASE CallReturns(w)
  <2>1. PICK r \in Answers(row[w]) :
          IF r.status = "none"
          THEN row' = [row EXCEPT ![w] = r] /\ UNCHANGED <<wpc, slot, using, results>>
          ELSE results' = Store(w, r) /\ Leave(w, "yield")
    BY <1>5 DEF CallReturns
  <2>2. r \in ChunkRow
    BY <2>1, AnswersOK DEF Typed, RowsOK, RowOK
  <2>3. UNCHANGED <<mainVars, cursor, stopped, model>> /\ wpc[w] = "call"
    BY <1>5 DEF CallReturns, modelVars
  <2>4. CASE r.status = "none"
    BY <1>1, <2>1, <2>3, <2>4
  <2>5. CASE r.status # "none"
    BY <1>1, <2>1, <2>2, <2>3, <2>5 DEF Leave, WorkersTyped
  <2>6. QED
    BY <2>4, <2>5
<1>6. QED
  BY <1>2, <1>3, <1>4, <1>5, <1>a DEF WorkerStep

\* The slots after Store, and after Append.
LEMMA StoreSlots ==
  ASSUME Typed, NEW w \in Worker, wpc[w] = "call", NEW r \in ChunkRow, results' = Store(w, r)
  PROVE  /\ Len(results') = Len(results) /\ DOMAIN results' = DOMAIN results
         /\ \A i \in DOMAIN results : /\ results'[i].chunk = results[i].chunk
                                      /\ i # slot[w] => results'[i] = results[i]
         /\ results'[slot[w]].row = r
<1>1. results \in Seq(Result) /\ slot[w] \in DOMAIN results
  BY DEF Typed, GroupTyped, WorkersTyped
<1>2. results' = [results EXCEPT ![slot[w]] = [results[slot[w]] EXCEPT !.row = r]]
  BY DEF Store
<1>3. \A i \in DOMAIN results : results[i] \in Result
  BY <1>1
<1>4. [results[slot[w]] EXCEPT !.row = r] \in Result
  BY <1>1, <1>3 DEF Result
<1>5. /\ [results[slot[w]] EXCEPT !.row = r].row = r
      /\ [results[slot[w]] EXCEPT !.row = r].chunk = results[slot[w]].chunk
  BY <1>1, <1>3 DEF Result
<1>6. results' \in Seq(Result) /\ Len(results') = Len(results) /\ DOMAIN results' = DOMAIN results
  BY <1>1, <1>2, <1>4
<1>7. QED
  BY <1>1, <1>2, <1>5, <1>6

LEMMA AppendSlots ==
  ASSUME Typed, NEW k \in Chunk, NEW r \in ChunkRow,
         results' = Append(results, [chunk |-> k, row |-> r])
  PROVE  /\ Len(results) \in Nat /\ DOMAIN results = 1 .. Len(results)
         /\ Len(results') = Len(results) + 1 /\ DOMAIN results' = 1 .. Len(results) + 1
         /\ \A i \in DOMAIN results : results'[i] = results[i]
         /\ results'[Len(results) + 1].chunk = k /\ results'[Len(results) + 1].row = r
<1>1. results \in Seq(Result) /\ [chunk |-> k, row |-> r] \in Result
  BY DEF Typed, GroupTyped, Result
<1>2. QED
  BY <1>1

\* A step of a worker keeps the group, and the slots of the others.
LEMMA FilledWorker ==
  ASSUME Typed, Staged, Filled, NEW w \in Worker, WorkerStep(w)
  PROVE  Filled'
<1>1. /\ UNCHANGED mainVars /\ wpc[w] \in {"new", "yield", "call"}
      /\ \A v \in Worker \ {w} : wpc'[v] = wpc[v] /\ slot'[v] = slot[v]
      /\ stopped' => stopped \/ wpc'[w] = "raised"
      /\ stopped => stopped'
      /\ wpc'[w] = "done" => stopped \/ cursor = groupEnd
  BY SlotStep
<1>2. /\ cursor \in Nat /\ groupEnd \in Chunk /\ cursor <= groupEnd /\ NumChunks \in Nat
      /\ results \in Seq(Result) /\ stage \in {"gather", "drain", "close", "done"}
  BY RuntimeAssumption DEF Typed, GroupTyped, MainTyped, Chunk
<1>3. UNCHANGED <<stage, outcome, groupEnd, collected, raised>>
  BY <1>1 DEF mainVars
<1>4. stage \in {"gather", "drain"}
  BY <1>1, <1>2 DEF Staged, AllFinished, Finished
<1>5. /\ \A i \in DOMAIN collected' : collected'[i].chunk = i /\ collected'[i].row.status # "none"
      /\ stage' = "close" /\ ~raised' =>
           Len(collected') = groupEnd' /\ cursor' = groupEnd' /\ ~stopped'
      /\ outcome' = "ok" => Len(collected') = NumChunks
  BY <1>3, <1>4 DEF Filled
<1>6. stopped' => raised' \/ \E v \in Worker : wpc'[v] = "raised"
  BY <1>1, <1>3 DEF Filled
<1>7. PICK s \in 0 .. NumChunks - 1 : Group(s)
  BY DEF Filled
<1>8. CASE UNCHANGED <<cursor, results, model>> /\
           (wpc[w] = "call" => stopped' \/ (wpc'[w] = "call" /\ slot'[w] = slot[w]))
  <2>1. Group(s)'
    BY <1>3, <1>7, <1>8 DEF Group
  <2>2. \A v \in Worker : wpc'[v] = "done" => stopped' \/ cursor' = groupEnd'
    BY <1>1, <1>3, <1>8 DEF Filled
  <2>3. \A i \in DOMAIN results' : results'[i].row.status = "none" =>
          stopped' \/ \E v \in Worker : wpc'[v] = "call" /\ slot'[v] = i
    BY <1>1, <1>8 DEF Filled
  <2>4. QED
    BY <1>5, <1>6, <1>7, <2>1, <2>2, <2>3 DEF Filled
<1>9. ASSUME UNCHANGED <<cursor, model>>, wpc[w] = "call", wpc'[w] = "yield",
             NEW r \in ChunkRow, r.status # "none", results' = Store(w, r)
      PROVE  Filled'
  <2>1. /\ Len(results') = Len(results) /\ DOMAIN results' = DOMAIN results
        /\ \A i \in DOMAIN results : /\ results'[i].chunk = results[i].chunk
                                     /\ i # slot[w] => results'[i] = results[i]
        /\ results'[slot[w]].row = r
    BY <1>9, StoreSlots
  <2>2. Group(s)'
    <3>1. ASSUME NEW i \in DOMAIN results'
          PROVE  results'[i].chunk = s + i
      <4>1. i \in DOMAIN results
        BY <2>1
      <4>2. results'[i].chunk = results[i].chunk
        BY <2>1, <4>1
      <4>3. QED
        BY <1>7, <4>1, <4>2 DEF Group
    <3>2. groupEnd' = GroupEnd(s) /\ s <= cursor' /\ Len(results') = cursor' - s
      BY <1>3, <1>7, <1>9, <2>1 DEF Group
    <3>3. /\ stage' \in {"gather", "drain"} => Len(collected') = s
          /\ \A k \in Chunk : /\ model'[k] # "none" => k <= cursor'
                              /\ model'[k] = "open" => s < k
      BY <1>3, <1>7, <1>9 DEF Group
    <3>4. QED
      BY <3>1, <3>2, <3>3 DEF Group
  <2>3. \A v \in Worker : wpc'[v] = "done" => stopped' \/ cursor' = groupEnd'
    BY <1>1, <1>3, <1>9 DEF Filled
  <2>4. ASSUME NEW i \in DOMAIN results', results'[i].row.status = "none"
        PROVE  stopped' \/ \E v \in Worker : wpc'[v] = "call" /\ slot'[v] = i
    <3>a. i \in DOMAIN results
      BY <2>1
    <3>b. i # slot[w]
      BY <1>9, <2>1, <2>4
    <3>c. results'[i] = results[i]
      BY <2>1, <3>a, <3>b
    <3>1. i \in DOMAIN results /\ i # slot[w] /\ results[i].row.status = "none"
      BY <2>4, <3>a, <3>b, <3>c
    <3>2. stopped \/ \E v \in Worker \ {w} : wpc[v] = "call" /\ slot[v] = i
      BY <3>1 DEF Filled
    <3>3. QED
      BY <1>1, <3>2
  <2>5. QED
    BY <1>5, <1>6, <1>7, <2>2, <2>3, <2>4 DEF Filled
<1>10. ASSUME cursor < groupEnd, cursor' = cursor + 1, wpc[w] = "yield",
              model' = model \/ model' = [model EXCEPT ![cursor + 1] = "open"],
              NEW r \in ChunkRow, results' = Append(results, [chunk |-> cursor + 1, row |-> r]),
              r.status # "none" \/ (wpc'[w] = "call" /\ slot'[w] = Len(results) + 1)
       PROVE  Filled'
  <2>0. cursor + 1 \in Chunk
    BY <1>2, <1>10 DEF Chunk
  <2>1. /\ Len(results) \in Nat /\ DOMAIN results = 1 .. Len(results)
        /\ Len(results') = Len(results) + 1 /\ DOMAIN results' = 1 .. Len(results) + 1
        /\ \A i \in DOMAIN results : results'[i] = results[i]
        /\ results'[Len(results) + 1].chunk = cursor + 1 /\ results'[Len(results) + 1].row = r
    BY <1>10, <2>0, AppendSlots
  <2>2. Group(s)'
    <3>1. groupEnd' = GroupEnd(s) /\ s <= cursor' /\ Len(results') = cursor' - s
      BY <1>2, <1>3, <1>7, <1>10, <2>1 DEF Group
    <3>2. ASSUME NEW i \in DOMAIN results'
          PROVE  results'[i].chunk = s + i
      <4>1. CASE i \in DOMAIN results
        BY <1>7, <2>1, <4>1 DEF Group
      <4>2. CASE i = Len(results) + 1
        <5>1. results'[i].chunk = cursor + 1 /\ Len(results) = cursor - s
          BY <1>7, <2>1, <4>2 DEF Group
        <5>2. QED
          BY <1>2, <4>2, <5>1
      <4>3. QED
        BY <2>1, <4>1, <4>2
    <3>3. \A k \in Chunk : /\ model'[k] # "none" => k <= cursor'
                           /\ model'[k] = "open" => s < k
      <4>1. \A k \in Chunk : /\ model[k] # "none" => k <= cursor
                             /\ model[k] = "open" => s < k
        BY <1>7 DEF Group
      <4>2. \A k \in Chunk : k # cursor + 1 => model'[k] = model[k]
        BY <1>10 DEF Typed, ModelsTyped
      <4>3. s < cursor + 1
        BY <1>2, <1>7 DEF Group
      <4>4. ASSUME NEW k \in Chunk
            PROVE  /\ model'[k] # "none" => k <= cursor'
                   /\ model'[k] = "open" => s < k
        <5>1. CASE k = cursor + 1
          <6>1. cursor' = cursor + 1
            BY <1>10
          <6>2. QED
            BY <1>2, <4>3, <5>1, <6>1
        <5>2. CASE k # cursor + 1
          <6>1. cursor' = cursor + 1
            BY <1>10
          <6>2. QED
            BY <1>2, <4>1, <4>2, <5>2, <6>1 DEF Chunk
        <5>3. QED
          BY <5>1, <5>2
      <4>5. QED
        BY <4>4
    <3>4. stage' \in {"gather", "drain"} => Len(collected') = s
      BY <1>3, <1>7 DEF Group
    <3>a. \A i \in DOMAIN results' : results'[i].chunk = s + i
      BY <3>2
    <3>5. QED
      BY <3>1, <3>3, <3>4, <3>a DEF Group
  <2>3. \A v \in Worker : wpc'[v] = "done" => stopped' \/ cursor' = groupEnd'
    BY <1>1, <1>2, <1>3, <1>10 DEF Filled
  <2>4. ASSUME NEW i \in DOMAIN results', results'[i].row.status = "none"
        PROVE  stopped' \/ \E v \in Worker : wpc'[v] = "call" /\ slot'[v] = i
    <3>1. CASE i = Len(results) + 1
      BY <1>10, <2>1, <2>4, <3>1
    <3>2. CASE i \in DOMAIN results
      BY <1>1, <1>10, <2>1, <2>4, <3>2 DEF Filled
    <3>3. QED
      BY <2>1, <3>1, <3>2
  <2>5. QED
    BY <1>5, <1>6, <1>7, <2>2, <2>3, <2>4 DEF Filled
<1>11. QED
  BY <1>8, <1>9, <1>10, SlotStep

\* A step that keeps the group, its slots and its workers, and opens no model.
LEMMA FilledKept ==
  ASSUME Filled, UNCHANGED <<groupEnd, collected, cursor, results, wpc, slot>>,
         stage' \in {"gather", "drain"} => stage \in {"gather", "drain"},
         \A k \in Chunk : /\ model'[k] # "none" => model[k] # "none"
                          /\ model'[k] = "open" => model[k] = "open",
         stopped => stopped',
         stage' = "close" /\ ~raised' => stage = "close" /\ ~raised /\ ~stopped',
         stopped' => raised' \/ \E w \in Worker : wpc'[w] = "raised",
         outcome' = "ok" => Len(collected) = NumChunks
  PROVE  Filled'
<1>1. PICK s \in 0 .. NumChunks - 1 : Group(s)
  BY DEF Filled
<1>2. Group(s)'
  BY <1>1 DEF Group
<1>3. QED
  BY <1>1, <1>2 DEF Filled

\* The results of a group whose workers have all returned.
LEMMA FilledReturns ==
  ASSUME Typed, Staged, Filled, GroupReturns
  PROVE  Filled'
<1>1. PICK s \in 0 .. NumChunks - 1 : Group(s)
  BY DEF Filled
<1>2. /\ stage = "gather" /\ stage' = "close" /\ collected' = collected \o results
      /\ UNCHANGED <<outcome, groupEnd, raised, groupVars, workerVars, modelVars>>
      /\ \A w \in Worker : wpc[w] = "done"
  BY DEF GroupReturns
<1>3. ~raised /\ outcome = "none"
  BY <1>2 DEF Staged
<1>4. ~stopped /\ cursor = groupEnd
  <2>1. 1 \in Worker
    BY RuntimeAssumption DEF Worker
  <2>2. ~stopped
    BY <1>2, <1>3 DEF Filled
  <2>3. QED
    BY <1>2, <2>1, <2>2 DEF Filled
<1>5. \A i \in DOMAIN results : results[i].row.status # "none"
  BY <1>2, <1>4 DEF Filled
<1>6. /\ collected \in Seq(Result) /\ results \in Seq(Result) /\ groupEnd \in Nat
      /\ Len(collected) = s /\ Len(results) = groupEnd - s
      /\ \A i \in DOMAIN results : results[i].chunk = s + i
  BY <1>1, <1>2, <1>4 DEF Group, Typed, MainTyped, GroupTyped, Chunk
<1>7. /\ Len(collected') = groupEnd /\ DOMAIN collected' = 1 .. groupEnd
      /\ \A i \in 1 .. groupEnd : collected'[i] = IF i <= s THEN collected[i] ELSE results[i - s]
  <2>1. s \in Nat /\ Len(collected') = Len(collected) + Len(results)
    <3>1. s \in Nat
      BY <1>1, RuntimeAssumption
    <3>2. Len(collected') = Len(collected) + Len(results)
      BY <1>2, <1>6, ConcatProperties
    <3>3. QED
      BY <3>1, <3>2
  <2>2. /\ DOMAIN collected' = 1 .. groupEnd /\ Len(collected') = groupEnd
    BY <1>2, <1>6, <2>1
  <2>3. \A i \in 1 .. groupEnd : collected'[i] = IF i <= s THEN collected[i] ELSE results[i - s]
    BY <1>2, <1>6, <2>1
  <2>4. QED
    BY <2>2, <2>3
<1>8. ASSUME NEW i \in DOMAIN collected'
      PROVE  collected'[i].chunk = i /\ collected'[i].row.status # "none"
  <2>1. CASE i <= s
    <3>1. i \in DOMAIN collected /\ collected'[i] = collected[i]
      BY <1>1, <1>6, <1>7, <2>1
    <3>2. QED
      BY <3>1 DEF Filled
  <2>2. CASE ~(i <= s)
    <3>1. i - s \in DOMAIN results /\ collected'[i] = results[i - s] /\ s + (i - s) = i
      BY <1>1, <1>6, <1>7, <2>2
    <3>2. QED
      BY <1>5, <1>6, <3>1
  <2>3. QED
    BY <2>1, <2>2
<1>9. Group(s)'
  BY <1>1, <1>2 DEF Group, groupVars, modelVars
<1>10. UNCHANGED <<cursor, results, stopped, wpc, slot>>
  BY <1>2 DEF groupVars, workerVars
<1>11. QED
  BY <1>1, <1>2, <1>3, <1>4, <1>5, <1>7, <1>8, <1>9, <1>10 DEF Filled

\* The next group begins where this one has ended.
LEMMA FilledNext ==
  ASSUME Typed, Staged, Filled, LeaveGroup, ~Cancellation, groupEnd < NumChunks, NextGroup
  PROVE  Filled'
<1>1. /\ stage = "close" /\ NoneOpen /\ ~raised /\ outcome = "none"
      /\ UNCHANGED <<collected, raised, modelVars>>
  BY DEF LeaveGroup, CleanupDone, Cancellation, Staged
<1>2. /\ stage' = "gather" /\ groupEnd' = GroupEnd(groupEnd) /\ results' = <<>>
      /\ wpc' = [w \in Worker |-> "new"] /\ UNCHANGED <<outcome, cursor, stopped>>
  BY DEF NextGroup
<1>3. Len(collected) = groupEnd /\ cursor = groupEnd /\ ~stopped
  BY <1>1 DEF Filled
<1>4. groupEnd \in 0 .. NumChunks - 1
  BY RuntimeAssumption DEF Typed, GroupTyped, Chunk
<1>6. PICK s0 \in 0 .. NumChunks - 1 : Group(s0)
  BY DEF Filled
<1>7. \A k \in Chunk : /\ model'[k] # "none" => k <= cursor'
                       /\ model'[k] = "open" => groupEnd < k
  BY <1>1, <1>2, <1>6 DEF Group, NoneOpen, modelVars
<1>8. Len(results') = 0 /\ DOMAIN results' = {}
  BY <1>2
<1>9. \E t \in 0 .. NumChunks - 1 : Group(t)'
  <2>1. PICK t \in 0 .. NumChunks - 1 : t = groupEnd
    BY <1>4
  <2>2. Group(t)'
    BY <1>1, <1>2, <1>3, <1>7, <1>8, <2>1 DEF Group
  <2>3. QED
    BY <2>2
<1>10. QED
  BY <1>1, <1>2, <1>3, <1>8, <1>9 DEF Filled

LEMMA FilledMain ==
  ASSUME Typed, Staged, Filled, MainStep \/ Cancel
  PROVE  Filled'
<1>1. CASE GroupRaises
  <2>1. /\ UNCHANGED <<groupEnd, collected, cursor, results, wpc, slot, model, outcome>>
        /\ stage = "gather" /\ stage' = "drain" /\ stopped' = TRUE /\ raised' = TRUE
    BY <1>1 DEF GroupRaises, modelVars
  <2>2. outcome = "none"
    BY <2>1 DEF Staged
  <2>3. QED
    BY <2>1, <2>2, FilledKept
<1>2. CASE Drained
  <2>1. /\ UNCHANGED <<groupEnd, collected, cursor, results, wpc, slot, model, stopped, raised, outcome>>
        /\ stage = "drain" /\ stage' = "close"
    BY <1>2 DEF Drained, ToCleanup, groupVars, workerVars, modelVars
  <2>2. raised /\ outcome = "none"
    BY <2>1 DEF Staged
  <2>3. QED
    BY <2>1, <2>2, FilledKept
<1>3. CASE CloseModel
  <2>1. UNCHANGED <<mainVars, groupVars, workerVars>>
    BY <1>3 DEF CloseModel
  <2>2. \A k \in Chunk : /\ model'[k] # "none" => model[k] # "none"
                         /\ model'[k] = "open" => model[k] = "open"
    BY <1>3 DEF CloseModel, Typed, ModelsTyped
  <2>3. UNCHANGED <<groupEnd, collected, cursor, results, wpc, slot, stopped, raised, outcome, stage>>
    BY <2>1 DEF mainVars, groupVars, workerVars
  <2>4. /\ stage = "close" /\ ~raised => ~stopped
        /\ stopped => raised \/ \E w \in Worker : wpc[w] = "raised"
        /\ outcome = "ok" => Len(collected) = NumChunks
    BY DEF Filled
  <2>5. QED
    BY <2>2, <2>3, <2>4, FilledKept
<1>4. CASE Cancel
  <2>1. UNCHANGED <<groupEnd, collected, cursor, results, wpc, slot, stopped, raised, outcome, stage, model>>
    BY <1>4 DEF Cancel, groupVars, modelVars
  <2>2. /\ stage = "close" /\ ~raised => ~stopped
        /\ stopped => raised \/ \E w \in Worker : wpc[w] = "raised"
        /\ outcome = "ok" => Len(collected) = NumChunks
    BY DEF Filled
  <2>3. QED
    BY <2>1, <2>2, FilledKept
<1>5. ASSUME NEW result \in {"ok", "cancelled", "error"}, LeaveGroup, End(result),
             result = "ok" => ~raised /\ ~(groupEnd < NumChunks)
      PROVE  Filled'
  <2>1. /\ UNCHANGED <<groupEnd, collected, cursor, results, wpc, slot, stopped, raised, model>>
        /\ stage = "close" /\ stage' = "done" /\ outcome' = result
    BY <1>5 DEF LeaveGroup, End, groupVars, workerVars, modelVars
  <2>2. outcome' = "ok" => Len(collected) = NumChunks
    BY <1>5, <2>1, RuntimeAssumption DEF Filled, Typed, GroupTyped, Chunk
  <2>3. stopped => raised \/ \E w \in Worker : wpc[w] = "raised"
    BY DEF Filled
  <2>4. QED
    BY <2>1, <2>2, <2>3, FilledKept
<1>6. CASE LeaveGroup
  <2>1. CASE Cancellation
    BY <1>5, <1>6, <2>1 DEF LeaveGroup
  <2>2. CASE ~Cancellation /\ closeFailed
    BY <1>5, <1>6, <2>2 DEF LeaveGroup
  <2>3. CASE ~Cancellation /\ ~closeFailed /\ groupEnd < NumChunks
    <3>1. NextGroup
      BY <1>6, <2>3 DEF LeaveGroup
    <3>2. QED
      BY <1>6, <2>3, <3>1, FilledNext
  <2>4. CASE ~Cancellation /\ ~closeFailed /\ ~(groupEnd < NumChunks)
    <3>1. End("ok") /\ ~raised
      BY <1>6, <2>4 DEF LeaveGroup, Cancellation
    <3>2. QED
      BY <1>5, <1>6, <2>4, <3>1
  <2>5. QED
    BY <2>1, <2>2, <2>3, <2>4
<1>7. QED
  BY <1>1, <1>2, <1>3, <1>4, <1>6, FilledReturns DEF MainStep

LEMMA FilledInvariant == Spec => [](Typed /\ Filled)
<1>1. ASSUME Init
      PROVE  Filled
  <2>1. 0 \in 0 .. NumChunks - 1
    BY RuntimeAssumption
  <2>2. Group(0)
    BY <1>1 DEF Init, Group
  <2>3. QED
    BY <1>1, <2>1, <2>2 DEF Init, Filled
<1>2. ASSUME Typed, Staged, Filled, [Next]_vars
      PROVE  Filled'
  <2>1. CASE UNCHANGED vars
    <3>1. UNCHANGED <<groupEnd, collected, cursor, results, wpc, slot, stopped, raised, outcome, stage, model>>
      BY <2>1 DEF vars, mainVars, groupVars, workerVars, modelVars
    <3>2. /\ stage = "close" /\ ~raised => ~stopped
          /\ stopped => raised \/ \E w \in Worker : wpc[w] = "raised"
          /\ outcome = "ok" => Len(collected) = NumChunks
      BY <1>2 DEF Filled
    <3>3. QED
      BY <1>2, <3>1, <3>2, FilledKept
  <2>2. QED
    BY <1>2, <2>1, FilledWorker, FilledMain DEF Next, Over
<1>3. QED
  BY <1>1, <1>2, StagedInvariant, PTL DEF Spec

\* A successful call returns one finished result per chunk, in order, for any
\* number of chunks and workers.
THEOREM ResultsComplete == Spec => []ResultsInOrder
<1>1. Typed /\ Filled => ResultsInOrder
  <2>1. Typed => DOMAIN collected = 1 .. Len(collected)
    BY DEF Typed, MainTyped
  <2>2. QED
    BY <2>1 DEF Filled, ResultsInOrder, Chunk
<1>2. QED
  BY <1>1, FilledInvariant, PTL

\* Open models do not accumulate over the groups.
THEOREM OpenModelsBounded == Spec => []OpenBounded
<1>1. ASSUME Typed, Filled
      PROVE  OpenBounded
  <2> DEFINE Opened == {k \in Chunk : model[k] = "open"}
  <2>1. PICK s \in 0 .. NumChunks - 1 : Group(s)
    BY <1>1 DEF Filled
  <2>2. /\ groupEnd <= s + MaxWorkers /\ s < groupEnd /\ cursor <= groupEnd
        /\ s \in Nat /\ groupEnd \in Nat /\ cursor \in Nat
    BY <1>1, <2>1, GroupEndShape DEF Group, Typed, GroupTyped, Chunk
  <2>3. Opened \subseteq s + 1 .. groupEnd
    <3>1. ASSUME NEW k \in Opened
          PROVE  k \in s + 1 .. groupEnd
      <4>1. k \in Nat /\ s < k /\ k <= cursor
        BY <2>1 DEF Group, Chunk
      <4>2. QED
        BY <2>2, <4>1
    <3>2. QED
      BY <3>1
  <2>4. IsFiniteSet(s + 1 .. groupEnd) /\ Cardinality(s + 1 .. groupEnd) = groupEnd - s
    <3>1. s + 1 \in Int /\ groupEnd \in Int
      BY <2>2
    <3>2. /\ IsFiniteSet(s + 1 .. groupEnd)
          /\ Cardinality(s + 1 .. groupEnd) =
               IF s + 1 > groupEnd THEN 0 ELSE groupEnd - (s + 1) + 1
      BY <3>1, FS_Interval
    <3>3. QED
      BY <2>2, <3>2
  <2>5. Cardinality(Opened) <= Cardinality(s + 1 .. groupEnd) /\ IsFiniteSet(Opened)
    BY <2>3, <2>4, FS_Subset
  <2>6. Cardinality(Opened) \in Nat
    BY <2>5, FS_CardinalityType
  <2>7. QED
    BY <2>2, <2>4, <2>5, <2>6, RuntimeAssumption DEF OpenBounded
<1>2. QED
  BY <1>1, FilledInvariant, PTL
=============================================================================
