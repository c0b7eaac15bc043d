----------------------------- MODULE ChunkReview -----------------------------
(***************************************************************************)
(* The loop that extracts, validates, reviews and repairs one chunk        *)
(* (hugegraph_llm_sdk/extraction_runtime/review.py: run_chunk, and the     *)
(* same loop with awaits in arun_chunk).  A chunk's row holds the model    *)
(* call under way and the counters; each operator says what one answer     *)
(* does to it.  Validation makes no call, so it is part of the step that   *)
(* brings a new graph.                                                     *)
(***************************************************************************)
EXTENDS Naturals

CONSTANTS MaxReviews, \* ExtractionOptions.max_reviews
          MaxFixes    \* ExtractionOptions.max_fixes

ASSUME OptionsAssumption == MaxReviews \in Nat /\ MaxFixes \in Nat

ChunkStatus == {"final", "validated", "candidate", "blocked", "failed"}

\* status is "none" while the loop runs; review is the caller's choice; valid
\* and decision are what validation and review said of the graph the chunk has
\* now.
ChunkRow == [review : BOOLEAN,
             call : {"extract", "review", "repair", "none"},
             status : ChunkStatus \cup {"none"},
             valid : BOOLEAN, decision : {"none", "pass", "fix", "block"},
             reviews : Nat, fixes : Nat, calls : Nat]

\* The loop begins with the call of extract.
Begin(review) ==
  [review |-> review, call |-> "extract", status |-> "none", valid |-> FALSE,
   decision |-> "none", reviews |-> 0, fixes |-> 0, calls |-> 1]

Finish(row, s) == [row EXCEPT !.call = "none", !.status = s]

CallReview(row) ==
  [row EXCEPT !.call = "review", !.reviews = @ + 1, !.calls = @ + 1]

CallRepair(row) ==
  [row EXCEPT !.call = "repair", !.fixes = @ + 1, !.calls = @ + 1]

\* Mutation: the budget of repairs is checked after one more.
FixesSpentLate(row) == row.fixes > MaxFixes

FixesSpent(row) == row.fixes >= MaxFixes

ReviewsSpent(row) == row.reviews >= MaxReviews

\* Mutation: the budget of reviews is looked at before the issues.
JudgeBudgetFirst(row) ==
  IF row.review /\ ReviewsSpent(row) THEN Finish(row, "candidate")
  ELSE IF ~row.review THEN Finish(row, IF row.valid THEN "validated" ELSE "blocked")
  ELSE IF row.valid THEN CallReview(row)
  ELSE IF FixesSpent(row) THEN Finish(row, "blocked") ELSE CallRepair(row)

\* The part of the loop between a graph and the next call.
Judge(row) ==
  IF ~row.review THEN Finish(row, IF row.valid THEN "validated" ELSE "blocked")
  ELSE IF ~row.valid
       THEN IF FixesSpent(row) THEN Finish(row, "blocked") ELSE CallRepair(row)
       ELSE IF ReviewsSpent(row) THEN Finish(row, "candidate") ELSE CallReview(row)

\* extract or repair returns a graph, which validation accepts or not.
GraphReturned(row, valid) == Judge([row EXCEPT !.valid = valid, !.decision = "none"])

ReviewReturned(row, decision) ==
  LET judged == [row EXCEPT !.decision = decision]
  IN  CASE decision = "pass"  -> Finish(judged, "final")
        [] decision = "block" -> Finish(judged, "blocked")
        [] decision = "fix"   -> IF FixesSpent(judged) THEN Finish(judged, "candidate")
                                 ELSE CallRepair(judged)

\* Any exception of a call, of validation, or of parsing the answer.
CallFailed(row) == Finish(row, "failed")

\* Whatever the call under way may come back with.
Answers(row) ==
  {CallFailed(row)} \cup
    IF row.call = "review"
    THEN {ReviewReturned(row, d) : d \in {"pass", "fix", "block"}}
    ELSE {GraphReturned(row, v) : v \in BOOLEAN}

\* What a status promises of the graph handed out with it.
Earned(row) ==
  CASE row.status = "final"     -> row.valid /\ row.decision = "pass"
    [] row.status = "validated" -> row.valid /\ ~row.review
    [] row.status = "candidate" -> row.valid /\ (ReviewsSpent(row) \/ FixesSpent(row))
    [] row.status = "blocked"   -> ~row.valid \/ row.decision = "block"
    [] OTHER                    -> TRUE

\* The budgets of reviews and repairs bound the calls of the model.
Bounded(row) ==
  /\ row.reviews <= MaxReviews
  /\ row.fixes <= MaxFixes
  /\ row.calls <= 1 + row.reviews + row.fixes

=============================================================================
