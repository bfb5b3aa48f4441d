---------------------------- MODULE RefinementLoop ----------------------------
(***************************************************************************)
(* One run of the refinement loop (src/orchestrator/refinement-loop.ts):   *)
(* build, verify, critique and judge, up to a cap of passes.  A phase ends *)
(* with the answer of its executor, of any cost, with the failure it       *)
(* answers or with the rejection of its promise; the artifact of a pass is *)
(* named by the number of the pass.                                        *)
(***************************************************************************)
EXTENDS Integers, FiniteSetsExt

CONSTANTS
  MaxPasses,   \* REFINEMENT_MODE_CAPS of the mode
  Budget,      \* budgetMicroUsd
  MaxCost,     \* the most one phase costs
  MaxScore     \* the highest quality score

ASSUME RefinementAssumption ==
  /\ MaxPasses \in Nat \ {0}
  /\ Budget \in Nat /\ MaxCost \in Nat /\ MaxScore \in Nat

VARIABLES
  phase,     \* the executor that is awaited, or where run() is between passes
  pass,      \* currentPass
  left,      \* budgetRemaining
  spent,     \* totalCostMicroUsd
  passed,    \* the verifier's verdict on this pass
  best,      \* bestArtifactId, 0 for undefined
  bestScore, \* bestQualityScore
  unimproved, \* consecutiveNoImprove
  scores,    \* pass -> its score, when the judge's score was looked at
  result     \* what run() returned, or that it was rejected

loopVars == <<phase, pass, left, spent, passed, best, bestScore, unimproved, scores, result>>

Passes == 1..MaxPasses
NoResult == [reason |-> "none", artifact |-> 0, score |-> 0]

LoopInit ==
  /\ phase = "between" /\ pass = 0
  /\ left = Budget /\ spent = 0
  /\ passed = TRUE
  /\ best = 0 /\ bestScore = 0 /\ unimproved = 0
  /\ scores = [p \in Passes |-> -1]
  /\ result = NoResult

SpendBudgetOnce(cost) ==            \* mutant: the state of before the run is read
  left' = Max({0, Budget - cost}) /\ spent' = spent + cost
\* spendBudget()
SpendBudget(cost) ==
  /\ left' = Max({0, left - cost})
  /\ spent' = spent + cost

ReturnLatest(reason, artifact, score) ==   \* mutant: the draft of the last pass
  /\ result' = [reason |-> reason, artifact |-> pass, score |-> score]
  /\ phase' = "done"

\* buildResult(): the loop is over.
Return(reason, artifact, score) ==
  /\ result' = [reason |-> reason, artifact |-> artifact, score |-> score]
  /\ phase' = "done"

\* The head of the loop: the cap, then the budget.
NextPass ==
  /\ phase = "between"
  /\ IF pass = MaxPasses THEN Return("cap_reached", best, bestScore) /\ pass' = pass
     ELSE IF left <= 0 THEN Return("budget_exceeded", best, bestScore) /\ pass' = pass
     ELSE /\ phase' = "building" /\ pass' = pass + 1
          /\ UNCHANGED result
  /\ UNCHANGED <<left, spent, passed, best, bestScore, unimproved, scores>>

Build(cost) ==
  /\ phase = "building"
  /\ SpendBudget(cost)
  /\ phase' = "verifying"
  /\ UNCHANGED <<pass, passed, best, bestScore, unimproved, scores, result>>

\* A draft that fails verification goes to the judge without a critique.
Verify(cost, verdict) ==
  /\ phase = "verifying"
  /\ SpendBudget(cost)
  /\ passed' = verdict
  /\ phase' = IF verdict THEN "critiquing" ELSE "judging"
  /\ UNCHANGED <<pass, best, bestScore, unimproved, scores, result>>

Critique(cost) ==
  /\ phase = "critiquing"
  /\ SpendBudget(cost)
  /\ phase' = "judging"
  /\ UNCHANGED <<pass, passed, best, bestScore, unimproved, scores, result>>

\* The score of a draft that failed verification is looked at only to return it.
JudgeUnverified(cost, verdict, score) ==
  /\ phase = "judging" /\ ~passed
  /\ SpendBudget(cost)
  /\ CASE verdict = "accept" -> Return("accepted", pass, score)
       [] verdict = "stop" -> Return("stuck_detection", best, bestScore)
       [] OTHER -> phase' = "between" /\ UNCHANGED result
  /\ UNCHANGED <<pass, passed, best, bestScore, unimproved, scores>>

JudgeVerified(cost, verdict, score) ==
  /\ phase = "judging" /\ passed
  /\ SpendBudget(cost)
  /\ scores' = [scores EXCEPT ![pass] = score]
  /\ IF score > bestScore
     THEN bestScore' = score /\ best' = pass /\ unimproved' = 0
     ELSE unimproved' = unimproved + 1 /\ UNCHANGED <<best, bestScore>>
  /\ CASE verdict = "accept" -> Return("accepted", pass, score)
       [] verdict = "stop" \/ (verdict # "accept" /\ unimproved' >= 2) ->
            Return("stuck_detection", best', bestScore')
       [] OTHER -> phase' = "between" /\ UNCHANGED result
  /\ UNCHANGED <<pass, passed>>

\* An executor fails: the loop ends, but for a judge asked about a draft that
\* failed verification, whose failure is passed over.
ExecutorFails ==
  /\ phase \in {"building", "verifying", "critiquing", "judging"}
  /\ IF phase = "judging" /\ ~passed
     THEN phase' = "between" /\ UNCHANGED result
     ELSE Return("error", best, bestScore)
  /\ UNCHANGED <<pass, left, spent, passed, best, bestScore, unimproved, scores>>

\* An executor's promise is rejected, as the runner's are with those of the model
\* calls they await: nothing catches it in run(), which is rejected with it, and
\* the best draft is lost to the caller.
ExecutorRejects ==
  /\ phase \in {"building", "verifying", "critiquing", "judging"}
  /\ Return("rejected", 0, 0)
  /\ UNCHANGED <<pass, left, spent, passed, best, bestScore, unimproved, scores>>

Executors ==
  \/ ExecutorFails \/ ExecutorRejects
  \/ \E cost \in 0..MaxCost :
       \/ Build(cost) \/ Critique(cost)
       \/ \E verdict \in BOOLEAN : Verify(cost, verdict)
       \/ \E verdict \in {"accept", "reject", "stop"}, score \in 0..MaxScore :
            JudgeUnverified(cost, verdict, score) \/ JudgeVerified(cost, verdict, score)

LoopNext == NextPass \/ Executors

LoopSpec == LoopInit /\ [][LoopNext]_loopVars

-----------------------------------------------------------------------------
(* Properties *)

\* The phase, the pass and the budget of a run, and its bests.
LoopTypeOK ==
  /\ phase \in {"between", "building", "verifying", "critiquing", "judging", "done"}
  /\ pass \in 0..MaxPasses
  /\ left \in 0..Budget /\ spent \in Nat
  /\ passed \in BOOLEAN
  /\ best \in 0..MaxPasses /\ bestScore \in 0..MaxScore /\ unimproved \in Nat
  /\ scores \in [Passes -> -1..MaxScore]
  /\ result \in [reason : {"none", "accepted", "budget_exceeded", "cap_reached",
                           "error", "stuck_detection", "rejected"},
                 artifact : 0..MaxPasses, score : 0..MaxScore]

\* A run that answers without the judge's acceptance answers with the first of
\* the verified drafts with the highest score, if any scored above zero: a later,
\* worse pass, a failure an executor answers, a draft that failed verification or
\* an empty budget never costs the best draft.  (A rejected promise does, and a
\* verified draft that scored zero is no best draft: the run says nothing there.)
BestKept ==
  result.reason \notin {"none", "accepted", "rejected"}
  /\ (\E p \in Passes : scores[p] > 0) =>
    /\ result.artifact \in Passes
    /\ result.score = scores[result.artifact]
    /\ \A p \in Passes : /\ scores[p] <= result.score
                         /\ p < result.artifact => scores[p] < result.score

\* No pass begins once the run has spent what it was given, counted over all the
\* phases of all its passes.  (The budget is looked at nowhere else: a pass that
\* has begun goes on whatever it costs.)
NoPassBeyondBudget == [][pass' # pass => spent < Budget]_loopVars

=============================================================================
