--------------------------- MODULE RefinementProofs ---------------------------
(* Proofs about RefinementLoop, for every cap, budget, cost and score.      *)
EXTENDS RefinementLoop, TLAPS

\* What best and bestScore say of the scores that were looked at.
BestIsFirst ==
  /\ \A p \in Passes : scores[p] <= bestScore
  /\ best = 0 => bestScore = 0
  /\ best # 0 => /\ scores[best] = bestScore /\ bestScore > 0
                 /\ \A p \in Passes : p < best => scores[p] < bestScore

\* A pass is scored once, by its judge.
PassNotScored ==
  /\ \A p \in Passes : p > pass => scores[p] = -1
  /\ phase \notin {"between", "done"} => pass \in Passes /\ scores[pass] = -1

\* What is returned is what was best at that time.
ReturnsBest ==
  /\ phase # "done" => result = NoResult
  /\ result.reason \notin {"none", "accepted", "rejected"} =>
       result.artifact = best /\ result.score = bestScore

\* What is said to be left of the budget is what the run has not spent of it.
LeftIsLeft == left = Max({0, Budget - spent})

LoopInv == LoopTypeOK /\ BestIsFirst /\ PassNotScored /\ ReturnsBest /\ LeftIsLeft

\* Max({0, n}) is the number n cut off at zero, which spendBudget() keeps.
LEMMA MaxOfZero ==
  ASSUME NEW n \in Int
  PROVE  Max({0, n}) = IF n > 0 THEN n ELSE 0
BY DEF Max

\* Spending twice from a budget is spending the sum.
LEMMA SpendAgain ==
  ASSUME NEW b \in Nat, NEW s \in Nat, NEW c \in Nat
  PROVE  Max({0, Max({0, b - s}) - c}) = Max({0, b - (s + c)})
<1>1. b - s \in Int /\ b - (s + c) \in Int
  OBVIOUS
<1>2. Max({0, b - s}) = IF b - s > 0 THEN b - s ELSE 0
  BY <1>1, MaxOfZero
<1>3. Max({0, b - s}) - c \in Int
  BY <1>2
<1>4. Max({0, Max({0, b - s}) - c}) =
        IF Max({0, b - s}) - c > 0 THEN Max({0, b - s}) - c ELSE 0
  BY <1>3, MaxOfZero
<1>5. Max({0, b - (s + c)}) = IF b - (s + c) > 0 THEN b - (s + c) ELSE 0
  BY <1>1, MaxOfZero
<1> QED
  BY <1>2, <1>4, <1>5

LEMMA LoopInitInv == LoopInit => LoopInv
<1> SUFFICES ASSUME LoopInit PROVE LoopInv
  OBVIOUS
<1> USE RefinementAssumption DEF LoopInit, Passes, NoResult
<1>1. LoopTypeOK
  BY DEF LoopTypeOK
<1>2. BestIsFirst /\ PassNotScored /\ ReturnsBest
  BY DEF BestIsFirst, PassNotScored, ReturnsBest
<1>3. LeftIsLeft
  BY MaxOfZero, Budget - 0 = Budget DEF LeftIsLeft
<1> QED
  BY <1>1, <1>2, <1>3 DEF LoopInv

\* What spendBudget() does to the budget, for a cost an executor may answer.
LEMMA SpendBudgetEffect ==
  ASSUME LoopInv, NEW cost \in 0..MaxCost, SpendBudget(cost)
  PROVE  /\ spent' = spent + cost /\ spent' \in Nat
         /\ left' \in 0..Budget
         /\ left' = Max({0, Budget - spent'})
<1> USE RefinementAssumption
<1>1. spent \in Nat /\ cost \in Nat /\ left = Max({0, Budget - spent})
  BY DEF LoopInv, LoopTypeOK, LeftIsLeft
<1>2. left' = Max({0, Budget - spent'}) /\ spent' = spent + cost
  BY <1>1, SpendAgain DEF SpendBudget
<1>3. Max({0, Budget - spent'}) = IF Budget - spent' > 0 THEN Budget - spent' ELSE 0
  BY <1>1, <1>2, MaxOfZero
<1> QED
  BY <1>1, <1>2, <1>3

LEMMA NextPassInv ==
  ASSUME LoopInv, NextPass
  PROVE  LoopInv'
<1> USE RefinementAssumption DEF LoopInv, NextPass, Return, Passes, NoResult
<1>1. LoopTypeOK'
  BY DEF LoopTypeOK
<1>2. BestIsFirst' /\ ReturnsBest'
  BY DEF BestIsFirst, ReturnsBest, LoopTypeOK
<1>3. PassNotScored'
  BY DEF PassNotScored, LoopTypeOK
<1>4. LeftIsLeft'
  BY DEF LeftIsLeft
<1> QED
  BY <1>1, <1>2, <1>3, <1>4

\* The phases that only spend and move on.
LEMMA SpendingPhaseInv ==
  ASSUME LoopInv, NEW cost \in 0..MaxCost,
         \/ Build(cost) \/ Critique(cost)
         \/ \E verdict \in BOOLEAN : Verify(cost, verdict)
  PROVE  LoopInv'
<1> USE RefinementAssumption
<1>0. SpendBudget(cost)
  BY DEF Build, Critique, Verify
<1>1. /\ spent' = spent + cost /\ spent' \in Nat
      /\ left' \in 0..Budget
      /\ left' = Max({0, Budget - spent'})
  BY <1>0, SpendBudgetEffect
<1> USE DEF LoopInv, Build, Critique, Verify, Passes
<1>2. LoopTypeOK'
  BY <1>1 DEF LoopTypeOK
<1>3. BestIsFirst' /\ PassNotScored' /\ ReturnsBest'
  BY DEF BestIsFirst, PassNotScored, ReturnsBest
<1>4. LeftIsLeft'
  BY <1>1 DEF LeftIsLeft
<1> QED
  BY <1>2, <1>3, <1>4

LEMMA JudgeUnverifiedInv ==
  ASSUME LoopInv, NEW cost \in 0..MaxCost, NEW score \in 0..MaxScore,
         NEW verdict \in {"accept", "reject", "stop"},
         JudgeUnverified(cost, verdict, score)
  PROVE  LoopInv'
<1> USE RefinementAssumption
<1>1. /\ spent' = spent + cost /\ spent' \in Nat
      /\ left' \in 0..Budget
      /\ left' = Max({0, Budget - spent'})
  BY SpendBudgetEffect DEF JudgeUnverified
<1> USE DEF LoopInv, JudgeUnverified, Return, Passes
<1>2. LoopTypeOK'
  BY <1>1 DEF LoopTypeOK
<1>3. BestIsFirst' /\ PassNotScored' /\ ReturnsBest'
  BY DEF BestIsFirst, PassNotScored, ReturnsBest, NoResult
<1>4. LeftIsLeft'
  BY <1>1 DEF LeftIsLeft
<1> QED
  BY <1>2, <1>3, <1>4

LEMMA JudgeVerifiedInv ==
  ASSUME LoopInv, NEW cost \in 0..MaxCost, NEW score \in 0..MaxScore,
         NEW verdict \in {"accept", "reject", "stop"},
         JudgeVerified(cost, verdict, score)
  PROVE  LoopInv'
<1> USE RefinementAssumption
<1>1. /\ spent' = spent + cost /\ spent' \in Nat
      /\ left' \in 0..Budget
      /\ left' = Max({0, Budget - spent'})
  BY SpendBudgetEffect DEF JudgeVerified
<1>2. /\ pass \in Passes /\ scores[pass] = -1 /\ score \in Nat
      /\ phase = "judging" /\ pass' = pass /\ passed' = passed
      /\ scores' = [scores EXCEPT ![pass] = score]
      /\ result = NoResult
  BY DEF LoopInv, PassNotScored, ReturnsBest, JudgeVerified
<1>3. \/ score > bestScore /\ bestScore' = score /\ best' = pass /\ unimproved' = 0
      \/ score <= bestScore /\ bestScore' = bestScore /\ best' = best
         /\ unimproved' = unimproved + 1
  BY DEF JudgeVerified, LoopInv, LoopTypeOK
<1>4. \/ phase' = "between" /\ result' = result
      \/ phase' = "done" /\ result' = [reason |-> "accepted", artifact |-> pass,
                                       score |-> score]
      \/ phase' = "done" /\ result' = [reason |-> "stuck_detection", artifact |-> best',
                                       score |-> bestScore']
  BY DEF JudgeVerified, Return
<1>5. LoopTypeOK'
  <2>1. scores' \in [Passes -> -1..MaxScore]
    BY <1>2 DEF LoopInv, LoopTypeOK
  <2>2. best' \in 0..MaxPasses /\ bestScore' \in 0..MaxScore /\ unimproved' \in Nat
    BY <1>2, <1>3 DEF LoopInv, LoopTypeOK, Passes
  <2>3. phase' \in {"between", "done"}
    BY <1>4
  <2>4. result' \in [reason : {"none", "accepted", "budget_exceeded", "cap_reached",
                               "error", "stuck_detection", "rejected"},
                     artifact : 0..MaxPasses, score : 0..MaxScore]
    BY <1>2, <1>4, <2>2 DEF LoopInv, LoopTypeOK, Passes
  <2> QED
    BY <1>1, <1>2, <2>1, <2>2, <2>3, <2>4 DEF LoopInv, LoopTypeOK
<1>6. \A p \in Passes : scores'[p] = IF p = pass THEN score ELSE scores[p]
  BY <1>2 DEF LoopInv, LoopTypeOK
<1>7. BestIsFirst'
  <2>1. \A p \in Passes : scores[p] \in Int /\ p \in Int
    BY DEF LoopInv, LoopTypeOK, Passes
  <2>2. CASE score > bestScore
    <3>1. bestScore' = score /\ best' = pass /\ bestScore \in Nat
      BY <1>3, <2>2 DEF LoopInv, LoopTypeOK
    <3>2. \A p \in Passes : scores[p] < score
      BY <2>1, <2>2, <3>1 DEF LoopInv, BestIsFirst
    <3> QED
      BY <1>2, <1>6, <3>1, <3>2, <2>1, <2>2 DEF BestIsFirst, Passes
  <2>3. CASE score <= bestScore
    <3>1. bestScore' = bestScore /\ best' = best /\ bestScore \in Nat
      BY <1>2, <1>3, <2>3 DEF LoopInv, LoopTypeOK
    <3>2. best # 0 => best \in Passes /\ best < pass
      BY <1>2, <2>1 DEF LoopInv, LoopTypeOK, BestIsFirst, PassNotScored, Passes
    <3> QED
      BY <1>2, <1>6, <2>1, <2>3, <3>1, <3>2 DEF LoopInv, BestIsFirst, Passes
  <2> QED
    BY <1>2, <2>2, <2>3 DEF LoopInv, LoopTypeOK
<1>8. PassNotScored'
  BY <1>2, <1>4, <1>6 DEF LoopInv, PassNotScored, Passes
<1>9. ReturnsBest'
  BY <1>2, <1>4 DEF ReturnsBest, NoResult
<1>10. LeftIsLeft'
  BY <1>1 DEF LeftIsLeft
<1> QED
  BY <1>5, <1>7, <1>8, <1>9, <1>10 DEF LoopInv

LEMMA ExecutorFailsInv ==
  ASSUME LoopInv, ExecutorFails \/ ExecutorRejects
  PROVE  LoopInv'
<1> USE RefinementAssumption DEF LoopInv, ExecutorFails, ExecutorRejects, Return, Passes
<1>1. LoopTypeOK'
  BY DEF LoopTypeOK
<1>2. BestIsFirst' /\ PassNotScored' /\ ReturnsBest'
  BY DEF BestIsFirst, PassNotScored, ReturnsBest, NoResult, LoopTypeOK
<1>3. LeftIsLeft'
  BY DEF LeftIsLeft
<1> QED
  BY <1>1, <1>2, <1>3

LEMMA LoopNextInv == LoopInv /\ [LoopNext]_loopVars => LoopInv'
<1> SUFFICES ASSUME LoopInv, [LoopNext]_loopVars PROVE LoopInv'
  OBVIOUS
<1>1. CASE NextPass
  BY <1>1, NextPassInv
<1>2. CASE Executors
  <2>1. CASE ExecutorFails \/ ExecutorRejects
    BY <2>1, ExecutorFailsInv
  <2>2. CASE \E cost \in 0..MaxCost :
               \/ Build(cost) \/ Critique(cost)
               \/ \E verdict \in BOOLEAN : Verify(cost, verdict)
    BY <2>2, SpendingPhaseInv
  <2>3. CASE \E cost \in 0..MaxCost :
               \E verdict \in {"accept", "reject", "stop"}, score \in 0..MaxScore :
                 JudgeUnverified(cost, verdict, score) \/ JudgeVerified(cost, verdict, score)
    BY <2>3, JudgeUnverifiedInv, JudgeVerifiedInv
  <2> QED
    BY <1>2, <2>1, <2>2, <2>3 DEF Executors
<1>3. CASE UNCHANGED loopVars
  BY <1>3 DEF loopVars, LoopInv, LoopTypeOK, BestIsFirst, PassNotScored,
              ReturnsBest, LeftIsLeft, Passes, NoResult
<1> QED
  BY <1>1, <1>2, <1>3 DEF LoopNext

\* The invariant of a run of the loop, which the theorems below read.
THEOREM LoopInvariant == LoopSpec => []LoopInv
BY LoopInitInv, LoopNextInv, PTL DEF LoopSpec

\* A run of the loop keeps its types.
THEOREM LoopTypes == LoopSpec => []LoopTypeOK
<1>1. LoopInv => LoopTypeOK
  BY DEF LoopInv
<1> QED
  BY <1>1, LoopInvariant, PTL

\* A run that answers without acceptance answers with the first of its best
\* verified drafts, if one scored, for every cap of passes and every score.
THEOREM BestIsKept == LoopSpec => []BestKept
<1>1. LoopInv => BestKept
  <2> SUFFICES ASSUME LoopInv, result.reason \notin {"none", "accepted", "rejected"},
                      NEW q \in Passes, scores[q] > 0
               PROVE  /\ result.artifact \in Passes
                      /\ result.score = scores[result.artifact]
                      /\ \A p \in Passes :
                           /\ scores[p] <= result.score
                           /\ p < result.artifact => scores[p] < result.score
    BY DEF BestKept
  <2>1. result.artifact = best /\ result.score = bestScore
    BY DEF LoopInv, ReturnsBest
  <2>2. /\ \A p \in Passes : scores[p] \in Int
        /\ bestScore \in Nat /\ best \in 0..MaxPasses
        /\ best # 0 => best \in Passes
    BY RefinementAssumption DEF LoopInv, LoopTypeOK, Passes
  <2> QED
    BY <2>1, <2>2 DEF LoopInv, BestIsFirst
<1> QED
  BY <1>1, LoopInvariant, PTL

\* No pass begins on a budget that is spent, whatever the phases cost.
THEOREM NoPassIsBeyondBudget == LoopSpec => NoPassBeyondBudget
<1>1. LoopInv /\ [LoopNext]_loopVars => [pass' # pass => spent < Budget]_loopVars
  <2> SUFFICES ASSUME LoopInv, LoopNext, pass' # pass PROVE spent < Budget
    BY DEF loopVars
  <2>1. NextPass /\ ~(left <= 0)
    BY DEF LoopNext, Executors, ExecutorFails, ExecutorRejects, Build, Verify, Critique,
           JudgeUnverified, JudgeVerified, NextPass
  <2>2. spent \in Nat /\ left = Max({0, Budget - spent})
    BY DEF LoopInv, LoopTypeOK, LeftIsLeft
  <2>3. left = IF Budget - spent > 0 THEN Budget - spent ELSE 0
    BY <2>2, MaxOfZero, RefinementAssumption
  <2> QED
    BY <2>1, <2>2, <2>3, RefinementAssumption
<1> QED
  BY <1>1, LoopInvariant, PTL DEF LoopSpec, NoPassBeyondBudget

\* What a pass has before it at each phase, and the head of the loop that follows.
PhasesLeft == [between |-> 1, building |-> 5, verifying |-> 4, critiquing |-> 3,
               judging |-> 2, done |-> 0]

StepsLeft == IF phase = "done" THEN 0
             ELSE 5 * (MaxPasses - pass) + PhasesLeft[phase]

LEMMA StepsLeftFalls == ASSUME LoopInv, LoopNext PROVE StepsLeft' < StepsLeft
<1>1. /\ MaxPasses \in Nat /\ pass \in 0..MaxPasses
      /\ phase \in {"between", "building", "verifying", "critiquing", "judging", "done"}
  BY RefinementAssumption DEF LoopInv, LoopTypeOK
<1>2. /\ PhasesLeft["between"] = 1 /\ PhasesLeft["building"] = 5
      /\ PhasesLeft["verifying"] = 4 /\ PhasesLeft["critiquing"] = 3
      /\ PhasesLeft["judging"] = 2
  BY DEF PhasesLeft
<1>3. CASE NextPass
  <2>1. /\ phase = "between"
        /\ phase' = "done" \/ (phase' = "building" /\ pass' = pass + 1)
    BY <1>3 DEF NextPass, Return
  <2> QED
    BY <1>1, <1>2, <2>1 DEF StepsLeft
<1>4. CASE Executors
  <2>1. pass' = pass
    BY <1>4 DEF Executors, ExecutorFails, ExecutorRejects, Build, Critique, Verify,
                JudgeUnverified, JudgeVerified
  <2> DEFINE Onward == /\ phase \notin {"between", "done"}
                       /\ \/ phase' = "done"
                          \/ phase = "building" /\ phase' = "verifying"
                          \/ phase = "verifying" /\ phase' \in {"critiquing", "judging"}
                          \/ phase = "critiquing" /\ phase' = "judging"
                          \/ phase = "judging" /\ phase' = "between"
  <2>2. Onward
    <3>1. CASE ExecutorFails \/ ExecutorRejects
      BY <1>1, <3>1 DEF ExecutorFails, ExecutorRejects, Return
    <3>2. ASSUME NEW cost \in 0..MaxCost,
                 \/ Build(cost) \/ Critique(cost)
                 \/ \E verdict \in BOOLEAN : Verify(cost, verdict)
          PROVE  Onward
      BY <3>2 DEF Build, Critique, Verify
    <3>3. ASSUME NEW cost \in 0..MaxCost, NEW verdict \in {"accept", "reject", "stop"},
                 NEW score \in 0..MaxScore,
                 JudgeUnverified(cost, verdict, score) \/ JudgeVerified(cost, verdict, score)
          PROVE  Onward
      <4>1. CASE JudgeUnverified(cost, verdict, score)
        BY <4>1, Zenon DEF JudgeUnverified, Return
      <4>2. CASE JudgeVerified(cost, verdict, score)
        BY <4>2, Zenon DEF JudgeVerified, Return
      <4> QED
        BY <3>3, <4>1, <4>2
    <3> QED
      BY <1>4, <3>1, <3>2, <3>3 DEF Executors
  <2> QED
    BY <1>1, <1>2, <2>1, <2>2 DEF StepsLeft
<1> QED
  BY <1>3, <1>4 DEF LoopNext

\* Every step of a run, an executor's failure or rejection included, brings it
\* nearer its end: whatever the answers, the verdicts and the costs, run() is over
\* after at most 5 * MaxPasses + 1 steps, that is, answers and heads of the loop.
THEOREM RunIsBounded ==
  LoopSpec => [](StepsLeft \in 0..(5 * MaxPasses + 1)) /\ [][StepsLeft' < StepsLeft]_loopVars
<1>1. LoopInv => StepsLeft \in 0..(5 * MaxPasses + 1)
  <2> SUFFICES ASSUME LoopInv PROVE StepsLeft \in 0..(5 * MaxPasses + 1)
    OBVIOUS
  <2>1. /\ MaxPasses \in Nat /\ pass \in 0..MaxPasses
        /\ phase \in {"between", "building", "verifying", "critiquing", "judging", "done"}
        /\ phase \notin {"between", "done"} => pass >= 1
    BY RefinementAssumption DEF LoopInv, LoopTypeOK, PassNotScored, Passes
  <2>2. /\ PhasesLeft["between"] = 1 /\ PhasesLeft["building"] = 5
        /\ PhasesLeft["verifying"] = 4 /\ PhasesLeft["critiquing"] = 3
        /\ PhasesLeft["judging"] = 2
    BY DEF PhasesLeft
  <2> QED
    BY <2>1, <2>2 DEF StepsLeft
<1>2. LoopInv /\ [LoopNext]_loopVars => [StepsLeft' < StepsLeft]_loopVars
  BY StepsLeftFalls
<1> QED
  BY <1>1, <1>2, LoopInvariant, PTL DEF LoopSpec
=============================================================================
