------------------------------ MODULE GatePolicy ------------------------------
(***************************************************************************)
(* One evaluation of a sale, from the integrity of its transcript to the   *)
(* gate decision: EvaluationOrchestrator.execute_evaluation with the       *)
(* adjudication policy, the score and the precedence table.                *)
(*                                                                         *)
(* What the evaluators find in a text and what a language model replies    *)
(* are inputs.  Confidences are percentages, scores hundredths of a point. *)
(***************************************************************************)
EXTENDS Integers, FiniteSets, Functions

CONSTANTS
    Check,                \* the checks of a checklist
    Critical,             \* those with is_critical
    Weight,               \* Weight[c]: default_weight
    Finding,              \* what evaluators return: outcome, confidence, score
    Reply,                \* what the model of an adjudicator answers
    None,                 \* a missing confidence or score
    PassingScore,         \* DEFAULT_PASSING_SCORE
    ConfidenceThreshold,  \* CONFIDENCE_THRESHOLD
    MinConfidence,        \* AdjudicationPolicy.min_confidence
    ResolvedConfidence,   \* AdjudicationPolicy.resolved_confidence
    AllowCriticalPass     \* allow_upgrade_to_pass_on_critical

Outcome == {"PASS", "FAIL", "AMBIGUOUS", "UNSUPPORTED", "NOT_EVALUABLE"}

\* The columns of a CheckExecutionResult that policy reads.
Result == [outcome : Outcome, confidence : Nat \cup {None}, score : (0..10000) \cup {None}]

\* The verdicts policy knows, and what else a request for one may end in: an
\* unknown word, or no parsable answer at all.
Verdict == {"SATISFIED", "NOT_SATISFIED", "CANNOT_DETERMINE"}
Unusable == {"UNRECOGNISED", "UNAVAILABLE"}

ASSUME CheckAssumption ==
    /\ IsFiniteSet(Check) /\ Critical \subseteq Check
    /\ Weight \in [Check -> Nat]

ASSUME InputAssumption ==
    /\ None \notin Nat
    /\ Finding \subseteq Result
    /\ Reply \subseteq [verdict : Verdict \cup Unusable, cites : {"supplied", "nothing", "unknown"},
                       confidence : Int \cup {None}]

ASSUME PolicyAssumption ==
    /\ {PassingScore, ConfidenceThreshold, MinConfidence, ResolvedConfidence} \subseteq Nat
    /\ ResolvedConfidence >= ConfidenceThreshold
    /\ AllowCriticalPass \in BOOLEAN

VARIABLES
    stage,       \* where execute_evaluation is
    valid,       \* TranscriptIntegrityResult.is_valid
    sampled,     \* is_sampled_for_calibration of this sale and policy version
    found,       \* found[c]: what the evaluator of c returned
    reply,       \* reply[c]: what the model answered about an eligible c
    results,     \* results[c]: the result after adjudication
    score,       \* overall_score
    decision     \* the gate decision

vars == <<stage, valid, sampled, found, reply, results, score, decision>>

NoResults == [c \in {} |-> None]

Init ==
    /\ stage = "validate"
    /\ valid = FALSE
    /\ sampled = FALSE
    /\ found = NoResults
    /\ reply = NoResults
    /\ results = NoResults
    /\ score = None
    /\ decision = None

---------------------------------------------------------------------------
(* Adjudication *)

Ambiguous(res) == {c \in DOMAIN res : res[c].outcome = "AMBIGUOUS"}

Undetermined == [verdict |-> "CANNOT_DETERMINE", confidence |-> 0]

\* max(0.0, min(1.0, float(...))), 0 when that fails.
Clamped(x) == IF x = None \/ x < 0 THEN 0 ELSE IF x > 100 THEN 100 ELSE x

\* Whether build_verdict accepts an answer: known verdict, and a line that
\* was in the request if any.
Usable(a) == a.verdict \notin Unusable /\ a.cites # "unknown"

\* adjudicate: whatever goes wrong becomes CANNOT_DETERMINE.
Proposal(a) ==
    IF Usable(a) THEN [verdict |-> a.verdict, confidence |-> Clamped(a.confidence)]
                 ELSE Undetermined

\* Only ambiguous findings are eligible.
Eligible(res) == Ambiguous(res)

\* Mutant: the critical checks are not protected.
Unprotected(c, v) ==
    v.verdict # "CANNOT_DETERMINE" /\ v.confidence >= MinConfidence

\* Whether a proposal is applied: it says something, with confidence, and
\* does not turn a critical check into a pass unless an operator allows it.
Applied(c, v) ==
    /\ v.verdict # "CANNOT_DETERMINE"
    /\ v.confidence >= MinConfidence
    /\ v.verdict = "SATISFIED" /\ c \in Critical => AllowCriticalPass

\* Mutant: the verdict is recorded as the outcome.
VerdictAsOutcome(c, result, v) ==
    IF Applied(c, v) THEN [result EXCEPT !.outcome = v.verdict] ELSE result

\* _apply
Adjudicated(c, result, v) ==
    IF Applied(c, v)
    THEN [outcome    |-> IF v.verdict = "SATISFIED" THEN "PASS" ELSE "FAIL",
          confidence |-> ResolvedConfidence,
          score      |-> IF v.verdict = "SATISFIED" THEN 10000 ELSE 0]
    ELSE result

---------------------------------------------------------------------------
(* Score *)

\* ScoreEligibility
Scored(res) ==
    {c \in DOMAIN res :
        /\ res[c].score # None
        /\ res[c].outcome \in {"PASS", "FAIL", "AMBIGUOUS"}
        /\ Weight[c] > 0}

WeightedSum(res) == SumFunction([c \in Scored(res) |-> res[c].score * Weight[c]])

\* Mutant: checks without a score count in the denominator.
WeightOfAll(res) == SumFunctionOnSet(Weight, DOMAIN res)

TotalWeight(res) == SumFunctionOnSet(Weight, Scored(res))

\* Mutant: the score is rounded to one decimal.
RoundedToTenths(sum, total) ==
    {r \in {10 * (sum \div (10 * total)), 10 * (sum \div (10 * total) + 1)} \cap 0..10000 :
        2 * (r * total - sum) \in (-10 * total)..(10 * total)}

\* round(weighted_sum / total_weight, 2): the nearest hundredths; floating
\* point decides a tie either way.
Rounded(sum, total) ==
    {r \in {sum \div total, sum \div total + 1} \cap 0..10000 :
        2 * (r * total - sum) \in (-total)..total}

\* calculate: the scores it may return.
Scores(res) ==
    IF Scored(res) = {} THEN {None} ELSE Rounded(WeightedSum(res), TotalWeight(res))

---------------------------------------------------------------------------
(* The gate *)

Blocking(res, outcome) == {c \in DOMAIN res \cap Critical : res[c].outcome = outcome}

\* Mutant: the confidence of a critical pass is not looked at.
AmbiguousOnly(res) == Blocking(res, "AMBIGUOUS")

\* critical_low_confidence
LowConfidence(res) ==
    Blocking(res, "AMBIGUOUS") \cup
    {c \in Blocking(res, "PASS") :
        res[c].confidence # None /\ res[c].confidence < ConfidenceThreshold}

Row(holds, status, reason, blocking) ==
    [holds |-> holds, status |-> status, reason |-> reason, blocking |-> blocking]

\* The eleven conditions of evaluate_gate in their order.  The results are
\* one for each applicable check.
PrecedenceTable(ok, res, s, smp) ==
    LET review == Ambiguous(res) \ Critical IN <<
    Row(~ok, "HELD", "TRANSCRIPT_INCOMPLETE", {}),
    Row(Blocking(res, "FAIL") # {}, "HELD", "CRITICAL_CHECK_FAILED", Blocking(res, "FAIL")),
    Row(Blocking(res, "NOT_EVALUABLE") # {}, "HELD", "CRITICAL_CHECK_EXECUTION_ERROR",
        Blocking(res, "NOT_EVALUABLE")),
    Row(Blocking(res, "UNSUPPORTED") # {}, "HELD", "UNSUPPORTED_CRITICAL_CHECK",
        Blocking(res, "UNSUPPORTED")),
    Row(LowConfidence(res) # {}, "REVIEW_REQUIRED", "LOW_CONFIDENCE_OR_AMBIGUOUS_FINDING",
        LowConfidence(res)),
    Row(DOMAIN res = {}, "REVIEW_REQUIRED", "NO_APPLICABLE_CHECKS", {}),
    Row(s = None, "REVIEW_REQUIRED", "NO_SCOREABLE_CHECKS", {}),
    Row(s # None /\ s < PassingScore, "HELD", "OVERALL_SCORE_BELOW_THRESHOLD", {}),
    Row(review # {}, "REVIEW_REQUIRED", "MANUAL_REVIEW_REQUESTED", review),
    Row(smp, "REVIEW_REQUIRED", "SAMPLED_FOR_CALIBRATION", {}),
    Row(TRUE, "PASSED", "ALL_CRITICAL_CHECKS_PASSED", {}) >>

\* evaluate_gate returns at the first condition that holds.
Gate(ok, res, s, smp) ==
    LET table == PrecedenceTable(ok, res, s, smp)
        i == CHOOSE n \in DOMAIN table :
                table[n].holds /\ \A k \in 1..(n - 1) : ~table[k].holds
    IN  table[i]

---------------------------------------------------------------------------
(* execute_evaluation *)

\* The transcript is validated and the checks are resolved.  An invalid
\* transcript goes to the gate without results.
Validate ==
    /\ stage = "validate"
    /\ valid' \in BOOLEAN
    /\ sampled' \in BOOLEAN
    /\ stage' = IF valid' THEN "execute" ELSE "decide"
    /\ UNCHANGED <<found, reply, results, score, decision>>

\* EvaluatorRegistry.evaluate_check for every applicable check.
Execute ==
    /\ stage = "execute"
    /\ \E applicable \in SUBSET Check : found' \in [applicable -> Finding]
    /\ stage' = "adjudicate"
    /\ UNCHANGED <<valid, sampled, reply, results, score, decision>>

\* adjudicate_results
Adjudicate ==
    /\ stage = "adjudicate"
    /\ reply' \in [Eligible(found) -> Reply]
    /\ results' = [c \in DOMAIN found |->
           IF c \in Eligible(found) THEN Adjudicated(c, found[c], Proposal(reply'[c]))
                                    ELSE found[c]]
    /\ stage' = "score"
    /\ UNCHANGED <<valid, sampled, found, score, decision>>

\* EvaluationScoreCalculator.calculate
Score ==
    /\ stage = "score"
    /\ score' \in Scores(results)
    /\ stage' = "decide"
    /\ UNCHANGED <<valid, sampled, found, reply, results, decision>>

\* DeterministicPolicyEngine.evaluate_gate
Decide ==
    /\ stage = "decide"
    /\ decision' = Gate(valid, results, score, sampled)
    /\ stage' = "done"
    /\ UNCHANGED <<valid, sampled, found, reply, results, score>>

Next == Validate \/ Execute \/ Adjudicate \/ Score \/ Decide

Spec == Init /\ [][Next]_vars

---------------------------------------------------------------------------
(* Properties *)

\* Every stage has produced values of its types.
TypeOK ==
    /\ stage \in {"validate", "execute", "adjudicate", "score", "decide", "done"}
    /\ valid \in BOOLEAN /\ sampled \in BOOLEAN
    /\ DOMAIN found \subseteq Check /\ found \in [DOMAIN found -> Result]
    /\ DOMAIN results \subseteq Check /\ results \in [DOMAIN results -> Result]
    /\ DOMAIN reply \subseteq DOMAIN found /\ reply \in [DOMAIN reply -> Reply]
    /\ score \in (0..10000) \cup {None}

\* An answer that settles a finding one way or the other.
Decisive(c) == Proposal(reply[c]).verdict # "CANNOT_DETERMINE"
               /\ Proposal(reply[c]).confidence >= MinConfidence

\* The words of the evaluators and of the adjudicator that let a sale ship.
ConfidentPass(f) ==
    f.outcome = "PASS" /\ (f.confidence = None \/ f.confidence >= ConfidenceThreshold)

Clean ==
    /\ valid
    /\ DOMAIN found # {}
    /\ \A c \in DOMAIN found : found[c].outcome = "AMBIGUOUS" => Decisive(c)
    /\ \A c \in DOMAIN found \cap Critical :
          \/ ConfidentPass(found[c])
          \/ /\ AllowCriticalPass
             /\ found[c].outcome = "AMBIGUOUS"
             /\ reply[c].verdict = "SATISFIED"
    /\ score # None /\ score >= PassingScore

\* A sale ships exactly when what was found and answered is clean and it is
\* not sampled, and only clean sales are sampled: adjudication, score and the
\* order of the eleven conditions add up to that
\* (gate_engine.py:214-216, adjudication_policy.py:1-11).
GateFollowsClean ==
    stage = "done" =>
        /\ decision.status = "PASSED" <=> Clean /\ ~sampled
        /\ decision.reason = "SAMPLED_FOR_CALIBRATION" <=> Clean /\ sampled

\* An answer changes nothing but an ambiguous finding, and that only when it
\* is usable and confident; it does not loosen a critical check.  An outage
\* leaves the finding for a human (docs/architecture.md:88-96).
AdjudicatorBounded ==
    \A c \in DOMAIN results : results[c] # found[c] =>
        /\ found[c].outcome = "AMBIGUOUS"
        /\ reply[c].verdict \in {"SATISFIED", "NOT_SATISFIED"} /\ reply[c].cites # "unknown"
        /\ Decisive(c)
        /\ c \in Critical => results[c].outcome = "FAIL" \/ AllowCriticalPass

\* The score lies between the lowest and the highest score of a scored check,
\* and there is none only if nothing can be scored: unevaluated checks pull
\* it neither up nor down by themselves (score_calculator.py:35-71).
ScoreWithinFindings ==
    stage = "done" /\ valid =>
        /\ score = None <=> Scored(results) = {}
        /\ score # None =>
              /\ \E c \in Scored(results) : results[c].score <= score
              /\ \E c \in Scored(results) : results[c].score >= score

\* The threshold is compared with the rounded score; rounding never makes up
\* for more than half a hundredth (score_calculator.py:65, gate_engine.py:184).
RoundingGivesAtMostHalf ==
    stage = "done" /\ decision.status = "PASSED" =>
        2 * (PassingScore * TotalWeight(results) - WeightedSum(results)) <= TotalWeight(results)

\* The findings and answers are the only ground of the results, the results
\* of the score, and these of the decision (engine.py:141-248).
GateInv ==
    /\ TypeOK
    /\ stage \in {"validate", "execute", "adjudicate"} =>
          results = NoResults /\ reply = NoResults
    /\ stage \in {"execute", "adjudicate", "score"} => valid
    /\ stage \in {"score", "decide", "done"} /\ valid =>
          /\ DOMAIN results = DOMAIN found
          /\ DOMAIN reply = Ambiguous(found)
          /\ \A c \in DOMAIN found :
                results[c] = IF c \in Ambiguous(found)
                             THEN Adjudicated(c, found[c], Proposal(reply[c]))
                             ELSE found[c]
    /\ stage \in {"decide", "done"} /\ ~valid => results = NoResults
    /\ stage \in {"decide", "done"} /\ valid => score \in Scores(results)
    /\ stage = "done" => decision = Gate(valid, results, score, sampled)

=============================================================================
