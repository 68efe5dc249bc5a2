-------------------------- MODULE GatePolicy_proofs --------------------------
(***************************************************************************)
(* Theorems about GatePolicy, for any checklist, findings and answers.     *)
(***************************************************************************)
EXTENDS GatePolicy, FiniteSetTheorems, TLAPS

Plus(sum, x) == x + sum

\* Induction over what a sum adds up.
Sum == INSTANCE FoldFacts WITH Step <- Plus

\* A table of eleven rows whose last one holds has a first row that holds.
LEMMA FirstRow ==
    ASSUME NEW t, t[11].holds
    PROVE  \E n \in 1..11 : t[n].holds /\ \A k \in 1..(n - 1) : ~t[k].holds
<1> DEFINE P(n) == t[n].holds /\ \A k \in 1..(n - 1) : ~t[k].holds
<1> SUFFICES ASSUME \A n \in 1..11 : ~P(n) PROVE FALSE
  OBVIOUS
<1>1. ~t[1].holds
  OBVIOUS
<1>2. ~t[2].holds
  BY <1>1
<1>3. ~t[3].holds
  BY <1>1, <1>2
<1>4. ~t[4].holds
  BY <1>1, <1>2, <1>3
<1>5. ~t[5].holds
  BY <1>1, <1>2, <1>3, <1>4
<1>6. ~t[6].holds
  BY <1>1, <1>2, <1>3, <1>4, <1>5
<1>7. ~t[7].holds
  BY <1>1, <1>2, <1>3, <1>4, <1>5, <1>6
<1>8. ~t[8].holds
  BY <1>1, <1>2, <1>3, <1>4, <1>5, <1>6, <1>7
<1>9. ~t[9].holds
  BY <1>1, <1>2, <1>3, <1>4, <1>5, <1>6, <1>7, <1>8
<1>10. ~t[10].holds
  BY <1>1, <1>2, <1>3, <1>4, <1>5, <1>6, <1>7, <1>8, <1>9
<1> QED
  BY <1>1, <1>2, <1>3, <1>4, <1>5, <1>6, <1>7, <1>8, <1>9, <1>10

\* None of the first nine conditions holds.
Unmet(ok, res, s) ==
    /\ ok
    /\ Blocking(res, "FAIL") = {} /\ Blocking(res, "NOT_EVALUABLE") = {}
    /\ Blocking(res, "UNSUPPORTED") = {} /\ LowConfidence(res) = {}
    /\ DOMAIN res # {} /\ s # None /\ ~(s < PassingScore)
    /\ Ambiguous(res) \ Critical = {}

\* Where the gate passes a sale and where it samples one.
LEMMA GateRows ==
    ASSUME NEW ok \in BOOLEAN, NEW res, NEW s, NEW smp \in BOOLEAN
    PROVE  LET g == Gate(ok, res, s, smp) IN
           /\ g.status = "PASSED" <=> Unmet(ok, res, s) /\ ~smp
           /\ g.reason = "SAMPLED_FOR_CALIBRATION" <=> Unmet(ok, res, s) /\ smp
<1> DEFINE t == PrecedenceTable(ok, res, s, smp)
           n == CHOOSE k \in DOMAIN t : t[k].holds /\ \A l \in 1..(k - 1) : ~t[l].holds
           cond == <<~ok, Blocking(res, "FAIL") # {}, Blocking(res, "NOT_EVALUABLE") # {},
                     Blocking(res, "UNSUPPORTED") # {}, LowConfidence(res) # {},
                     DOMAIN res = {}, s = None, s # None /\ s < PassingScore,
                     Ambiguous(res) \ Critical # {}>>
<1>1. /\ t[1].status # "PASSED" /\ t[2].status # "PASSED" /\ t[3].status # "PASSED"
      /\ t[4].status # "PASSED" /\ t[5].status # "PASSED" /\ t[6].status # "PASSED"
      /\ t[7].status # "PASSED" /\ t[8].status # "PASSED" /\ t[9].status # "PASSED"
      /\ t[10].status # "PASSED" /\ t[11].status = "PASSED"
  BY DEF PrecedenceTable, Row
<1>2. /\ t[1].reason # "SAMPLED_FOR_CALIBRATION" /\ t[2].reason # "SAMPLED_FOR_CALIBRATION"
      /\ t[3].reason # "SAMPLED_FOR_CALIBRATION" /\ t[4].reason # "SAMPLED_FOR_CALIBRATION"
      /\ t[5].reason # "SAMPLED_FOR_CALIBRATION" /\ t[6].reason # "SAMPLED_FOR_CALIBRATION"
      /\ t[7].reason # "SAMPLED_FOR_CALIBRATION" /\ t[8].reason # "SAMPLED_FOR_CALIBRATION"
      /\ t[9].reason # "SAMPLED_FOR_CALIBRATION" /\ t[11].reason # "SAMPLED_FOR_CALIBRATION"
      /\ t[10].reason = "SAMPLED_FOR_CALIBRATION"
  BY DEF PrecedenceTable, Row
<1>3. /\ t[1].holds = cond[1] /\ t[2].holds = cond[2] /\ t[3].holds = cond[3]
      /\ t[4].holds = cond[4] /\ t[5].holds = cond[5] /\ t[6].holds = cond[6]
      /\ t[7].holds = cond[7] /\ t[8].holds = cond[8] /\ t[9].holds = cond[9]
      /\ t[10].holds = smp /\ t[11].holds = TRUE
  BY DEF PrecedenceTable, Row
<1>4. DOMAIN t = 1..11
  BY DEF PrecedenceTable
<1>5. Unmet(ok, res, s) <=>
         /\ ~cond[1] /\ ~cond[2] /\ ~cond[3] /\ ~cond[4] /\ ~cond[5]
         /\ ~cond[6] /\ ~cond[7] /\ ~cond[8] /\ ~cond[9]
  BY DEF Unmet
<1> HIDE DEF t, cond
<1>6. \E k \in DOMAIN t : t[k].holds /\ \A l \in 1..(k - 1) : ~t[l].holds
  <2>1. t[11].holds
    BY <1>3
  <2> QED
    BY <1>4, <2>1, FirstRow
<1>7. n \in 1..11 /\ t[n].holds /\ \A l \in 1..(n - 1) : ~t[l].holds
  BY <1>4, <1>6
<1>8. Gate(ok, res, s, smp) = t[n]
  BY DEF Gate, t
<1> HIDE DEF n
<1>9. n = 1 \/ n = 2 \/ n = 3 \/ n = 4 \/ n = 5 \/ n = 6
         \/ n = 7 \/ n = 8 \/ n = 9 \/ n = 10 \/ n = 11
  BY <1>7
<1>10. n = 11 => Unmet(ok, res, s) /\ ~smp
  BY <1>3, <1>5, <1>7
<1>11. n = 10 => Unmet(ok, res, s) /\ smp
  BY <1>3, <1>5, <1>7
<1>12. Unmet(ok, res, s) => n = 10 \/ n = 11
  BY <1>3, <1>5, <1>7, <1>9
<1>13. (t[n].status = "PASSED") = (n = 11)
  BY <1>1, <1>9
<1>14. (t[n].reason = "SAMPLED_FOR_CALIBRATION") = (n = 10)
  BY <1>2, <1>9
<1>15. n = 10 => n # 11
  OBVIOUS
<1>16. (n = 11) <=> Unmet(ok, res, s) /\ ~smp
  BY <1>10, <1>11, <1>12, <1>15
<1>17. (n = 10) <=> Unmet(ok, res, s) /\ smp
  BY <1>10, <1>11, <1>12, <1>15
<1> QED
  BY <1>8, <1>13, <1>14, <1>16, <1>17
---------------------------------------------------------------------------
(* One check *)

\* A proposal has the type policy expects.
LEMMA ProposalTyped ==
    ASSUME NEW a \in Reply
    PROVE  /\ Proposal(a) \in [verdict : Verdict, confidence : Nat]
           /\ Proposal(a).verdict # "CANNOT_DETERMINE" => Usable(a) /\ Proposal(a).verdict = a.verdict
<1>1. /\ a.verdict \in Verdict \cup Unusable
      /\ a.confidence \in Int \cup {None}
  BY InputAssumption
<1>2. Clamped(a.confidence) \in Nat
  BY <1>1 DEF Clamped
<1>3. Undetermined \in [verdict : Verdict, confidence : Nat]
  BY DEF Undetermined, Verdict
<1>4. CASE Usable(a)
  BY <1>1, <1>2, <1>4 DEF Proposal, Usable
<1>5. CASE ~Usable(a)
  BY <1>3, <1>5 DEF Proposal, Undetermined
<1> QED
  BY <1>4, <1>5

\* Adjudication keeps the type of a result.
LEMMA AdjudicatedTyped ==
    ASSUME NEW c, NEW f \in Result, NEW v
    PROVE  Adjudicated(c, f, v) \in Result
<1>1. CASE Applied(c, v)
  <2>1. {10000, 0} \subseteq 0..10000 /\ {"PASS", "FAIL"} \subseteq Outcome
    BY DEF Outcome
  <2>2. ResolvedConfidence \in Nat
    BY PolicyAssumption
  <2> QED
    BY <1>1, <2>1, <2>2 DEF Adjudicated, Result
<1>2. CASE ~Applied(c, v)
  BY <1>2 DEF Adjudicated
<1> QED
  BY <1>1, <1>2

\* What adjudication makes of an ambiguous finding, in the words of its answer.
LEMMA AmbiguousFinding ==
    ASSUME NEW c, NEW f \in Result, NEW a \in Reply, f.outcome = "AMBIGUOUS"
    PROVE  LET r == Adjudicated(c, f, Proposal(a))
               decisive == /\ Proposal(a).verdict # "CANNOT_DETERMINE"
                           /\ Proposal(a).confidence >= MinConfidence
           IN  /\ r # f => /\ decisive /\ Usable(a)
                           /\ a.verdict \in {"SATISFIED", "NOT_SATISFIED"}
                           /\ c \in Critical => r.outcome = "FAIL" \/ AllowCriticalPass
               /\ c \notin Critical => (r.outcome = "AMBIGUOUS" <=> ~decisive)
               /\ c \in Critical =>
                    (r.outcome = "PASS" <=>
                        decisive /\ AllowCriticalPass /\ a.verdict = "SATISFIED")
               /\ r.outcome = "PASS" =>
                    r.confidence # None /\ ~(r.confidence < ConfidenceThreshold)
<1> DEFINE v == Proposal(a)
           r == Adjudicated(c, f, v)
           decisive == v.verdict # "CANNOT_DETERMINE" /\ v.confidence >= MinConfidence
<1>1. v.verdict \in Verdict
  BY ProposalTyped
<1>2. v.verdict # "CANNOT_DETERMINE" => Usable(a) /\ v.verdict = a.verdict
  BY ProposalTyped
<1> HIDE DEF v
<1>3. Applied(c, v) <=> decisive /\ (v.verdict = "SATISFIED" /\ c \in Critical => AllowCriticalPass)
  BY DEF Applied
<1>4. ~Applied(c, v) => r = f
  BY DEF Adjudicated
<1>5. Applied(c, v) =>
        /\ r.outcome = IF v.verdict = "SATISFIED" THEN "PASS" ELSE "FAIL"
        /\ r.confidence = ResolvedConfidence
  BY DEF Adjudicated
<1>6. ResolvedConfidence # None /\ ~(ResolvedConfidence < ConfidenceThreshold)
  BY PolicyAssumption, InputAssumption
<1> HIDE DEF r
<1>7. r # f => /\ decisive /\ Usable(a)
               /\ a.verdict \in {"SATISFIED", "NOT_SATISFIED"}
               /\ c \in Critical => r.outcome = "FAIL" \/ AllowCriticalPass
  BY <1>1, <1>2, <1>3, <1>4, <1>5 DEF Verdict
<1>8. c \notin Critical => (r.outcome = "AMBIGUOUS" <=> ~decisive)
  BY <1>3, <1>4, <1>5
<1>9. c \in Critical => (r.outcome = "PASS" <=>
                            decisive /\ AllowCriticalPass /\ a.verdict = "SATISFIED")
  BY <1>1, <1>2, <1>3, <1>4, <1>5
<1>10. r.outcome = "PASS" => r.confidence # None /\ ~(r.confidence < ConfidenceThreshold)
  BY <1>4, <1>5, <1>6
<1> QED
  BY <1>7, <1>8, <1>9, <1>10 DEF v, r

---------------------------------------------------------------------------
(* The inductive invariant *)

\* The initial state satisfies it.
LEMMA InitGate == Init => GateInv
<1> SUFFICES ASSUME Init PROVE GateInv
  OBVIOUS
<1>1. DOMAIN NoResults = {}
  BY DEF NoResults
<1>2. NoResults \in [{} -> Result] /\ NoResults \in [{} -> Reply]
  BY DEF NoResults
<1>3. TypeOK
  BY <1>1, <1>2 DEF Init, TypeOK
<1> QED
  BY <1>3 DEF Init, GateInv

\* Every step keeps it.
LEMMA NextGate == GateInv /\ [Next]_vars => GateInv'
<1> SUFFICES ASSUME GateInv, [Next]_vars PROVE GateInv'
  OBVIOUS
<1>1. CASE Validate
  BY <1>1 DEF Validate, GateInv, TypeOK, NoResults
<1>2. CASE Execute
  <2>1. PICK applicable \in SUBSET Check : found' \in [applicable -> Finding]
    BY <1>2 DEF Execute
  <2>2. DOMAIN found' \subseteq Check /\ found' \in [DOMAIN found' -> Result]
    BY <2>1, InputAssumption
  <2>3. stage = "execute" /\ stage' = "adjudicate"
        /\ UNCHANGED <<valid, sampled, reply, results, score, decision>>
    BY <1>2 DEF Execute
  <2>4. TypeOK'
    <3>1. DOMAIN reply = {}
      BY <2>3 DEF GateInv, NoResults
    <3> QED
      BY <2>2, <2>3, <3>1 DEF GateInv, TypeOK
  <2> QED
    BY <2>3, <2>4 DEF GateInv
<1>3. CASE Adjudicate
  <2>1. /\ stage = "adjudicate" /\ stage' = "score"
        /\ UNCHANGED <<valid, sampled, found, score, decision>>
        /\ reply' \in [Ambiguous(found) -> Reply]
    BY <1>3 DEF Adjudicate, Eligible
  <2>2. /\ DOMAIN results' = DOMAIN found
        /\ \A c \in DOMAIN found :
              results'[c] = IF c \in Ambiguous(found)
                            THEN Adjudicated(c, found[c], Proposal(reply'[c]))
                            ELSE found[c]
    BY <1>3 DEF Adjudicate, Eligible
  <2>3. Ambiguous(found) \subseteq DOMAIN found
    BY DEF Ambiguous
  <2>4. \A c \in DOMAIN found : found[c] \in Result
    BY DEF GateInv, TypeOK
  <2>5. \A c \in DOMAIN found : results'[c] \in Result
    BY <2>2, <2>4, AdjudicatedTyped
  <2>6. results' \in [DOMAIN results' -> Result]
    <3>1. results' = [c \in DOMAIN found |-> results'[c]]
      BY <1>3 DEF Adjudicate
    <3> QED
      BY <2>2, <2>5, <3>1
  <2>7. TypeOK'
    BY <2>1, <2>2, <2>3, <2>6 DEF GateInv, TypeOK
  <2>8. Ambiguous(found)' = Ambiguous(found)
    BY <2>1 DEF Ambiguous
  <2> QED
    BY <2>1, <2>2, <2>7, <2>8 DEF GateInv
<1>4. CASE Score
  <2>1. score' \in (0..10000) \cup {None}
    BY <1>4 DEF Score, Scores, Rounded
  <2>2. /\ stage = "score" /\ stage' = "decide"
        /\ UNCHANGED <<valid, sampled, found, reply, results, decision>>
    BY <1>4 DEF Score
  <2>3. TypeOK'
    BY <2>1, <2>2 DEF GateInv, TypeOK
  <2>4. (score \in Scores(results))'
    BY <1>4 DEF Score, Scores, Scored, Rounded, WeightedSum, TotalWeight
  <2> QED
    BY <2>2, <2>3, <2>4 DEF GateInv, Ambiguous
<1>5. CASE Decide
  BY <1>5 DEF Decide, GateInv, TypeOK, Ambiguous
<1>6. CASE UNCHANGED vars
  BY <1>6 DEF vars, GateInv, TypeOK, Ambiguous
<1> QED
  BY <1>1, <1>2, <1>3, <1>4, <1>5, <1>6 DEF Next

\* Results follow from findings and answers, the decision from the results.
THEOREM GateInvariant == Spec => []GateInv
BY InitGate, NextGate, PTL DEF Spec

---------------------------------------------------------------------------
(* What follows at every stage *)

\* The results of the checks, one by one.
LEMMA ResultOfCheck ==
    ASSUME GateInv, stage = "done", valid, NEW c \in DOMAIN found
    PROVE  /\ c \in DOMAIN results /\ found[c] \in Result /\ results[c] \in Result
           /\ found[c].outcome = "AMBIGUOUS" =>
                 reply[c] \in Reply /\ results[c] = Adjudicated(c, found[c], Proposal(reply[c]))
           /\ found[c].outcome # "AMBIGUOUS" => results[c] = found[c]
<1>1. DOMAIN results = DOMAIN found /\ DOMAIN reply = Ambiguous(found)
  BY DEF GateInv
<1>2. found[c] \in Result /\ results[c] \in Result
  BY <1>1 DEF GateInv, TypeOK
<1>3. c \in Ambiguous(found) <=> found[c].outcome = "AMBIGUOUS"
  BY DEF Ambiguous
<1>4. c \in Ambiguous(found) => reply[c] \in Reply
  BY <1>1 DEF GateInv, TypeOK
<1>5. results[c] = IF c \in Ambiguous(found)
                   THEN Adjudicated(c, found[c], Proposal(reply[c])) ELSE found[c]
  BY DEF GateInv
<1> QED
  BY <1>1, <1>2, <1>3, <1>4, <1>5

\* Passing a critical check, in the words of the evaluator and of the answer.
SupportedPass(c) ==
    \/ ConfidentPass(found[c])
    \/ AllowCriticalPass /\ found[c].outcome = "AMBIGUOUS" /\ reply[c].verdict = "SATISFIED"

\* The result of a critical check blocks nothing if the pass is supported.
LEMMA CriticalResult ==
    ASSUME GateInv, stage = "done", valid, NEW c \in DOMAIN found \cap Critical
    PROVE  (results[c].outcome = "PASS" /\ ConfidentPass(results[c]))
             <=> SupportedPass(c) /\ (found[c].outcome = "AMBIGUOUS" => Decisive(c))
<1>1. CASE found[c].outcome = "AMBIGUOUS"
  <2>1. /\ reply[c] \in Reply /\ found[c] \in Result /\ results[c] \in Result
        /\ results[c] = Adjudicated(c, found[c], Proposal(reply[c]))
    BY <1>1, ResultOfCheck
  <2>2. /\ results[c].outcome = "PASS" <=>
              Decisive(c) /\ AllowCriticalPass /\ reply[c].verdict = "SATISFIED"
        /\ results[c].outcome = "PASS" =>
              results[c].confidence # None /\ ~(results[c].confidence < ConfidenceThreshold)
    BY <1>1, <2>1, AmbiguousFinding DEF Decisive
  <2>3. results[c].outcome = "PASS" => ConfidentPass(results[c])
    <3>1. results[c].confidence \in Nat \cup {None}
      <4>1. \A r \in Result : r.confidence \in Nat \cup {None}
        BY DEF Result
      <4> QED
        BY <2>1, <4>1
    <3>2. ConfidenceThreshold \in Nat
      BY PolicyAssumption
    <3>3. \A x, y \in Nat : ~(x < y) => x >= y
      OBVIOUS
    <3> QED
      BY <2>2, <3>1, <3>2, <3>3 DEF ConfidentPass
  <2>4. ~ConfidentPass(found[c])
    BY <1>1 DEF ConfidentPass
  <2> QED
    BY <1>1, <2>2, <2>3, <2>4 DEF SupportedPass
<1>2. CASE found[c].outcome # "AMBIGUOUS"
  <2>1. results[c] = found[c]
    BY <1>2, ResultOfCheck
  <2> QED
    BY <1>2, <2>1 DEF SupportedPass, ConfidentPass
<1> QED
  BY <1>1, <1>2

\* Any other check blocks a pass only when it stays ambiguous.
LEMMA OtherResult ==
    ASSUME GateInv, stage = "done", valid, NEW c \in DOMAIN found \ Critical
    PROVE  results[c].outcome # "AMBIGUOUS" <=>
             (found[c].outcome = "AMBIGUOUS" => Decisive(c))
<1>1. CASE found[c].outcome = "AMBIGUOUS"
  <2>1. /\ reply[c] \in Reply /\ found[c] \in Result
        /\ results[c] = Adjudicated(c, found[c], Proposal(reply[c]))
    BY <1>1, ResultOfCheck
  <2>2. results[c].outcome = "AMBIGUOUS" <=> ~Decisive(c)
    BY <1>1, <2>1, AmbiguousFinding DEF Decisive
  <2> QED
    BY <1>1, <2>2
<1>2. CASE found[c].outcome # "AMBIGUOUS"
  BY <1>2, ResultOfCheck
<1> QED
  BY <1>1, <1>2

\* No critical condition of the table is met.
LEMMA CriticalConditions ==
    ASSUME NEW res, \A c \in DOMAIN res : res[c] \in Result
    PROVE  (/\ Blocking(res, "FAIL") = {} /\ Blocking(res, "NOT_EVALUABLE") = {}
            /\ Blocking(res, "UNSUPPORTED") = {} /\ LowConfidence(res) = {})
           <=> \A c \in DOMAIN res \cap Critical :
                 res[c].outcome = "PASS" /\ ConfidentPass(res[c])
<1>1. \A c \in DOMAIN res : /\ res[c].outcome \in Outcome
                            /\ res[c].confidence \in Nat \cup {None}
  BY DEF Result
<1>2. \A c \in DOMAIN res : res[c].confidence # None =>
         (~(res[c].confidence < ConfidenceThreshold) <=> res[c].confidence >= ConfidenceThreshold)
  BY <1>1, PolicyAssumption
<1> QED
  BY <1>1, <1>2 DEF Blocking, LowConfidence, ConfidentPass, Outcome

\* The gate passes, or samples, exactly the clean sales.
LEMMA UnmetIsClean ==
    ASSUME GateInv, stage = "done", valid
    PROVE  Unmet(valid, results, score) <=> Clean
<1>1. DOMAIN results = DOMAIN found
  BY DEF GateInv
<1>2. \A c \in DOMAIN results : results[c] \in Result
  BY <1>1, ResultOfCheck
<1>3. (/\ Blocking(results, "FAIL") = {} /\ Blocking(results, "NOT_EVALUABLE") = {}
       /\ Blocking(results, "UNSUPPORTED") = {} /\ LowConfidence(results) = {})
      <=> \A c \in DOMAIN found \cap Critical :
             SupportedPass(c) /\ (found[c].outcome = "AMBIGUOUS" => Decisive(c))
  BY <1>1, <1>2, CriticalConditions, CriticalResult
<1>4. Ambiguous(results) \ Critical = {} <=>
        \A c \in DOMAIN found \ Critical : found[c].outcome = "AMBIGUOUS" => Decisive(c)
  BY <1>1, OtherResult DEF Ambiguous
<1>5. score # None => (~(score < PassingScore) <=> score >= PassingScore)
  <2>1. score \in (0..10000) \cup {None}
    BY DEF GateInv, TypeOK
  <2>2. PassingScore \in Nat
    BY PolicyAssumption
  <2>3. \A x \in 0..10000, y \in Nat : ~(x < y) <=> x >= y
    OBVIOUS
  <2> QED
    BY <2>1, <2>2, <2>3
<1> QED
  BY <1>1, <1>3, <1>4, <1>5 DEF Clean, SupportedPass, Unmet

\* The invariant implies the two properties of the gate.
LEMMA InvFollowsClean == GateInv => GateFollowsClean
<1> SUFFICES ASSUME GateInv, stage = "done" PROVE
       /\ decision.status = "PASSED" <=> Clean /\ ~sampled
       /\ decision.reason = "SAMPLED_FOR_CALIBRATION" <=> Clean /\ sampled
  BY DEF GateFollowsClean
<1>1. decision = Gate(valid, results, score, sampled)
  BY DEF GateInv
<1>2. valid \in BOOLEAN /\ sampled \in BOOLEAN
  BY DEF GateInv, TypeOK
<1>3. /\ decision.status = "PASSED" <=> Unmet(valid, results, score) /\ ~sampled
      /\ decision.reason = "SAMPLED_FOR_CALIBRATION" <=> Unmet(valid, results, score) /\ sampled
  BY <1>1, <1>2, GateRows
<1>4. Unmet(valid, results, score) <=> Clean
  BY <1>2, UnmetIsClean DEF Clean, Unmet
<1> QED
  BY <1>3, <1>4

\* The invariant implies the bounds on the adjudicator.
LEMMA InvBounded == GateInv => AdjudicatorBounded
<1> SUFFICES ASSUME GateInv, NEW c \in DOMAIN results, results[c] # found[c] PROVE
       /\ found[c].outcome = "AMBIGUOUS"
       /\ reply[c].verdict \in {"SATISFIED", "NOT_SATISFIED"} /\ reply[c].cites # "unknown"
       /\ Decisive(c)
       /\ c \in Critical => results[c].outcome = "FAIL" \/ AllowCriticalPass
  BY DEF AdjudicatorBounded
<1>1. stage \in {"score", "decide", "done"} /\ valid
  <2>1. results # NoResults
    BY DEF NoResults
  <2>2. stage \in {"validate", "execute", "adjudicate", "score", "decide", "done"}
    BY DEF GateInv, TypeOK
  <2>3. /\ stage \in {"validate", "execute", "adjudicate"} => results = NoResults
        /\ stage = "score" => valid
        /\ stage \in {"decide", "done"} /\ ~valid => results = NoResults
    BY DEF GateInv
  <2>4. valid \in BOOLEAN
    BY DEF GateInv, TypeOK
  <2> QED
    BY <2>1, <2>2, <2>3, <2>4
<1>2. c \in DOMAIN found /\ DOMAIN reply = Ambiguous(found)
  BY <1>1 DEF GateInv
<1>3. c \in Ambiguous(found) /\ results[c] = Adjudicated(c, found[c], Proposal(reply[c]))
  BY <1>1, <1>2 DEF GateInv
<1>4. found[c] \in Result /\ reply[c] \in Reply /\ found[c].outcome = "AMBIGUOUS"
  BY <1>2, <1>3 DEF GateInv, TypeOK, Ambiguous
<1> DEFINE r == Adjudicated(c, found[c], Proposal(reply[c]))
<1>5. r # found[c] =>
        /\ Decisive(c) /\ Usable(reply[c])
        /\ reply[c].verdict \in {"SATISFIED", "NOT_SATISFIED"}
        /\ c \in Critical => r.outcome = "FAIL" \/ AllowCriticalPass
  BY <1>4, AmbiguousFinding DEF Decisive
<1> HIDE DEF r
<1>6. results[c] = r
  BY <1>3 DEF r
<1> QED
  BY <1>4, <1>5, <1>6 DEF Usable

\* A sale ships exactly when the findings and answers are clean and it is not
\* sampled, for any checklist and any answers.
THEOREM GateIsClean == Spec => []GateFollowsClean
BY GateInvariant, InvFollowsClean, PTL

\* The adjudicator changes ambiguous findings only, and no critical one for
\* the better.
THEOREM AdjudicatorIsBounded == Spec => []AdjudicatorBounded
BY GateInvariant, InvBounded, PTL

\* Every stage has produced values of its types.
THEOREM GateTypes == Spec => []TypeOK
<1>1. GateInv => TypeOK
  BY DEF GateInv
<1> QED
  BY <1>1, GateInvariant, PTL

---------------------------------------------------------------------------
(* The score *)

\* A sum over a finite set of indices is the fold the induction is about.
LEMMA SumIsFolded ==
    ASSUME NEW table, NEW S
    PROVE  SumFunctionOnSet(table, S) = Sum!Folded(0, table, S)
BY DEF SumFunctionOnSet, FoldFunctionOnSet, MapThenFoldSet, Plus,
       Sum!Folded, Sum!FoldFunctionOnSet, Sum!MapThenFoldSet

\* Finite sets are the same in the module of the induction.
LEMMA FiniteThere == ASSUME NEW S, IsFiniteSet(S) PROVE Sum!IsFiniteSet(S)
BY DEF IsFiniteSet, Sum!IsFiniteSet

\* A sum of integers: nothing adds up to zero, one index more adds its entry.
LEMMA SumAdds ==
    ASSUME NEW S, IsFiniteSet(S), NEW table, \A x \in S : table[x] \in Int
    PROVE  /\ SumFunctionOnSet(table, {}) = 0
           /\ \A s \in SUBSET S :
                /\ SumFunctionOnSet(table, s) \in Int
                /\ \A x \in s : SumFunctionOnSet(table, s)
                                  = table[x] + SumFunctionOnSet(table, s \ {x})
<1>1. Sum!Commuting(0, table, S, Int)
    BY DEF Sum!Commuting, Plus
<1>2. /\ Sum!Folded(0, table, {}) = 0
      /\ \A s \in SUBSET S :
            /\ Sum!Folded(0, table, s) \in Int
            /\ \A x \in s : Sum!Folded(0, table, s)
                              = Plus(Sum!Folded(0, table, s \ {x}), table[x])
    BY <1>1, FiniteThere, Sum!FoldedAdds
<1> QED BY <1>2, SumIsFolded DEF Plus

\* Of two sums over the same indices, the one with entries at least a multiple
\* of the other's is at least that multiple of it; and so for at most.
LEMMA SumsCompare ==
    ASSUME NEW S, IsFiniteSet(S), NEW k \in Int,
           NEW f, \A x \in S : f[x] \in Int, NEW w, \A x \in S : w[x] \in Int
    PROVE  /\ (\A x \in S : k * w[x] <= f[x]) =>
                k * SumFunctionOnSet(w, S) <= SumFunctionOnSet(f, S)
           /\ (\A x \in S : f[x] <= k * w[x]) =>
                SumFunctionOnSet(f, S) <= k * SumFunctionOnSet(w, S)
<1> DEFINE F(s) == SumFunctionOnSet(f, s)
           W(s) == SumFunctionOnSet(w, s)
           Compared == {s \in SUBSET S :
                /\ (\A x \in S : k * w[x] <= f[x]) => k * W(s) <= F(s)
                /\ (\A x \in S : f[x] <= k * w[x]) => F(s) <= k * W(s)}
<1>1. /\ F({}) = 0 /\ W({}) = 0
      /\ \A s \in SUBSET S : /\ F(s) \in Int /\ W(s) \in Int
                             /\ \A x \in s : /\ F(s) = f[x] + F(s \ {x})
                                             /\ W(s) = w[x] + W(s \ {x})
    BY SumAdds
<1> HIDE DEF F, W
<1>2. {} \in Compared
    BY <1>1
<1>3. \A s \in SUBSET S : \A x \in S : s \in Compared => s \cup {x} \in Compared
    <2> SUFFICES ASSUME NEW s \in SUBSET S, NEW x \in S, s \in Compared
                 PROVE  s \cup {x} \in Compared
        OBVIOUS
    <2>1. CASE x \in s
        <3>1. s \cup {x} = s
            BY <2>1
        <3> QED BY <3>1
    <2>2. CASE x \notin s
        <3> DEFINE t == s \cup {x}
        <3>1. t \in SUBSET S /\ x \in t /\ t \ {x} = s
            BY <2>2
        <3>2. F(t) = f[x] + F(s) /\ W(t) = w[x] + W(s)
            BY <1>1, <3>1
        <3>3. k * W(t) = k * w[x] + k * W(s)
            BY <1>1, <3>2
        <3>4. /\ k * w[x] \in Int /\ k * W(s) \in Int /\ f[x] \in Int
              /\ F(s) \in Int
            BY <1>1
        <3>5. (\A y \in S : k * w[y] <= f[y]) => k * W(t) <= F(t)
            BY <3>2, <3>3, <3>4
        <3>6. (\A y \in S : f[y] <= k * w[y]) => F(t) <= k * W(t)
            BY <3>2, <3>3, <3>4
        <3> QED BY <3>1, <3>5, <3>6
    <2> QED BY <2>1, <2>2
<1> HIDE DEF Compared
<1>4. S \in Compared
    BY <1>2, <1>3, FiniteThere, Sum!SetInduction
<1> QED BY <1>4 DEF Compared, F, W

\* A sum of positive entries is positive.
LEMMA SumPositive ==
    ASSUME NEW S, IsFiniteSet(S), S # {}, NEW w, \A x \in S : w[x] \in Nat \ {0}
    PROVE  SumFunctionOnSet(w, S) \in Nat \ {0}
<1>1. PICK x \in S : TRUE
    OBVIOUS
<1>2. S \ {x} \in SUBSET S /\ IsFiniteSet(S \ {x})
    BY FS_Subset
<1> DEFINE R == S \ {x}
<1>3. 0 * SumFunctionOnSet(w, R) <= SumFunctionOnSet(w, R)
    <2>1. \A y \in R : w[y] \in Int
        OBVIOUS
    <2>2. \A y \in R : 0 * w[y] <= w[y]
        OBVIOUS
    <2>3. IsFiniteSet(R) /\ 0 \in Int
        BY <1>2
    <2> HIDE DEF R
    <2> QED BY <2>1, <2>2, <2>3, SumsCompare
<1>4. /\ SumFunctionOnSet(w, S \ {x}) \in Int
      /\ SumFunctionOnSet(w, S) = w[x] + SumFunctionOnSet(w, S \ {x})
    BY <1>1, <1>2, SumAdds
<1> QED BY <1>1, <1>3, <1>4

\* What goes into the score: whole numbers, with a positive sum of weights.
LEMMA ScoredResults ==
    ASSUME GateInv, Scored(results) # {}
    PROVE  /\ IsFiniteSet(Scored(results))
           /\ \A c \in Scored(results) : results[c].score \in Nat
           /\ \A c \in Scored(results) : Weight[c] \in Nat \ {0}
           /\ WeightedSum(results) \in Int
           /\ TotalWeight(results) \in Nat \ {0}
<1>1. DOMAIN results \subseteq Check /\ \A c \in DOMAIN results : results[c] \in Result
    BY DEF GateInv, TypeOK
<1>2. Scored(results) \subseteq DOMAIN results
    BY DEF Scored
<1>3. IsFiniteSet(Scored(results))
    BY <1>1, <1>2, CheckAssumption, FS_Subset
<1>4. \A c \in Scored(results) : results[c].score \in Nat
    <2>1. \A r \in Result : r.score # None => r.score \in Nat
        <3>1. (0..10000) \cup {None} \subseteq Nat \cup {None}
            OBVIOUS
        <3> DEFINE Points == (0..10000) \cup {None}
        <3>2. \A r \in Result : r.score \in Points
            BY DEF Result
        <3> HIDE DEF Points
        <3>3. \A p \in Points : p # None => p \in Nat
            BY <3>1 DEF Points
        <3> QED BY <3>2, <3>3
    <2>2. \A c \in Scored(results) : results[c] \in Result /\ results[c].score # None
        BY <1>1 DEF Scored
    <2> QED BY <2>1, <2>2
<1>5. \A c \in Scored(results) : Weight[c] \in Nat \ {0}
    <2>1. \A c \in Scored(results) : c \in Check /\ Weight[c] > 0
        BY <1>1 DEF Scored
    <2> QED BY <2>1, CheckAssumption
<1> DEFINE points == [c \in Scored(results) |-> results[c].score * Weight[c]]
<1>6. /\ WeightedSum(results) = SumFunctionOnSet(points, Scored(results))
      /\ \A c \in Scored(results) : points[c] \in Int
    <2>1. \A c \in Scored(results) : results[c].score * Weight[c] \in Int
        <3>1. \A a, b \in Nat : a * b \in Int
            OBVIOUS
        <3>2. \A c \in Scored(results) : Weight[c] \in Nat
            BY <1>5
        <3> QED BY <1>4, <3>1, <3>2
    <2>2. WeightedSum(results) = SumFunctionOnSet(points, Scored(results))
        BY DEF WeightedSum, SumFunction
    <2> QED BY <2>1, <2>2
<1> HIDE DEF points
<1>7. WeightedSum(results) \in Int
    BY <1>3, <1>6, SumAdds
<1>8. TotalWeight(results) \in Nat \ {0}
    BY <1>3, <1>5, SumPositive DEF TotalWeight
<1> QED BY <1>3, <1>4, <1>5, <1>7, <1>8

\* The score is a nearest whole number to the mean.
LEMMA ScoreIsRounded ==
    ASSUME GateInv, stage = "done", valid
    PROVE  /\ score = None <=> Scored(results) = {}
           /\ score # None =>
                /\ Scored(results) # {} /\ score \in Nat
                /\ 2 * (score * TotalWeight(results) - WeightedSum(results))
                     \in (-TotalWeight(results))..TotalWeight(results)
<1>1. score \in Scores(results)
    BY DEF GateInv
<1>2. CASE Scored(results) = {}
    BY <1>1, <1>2 DEF Scores
<1>3. CASE Scored(results) # {}
    <2>1. score \in Rounded(WeightedSum(results), TotalWeight(results))
        BY <1>1, <1>3 DEF Scores
    <2>2. score \in Nat
        BY <2>1 DEF Rounded
    <2>3. 2 * (score * TotalWeight(results) - WeightedSum(results))
             \in (-TotalWeight(results))..TotalWeight(results)
        BY <2>1 DEF Rounded
    <2>4. score # None
        BY <2>2, InputAssumption
    <2> QED BY <1>3, <2>2, <2>3, <2>4
<1> QED BY <1>2, <1>3

\* A mean with all its points beyond a number rounds beyond it, too.
LEMMA InvWithinFindings == GateInv => ScoreWithinFindings
<1> SUFFICES ASSUME GateInv, stage = "done", valid, score # None
             PROVE  /\ \E c \in Scored(results) : results[c].score <= score
                    /\ \E c \in Scored(results) : results[c].score >= score
    BY ScoreIsRounded DEF ScoreWithinFindings
<1> DEFINE S == Scored(results)
           T == TotalWeight(results)
           P == WeightedSum(results)
           points == [c \in S |-> results[c].score * Weight[c]]
<1>1. S # {} /\ score \in Nat /\ 2 * (score * T - P) \in (-T)..T
    BY ScoreIsRounded
<1>2. /\ IsFiniteSet(S) /\ P \in Int /\ T \in Nat \ {0}
      /\ \A c \in S : results[c].score \in Nat
      /\ \A c \in S : Weight[c] \in Nat \ {0}
    BY <1>1, ScoredResults
<1>3. P = SumFunctionOnSet(points, S) /\ T = SumFunctionOnSet(Weight, S)
    BY DEF WeightedSum, TotalWeight, SumFunction
<1>4. \A c \in S : points[c] = results[c].score * Weight[c]
    OBVIOUS
<1>5. \A c \in S : points[c] \in Int /\ Weight[c] \in Int
    <2>1. \A a, b \in Nat : a * b \in Int
        OBVIOUS
    <2>2. \A c \in S : Weight[c] \in Nat
        BY <1>2
    <2> HIDE DEF points
    <2> QED BY <1>2, <1>4, <2>1, <2>2
<1> HIDE DEF S, T, P, points
<1>6. \A a, k \in Nat, w \in Nat \ {0} :
        /\ ~(a <= k) => (k + 1) * w <= a * w
        /\ ~(a >= k) => a * w <= (k - 1) * w
    <2> SUFFICES ASSUME NEW a \in Nat, NEW k \in Nat, NEW w \in Nat \ {0}
                 PROVE  /\ ~(a <= k) => (k + 1) * w <= a * w
                        /\ ~(a >= k) => a * w <= (k - 1) * w
        OBVIOUS
    <2>1. ASSUME ~(a <= k) PROVE (k + 1) * w <= a * w
        <3>1. PICK d \in Nat : a = k + 1 + d
            <4>1. a - (k + 1) \in Nat
                BY <2>1
            <4> QED BY <4>1
        <3>2. a * w = (k + 1) * w + d * w
            BY <3>1
        <3>3. d * w \in Nat /\ (k + 1) * w \in Nat
            OBVIOUS
        <3> QED BY <3>2, <3>3
    <2>2. ASSUME ~(a >= k) PROVE a * w <= (k - 1) * w
        <3>1. PICK d \in Nat : k - 1 = a + d
            <4>1. (k - 1) - a \in Nat
                BY <2>2
            <4> QED BY <4>1
        <3>2. (k - 1) * w = a * w + d * w
            BY <3>1
        <3>3. d * w \in Nat /\ a * w \in Nat
            OBVIOUS
        <3> QED BY <3>2, <3>3
    <2> QED BY <2>1, <2>2
<1>7. \E c \in S : results[c].score <= score
    <2>1. SUFFICES ASSUME \A c \in S : ~(results[c].score <= score) PROVE FALSE
        OBVIOUS
    <2>2. \A c \in S : (score + 1) * Weight[c] <= points[c]
        BY <1>1, <1>2, <1>4, <1>6, <2>1
    <2>3. (score + 1) * T <= P
        BY <1>1, <1>2, <1>3, <1>5, <2>2, SumsCompare
    <2>4. (score + 1) * T = score * T + T /\ score * T \in Int
        BY <1>1, <1>2
    <2> QED BY <1>1, <1>2, <2>3, <2>4
<1>8. \E c \in S : results[c].score >= score
    <2>1. SUFFICES ASSUME \A c \in S : ~(results[c].score >= score) PROVE FALSE
        OBVIOUS
    <2>2. \A c \in S : points[c] <= (score - 1) * Weight[c]
        BY <1>1, <1>2, <1>4, <1>6, <2>1
    <2>3. P <= (score - 1) * T
        BY <1>1, <1>2, <1>3, <1>5, <2>2, SumsCompare
    <2>4. (score - 1) * T = score * T - T /\ score * T \in Int
        BY <1>1, <1>2
    <2> QED BY <1>1, <1>2, <2>3, <2>4
<1> QED BY <1>7, <1>8 DEF S

\* Where the rounded score passes, the mean is short of the threshold by half a
\* hundredth at most.
LEMMA InvRounding == GateInv => RoundingGivesAtMostHalf
<1> SUFFICES ASSUME GateInv, stage = "done", decision.status = "PASSED"
             PROVE  2 * (PassingScore * TotalWeight(results) - WeightedSum(results))
                      <= TotalWeight(results)
    BY DEF RoundingGivesAtMostHalf
<1>1. Clean
    BY InvFollowsClean DEF GateFollowsClean
<1>2. valid /\ score # None /\ score >= PassingScore
    BY <1>1 DEF Clean
<1> DEFINE T == TotalWeight(results)
           P == WeightedSum(results)
<1>3. /\ Scored(results) # {} /\ score \in Nat
      /\ 2 * (score * T - P) \in (-T)..T
    BY <1>2, ScoreIsRounded
<1>4. P \in Int /\ T \in Nat \ {0}
    BY <1>3, ScoredResults
<1> HIDE DEF T, P
<1>5. PassingScore \in Nat
    BY PolicyAssumption
<1>6. PICK d \in Nat : score = PassingScore + d
    <2>1. score - PassingScore \in Nat
        BY <1>2, <1>3, <1>5
    <2> QED BY <1>3, <1>5, <2>1
<1>7. score * T = PassingScore * T + d * T /\ d * T \in Nat
    BY <1>4, <1>5, <1>6
<1>8. PassingScore * T \in Int
    BY <1>4, <1>5
<1>9. 2 * (PassingScore * T - P) <= T
    BY <1>3, <1>4, <1>7, <1>8
<1> QED BY <1>9 DEF T, P

\* The score of a sale is within the scores it is made of: it cannot pass on
\* points no check was given.
THEOREM ScoreIsWithinFindings == Spec => []ScoreWithinFindings
BY GateInvariant, InvWithinFindings, PTL

\* No more than half a hundredth of a passing score is due to rounding.
THEOREM RoundingIsBounded == Spec => []RoundingGivesAtMostHalf
BY GateInvariant, InvRounding, PTL

=============================================================================
