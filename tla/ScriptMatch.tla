----------------------------- MODULE ScriptMatch -----------------------------
(***************************************************************************)
(* The evaluator of mandatory disclosures                                  *)
(* (packages/evaluation/evaluators/verbatim.py).  Text is a sequence of    *)
(* tokens, a phrase another; difflib's ratio is twice the tokens in common, *)
(* in order, over the tokens of both.  Scores are in hundredths of a percent.        *)
(***************************************************************************)
EXTENDS Integers, Sequences, SequencesExt, FiniteSets, FiniteSetsExt,
        Sorting

\* Anchors are looked for as substrings: a plural contains its singular.
Saying(anchor) == IF anchor = "month" THEN {"month", "months"} ELSE {anchor}

\* Mutant: one anchor stands for all of them.
MissingAltogether(text, params) ==
    IF \E anchor \in params.anchors : Saying(anchor) \cap ToSet(text) # {}
    THEN {} ELSE params.anchors

Missing(text, params) ==
    {anchor \in params.anchors : Saying(anchor) \cap ToSet(text) = {}}

\* What the tokens of a text before the next have in common with the first n
\* of a phrase, longest[n], when the next is found at these places of the phrase.
Longer(longest, places) ==
    [n \in DOMAIN longest |->
        Max({longest[n]} \cup {longest[k - 1] + 1 : k \in places \cap (1..n)})]

\* Tokens of a phrase found in a text, in order.
Common(phrase, text) ==
    FoldLeft(Longer, [n \in 0..Len(phrase) |-> 0],
             [i \in DOMAIN text |-> {k \in DOMAIN phrase : phrase[k] = text[i]}])
        [Len(phrase)]

Ratio(phrase, text) ==
    (20000 * Common(phrase, text)) \div (Len(phrase) + Len(text))

PhraseSimilarity(text, params) ==
    IF params.phrases = {} THEN IF Missing(text, params) = {} THEN 10000 ELSE 0
    ELSE Max({Ratio(phrase, text) : phrase \in params.phrases})

\* Presence of the anchors weighs six tenths, the closest phrase four.
Score(text, params) ==
    LET anchors == Cardinality(params.anchors)
        present == anchors - Cardinality(Missing(text, params))
    IN  IF anchors = 0 THEN PhraseSimilarity(text, params)
        ELSE (6 * ((10000 * present) \div anchors)
                + 4 * PhraseSimilarity(text, params)) \div 10

\* The first reading with the highest score.
Better(best, reading) == IF reading.score > best.score THEN reading ELSE best

\* What is cited is the first segment, also of a reading of two.
Reading(segment, text, params) ==
    [segment |-> segment.id, start |-> segment.start, text |-> segment.text,
     score |-> Score(text, params), missing |-> Missing(text, params)]

NoReading == [segment |-> 0, start |-> 0, text |-> <<>>, score |-> 0,
              missing |-> {}]

\* The best single segment of the role, and when it falls short of the
\* threshold the best of these and of any two successive ones.
BestReading(segments, params) ==
    LET single == FoldLeft(Better, NoReading,
                    [i \in DOMAIN segments |->
                        Reading(segments[i], segments[i].text, params)])
        pairs == [i \in 1..(Len(segments) - 1) |->
                    Reading(segments[i],
                            segments[i].text \o segments[i + 1].text, params)]
    IN  IF single.score < params.threshold
        THEN FoldLeft(Better, single, pairs) ELSE single

ScriptEvidence(reading, type) ==
    <<[segment |-> reading.segment, start |-> reading.start,
       value |-> reading.text, type |-> type]>>

\* VerbatimRequirementEvaluator.evaluate
EvaluateScript(check, call) ==
    LET params == check.params
        best == BestReading(Filtered(call, LAMBDA s : s.role = params.speaker),
                            params)
    IN  IF best.segment # 0 /\ best.missing = {} /\ best.score >= params.threshold
        THEN [outcome |-> "PASS", confidence |-> 95,
              reason |-> "VERBATIM_DISCLOSURE_VERIFIED",
              evidence |-> ScriptEvidence(best, "SUPPORTING")]
        ELSE IF best.segment # 0 /\ best.score >= params.reviewFloor
        THEN [outcome |-> IF best.score >= params.ambiguous THEN "AMBIGUOUS"
                          ELSE "FAIL",
              confidence |-> best.score \div 100,
              reason |-> "VERBATIM_PARTIAL_OR_AMBIGUOUS_MATCH",
              evidence |-> ScriptEvidence(best, "CONTRADICTING")]
        ELSE [outcome |-> "FAIL", confidence |-> 95,
              reason |-> "MANDATORY_CONCEPT_MISSING", evidence |-> <<>>]

=============================================================================
