----------------------------- MODULE FactualMatch -----------------------------
(***************************************************************************)
(* The evaluator of factual checks: values spoken on the call against the  *)
(* record (packages/evaluation/evaluators/factual.py with the comparisons  *)
(* of packages/evaluation/comparators.py).                                 *)
(*                                                                         *)
(* The text of a segment is a sequence of tokens.  Emails, identifiers and *)
(* dates are single tokens; the words that make them up are left out, the  *)
(* words that make up a number are not.  Scores are percentages.           *)
(***************************************************************************)
EXTENDS SpokenNumbers, FiniteSets, Checklist

CONSTANTS
    Lexicon,    \* Lexicon[c]: the tokens that are values of comparator c
    Likeness    \* Likeness[<<v, w>>]: similarity of two different tokens

Comparator == {"DECIMAL", "MONEY", "EMAIL", "DATE", "TEXT", "IDENTIFIER",
               "BOOLEAN"}

Numeric == {"DECIMAL", "MONEY"}

CorrectionMarkers == {"sorry", "actually", "rather"}
Affirmative == {"yes", "correct", "sure"}
Negative == {"no", "nope", "negative"}

Says(segment, words) == words \cap ToSet(segment.text) # {}

\* Positions of correction markers.
Marks(text) == {i \in DOMAIN text : text[i] \in CorrectionMarkers}

ComparatorHints == <<
    [tokens |-> {"EMAIL"}, comparator |-> "EMAIL"],
    [tokens |-> {"DOB", "BIRTH", "DATE", "MOVE_IN"}, comparator |-> "DATE"],
    [tokens |-> {"NMI", "MIRN", "METER"}, comparator |-> "IDENTIFIER"],
    [tokens |-> {"CONCESSION", "LIFE_SUPPORT", "CONSENT_FLAG"},
     comparator |-> "BOOLEAN"],
    [tokens |-> {"GIFT_CARD", "PRICE", "COST", "AMOUNT", "MONTHLY"},
     comparator |-> "MONEY"],
    [tokens |-> {"RATE", "TARIFF", "CHARGE", "SUPPLY", "DISCOUNT"},
     comparator |-> "DECIMAL"],
    [tokens |-> {"ADDRESS", "NAME", "FUEL", "PLAN"}, comparator |-> "TEXT"]>>

\* _resolve_comparator: the declared one, otherwise the first that the code
\* (here the set of the hints it contains) suggests.
ResolveComparator(check) ==
    LET hints == {i \in DOMAIN ComparatorHints :
                    ComparatorHints[i].tokens \cap check.code # {}}
    IN  IF check.params.comparator \in Comparator THEN check.params.comparator
        ELSE IF hints = {} THEN "TEXT"
        ELSE ComparatorHints[Min(hints)].comparator

---------------------------------------------------------------------------
(* The expected value *)

\* resolve_expected_value; a path that is absent, None or "" is not in the
\* domain of its source.
FirstUsable(sources, paths) ==
    LET hits == {h \in (DOMAIN sources) \X (DOMAIN paths) :
                    paths[h[2]] \in DOMAIN sources[h[1]]}
        first == CHOOSE h \in hits : \A g \in hits :
                    h[1] < g[1] \/ (h[1] = g[1] /\ h[2] <= g[2])
    IN  IF hits = {} THEN None ELSE sources[first[1]][paths[first[2]]]

\* _resolve_expected: a path is [details, field]; a bare field is looked for
\* in the details last.
ResolveExpected(params, record) ==
    LET bare == Filtered(params.paths, LAMBDA p : ~p.details)
    IN  IF params.literal # None THEN params.literal
        ELSE FirstUsable(<<record.sale, record.lead>>,
                params.paths \o [i \in DOMAIN bare |->
                                    [details |-> TRUE, field |-> bare[i].field]])

---------------------------------------------------------------------------
(* Scope *)

Earliest(s, t) == s.start < t.start \/ (s.start = t.start /\ s.end < t.end)

\* The replies within the window of a question.
Replies(ordered, asked, params) ==
    {k \in (asked + 1)..Len(ordered) :
        /\ \A j \in (asked + 1)..k :
              ordered[j].start <= ordered[asked].end + params.window
        /\ ordered[k].role = params.answerer}

\* _answers_to_questions: for every question the first reply.
AnswersToQuestions(ordered, params) ==
    LET asker == IF params.answerer = "AGENT" THEN "CUSTOMER" ELSE "AGENT"
        Asked(i) == /\ ordered[i].role = asker
                    /\ Says(ordered[i], params.questions)
                    /\ Replies(ordered, i, params) # {}
        asked == Filtered([i \in DOMAIN ordered |-> i], Asked)
    IN  [n \in DOMAIN asked |-> ordered[Min(Replies(ordered, asked[n], params))]]

\* _scope_segments
ScopeSegments(call, params) ==
    LET ordered == Sorted(call, Earliest) IN
    IF params.questions # {} THEN AnswersToQuestions(ordered, params)
    ELSE Filtered(ordered, LAMBDA s :
            /\ params.speaker \in {"ANY", s.role}
            /\ params.keywords # {} => Says(s, params.keywords))

---------------------------------------------------------------------------
(* Values *)

\* An amount in thousandths.
Amount(number) ==
    LET Digit(i) == IF i \in DOMAIN number.fraction THEN number.fraction[i] ELSE 0
    IN  1000 * number.whole + 100 * Digit(1) + 10 * Digit(2) + Digit(3)

Within(numbers, params) ==
    Filtered(numbers, LAMBDA n : Amount(n) \in params.min..params.max)

\* The tokens of a text that are values of a comparator.
Listed(comparator, text) == Filtered(text, LAMBDA w : w \in Lexicon[comparator])

\* _extract_from_text
ExtractFromText(comparator, text, params) ==
    CASE comparator \in Numeric -> Within(Numbers(text), params)
      [] comparator = "BOOLEAN" ->
            IF ToSet(text) \cap Negative # {} THEN <<"no">>
            ELSE IF ToSet(text) \cap Affirmative # {} THEN <<"yes">> ELSE <<>>
      [] comparator = "TEXT" -> IF text = <<>> THEN <<>> ELSE <<text>>
      [] comparator = "IDENTIFIER" ->
            SetToSeq(ToSet(text) \cap Lexicon[comparator])
      [] OTHER -> Listed(comparator, text)

\* Values of one part of a segment.
Candidates(segment, correction, values) ==
    [i \in DOMAIN values |-> [segment |-> segment, value |-> values[i],
                              correction |-> correction]]

\* Where a correction starts: at the last marker, or after the text.
CorrectedFrom(text) ==
    IF Marks(text) = {} THEN Len(text) + 1 ELSE Max(Marks(text))

\* The candidates of a segment: what is said from its last marker on corrects.
CandidatesOf(segment, comparator, params) ==
    LET text == segment.text
        at   == CorrectedFrom(text)
        Of(part) == ExtractFromText(comparator, part, params)
    IN  Candidates(segment, FALSE, Of(SubSeq(text, 1, at - 1)))
            \o Candidates(segment, TRUE, Of(From(text, at)))

\* list.extend
Extended(list, more) == list \o more

\* _extract_candidates
ExtractCandidates(comparator, segments, params) ==
    FoldLeft(Extended, <<>>,
             [i \in DOMAIN segments |->
                CandidatesOf(segments[i], comparator, params)])

Corrections(candidates) == {c \in ToSet(candidates) : c.correction}

\* Mutant: what was corrected in the same breath stands.
RetractedBefore(candidate, candidates, params) ==
    LET latest == Max({c.segment.start : c \in Corrections(candidates)})
    IN  /\ ~candidate.correction
        /\ Corrections(candidates) # {}
        /\ latest - candidate.segment.end \in 0..params.correctionWindow

Retracted(candidate, candidates, params) ==
    LET corrections == Corrections(candidates)
        latest      == Max({c.segment.start : c \in corrections})
    IN  /\ ~candidate.correction
        /\ corrections # {}
        /\ \/ \E c \in corrections : c.segment.id = candidate.segment.id
           \/ latest - candidate.segment.end \in 0..params.correctionWindow

\* _apply_corrections: the candidates that stand.
Considered(candidates, comparator, params) ==
    IF comparator = "TEXT" THEN candidates
    ELSE Filtered(candidates, LAMBDA c : ~Retracted(c, candidates, params))

---------------------------------------------------------------------------
(* Comparison *)

Distance(m, n) == IF m > n THEN m - n ELSE n - m

Alike(v, w) ==
    IF v = w THEN 100
    ELSE IF <<v, w>> \in DOMAIN Likeness THEN Likeness[<<v, w>>] ELSE 0

\* compare_values: a similarity, 100 exactly when the values match.
Similarity(comparator, expected, observed, params) ==
    CASE comparator \in Numeric ->
            IF Distance(Amount(expected), Amount(observed)) <= params.tolerance
            THEN 100 ELSE 0
      [] comparator \in {"EMAIL", "IDENTIFIER"} -> Alike(expected, observed)
      [] comparator = "TEXT" ->
            Max({Alike(expected, observed[i]) : i \in DOMAIN observed})
      [] OTHER -> IF expected = observed THEN 100 ELSE 0

NearMiss(comparator, similarity, params) ==
    /\ comparator \in {"EMAIL", "IDENTIFIER", "TEXT"}
    /\ similarity \in params.nearMiss..99

NearMissOutcome(comparator, params) ==
    IF params.nearMissOutcome # None THEN params.nearMissOutcome
    ELSE IF comparator = "TEXT" THEN "AMBIGUOUS" ELSE "FAIL"

\* The position of the first match, otherwise of the first that is closest.
Chosen(similarities) ==
    Min({i \in DOMAIN similarities :
            \A j \in DOMAIN similarities : similarities[j] <= similarities[i]})

---------------------------------------------------------------------------
(* The result *)

Evidence(candidate, type) ==
    [segment |-> candidate.segment.id, start |-> candidate.segment.start,
     value |-> candidate.value, type |-> type]

Result(outcome, confidence, reason, evidence) ==
    [outcome |-> outcome, confidence |-> confidence, reason |-> reason,
     evidence |-> evidence]

\* The values two candidates state are the same value for the evidence list.
SameStatement(comparator, c, d) ==
    /\ c.segment.id = d.segment.id
    /\ IF comparator \in Numeric THEN Amount(c.value) = Amount(d.value)
       ELSE c.value = d.value

\* Mutant: statements of the value that was chosen are taken for the same.
BuildEvidenceByValue(comparator, candidates, considered, chosen, type, params) ==
    LET retracted == Filtered(candidates,
                        LAMBDA c : comparator # "TEXT"
                                     /\ Retracted(c, candidates, params))
        others == IF comparator = "TEXT" THEN <<>>
                  ELSE Filtered(considered, LAMBDA c : c.value # chosen.value)
        context == retracted \o others
    IN  [i \in DOMAIN context |-> Evidence(context[i], "CONTEXT")]
            \o <<Evidence(chosen, type)>>

\* _build_evidence: what was retracted, the other statements, the chosen one.
BuildEvidence(comparator, candidates, considered, chosen, type, params) ==
    LET retracted == Filtered(candidates,
                        LAMBDA c : comparator # "TEXT"
                                     /\ Retracted(c, candidates, params))
        others == IF comparator = "TEXT" THEN <<>>
                  ELSE Filtered(considered,
                        LAMBDA c : ~SameStatement(comparator, c, chosen))
        context == retracted \o others
    IN  [i \in DOMAIN context |-> Evidence(context[i], "CONTEXT")]
            \o <<Evidence(chosen, type)>>

\* Mutant: only the values that match compete.
CompetingMatches(comparator, expected, considered, params) ==
    Cardinality({c.value : c \in {d \in ToSet(considered) :
        Similarity(comparator, expected, d.value, params) = 100}})

\* How many different values compete.
Competing(comparator, expected, considered, params) ==
    IF comparator = "TEXT" THEN 1
    ELSE Cardinality({c.value : c \in ToSet(considered)})

\* _finalize: the outcome that the similarity of the chosen value calls for.
Finalize(comparator, similarity, competing, evidence, params) ==
    IF similarity = 100
    THEN Result("PASS", IF competing = 1 THEN 100 ELSE 75,
                "FACTUAL_MATCH_VERIFIED", evidence)
    ELSE IF NearMiss(comparator, similarity, params)
    THEN Result(NearMissOutcome(comparator, params), similarity,
                "FACTUAL_NEAR_MISS_MISMATCH", evidence)
    ELSE Result("FAIL", 100, "FACTUAL_MISMATCH", evidence)

\* The chosen value, the evidence around it, and how many values competed.
Conclude(comparator, expected, candidates, considered, similarities, best, params) ==
    Finalize(comparator, similarities[best],
        Competing(comparator, expected, considered, params),
        BuildEvidence(comparator, candidates, considered, considered[best],
            IF similarities[best] = 100 THEN "SUPPORTING" ELSE "CONTRADICTING",
            params),
        params)

\* The value that matches, or comes closest, of those that stand.
Compare(comparator, expected, candidates, considered, params) ==
    LET similarities == [i \in DOMAIN considered |->
            Similarity(comparator, expected, considered[i].value, params)]
    IN  Conclude(comparator, expected, candidates, considered, similarities,
               Chosen(similarities), params)

\* Nothing to compare with, nothing said, or a comparison.
Judge(comparator, expected, candidates, params) ==
    IF expected = None
    THEN Result("NOT_EVALUABLE", 0, "FACTUAL_EXPECTED_VALUE_UNRESOLVED", <<>>)
    ELSE IF candidates = <<>>
    THEN Result("FAIL", 100, "VALUE_NOT_DISCLOSED", <<>>)
    ELSE Compare(comparator, expected, candidates,
            Considered(candidates, comparator, params), params)

\* FactualMatchEvaluator.evaluate
EvaluateFactual(check, call, record) ==
    LET params     == check.params
        comparator == ResolveComparator(check)
    IN  Judge(comparator, ResolveExpected(params, record),
            ExtractCandidates(comparator, ScopeSegments(call, params), params),
            params)

=============================================================================
