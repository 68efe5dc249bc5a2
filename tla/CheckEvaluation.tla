---------------------------- MODULE CheckEvaluation ----------------------------
(***************************************************************************)
(* The evaluation of the checks of one sale: versions and applicability    *)
(* are resolved for the date of the call, and every check that applies is  *)
(* given to the evaluator of its type (packages/evaluation/engine.py,      *)
(* packages/evaluation/registry.py).                                       *)
(*                                                                         *)
(* The library is built from a catalogue, or versions of one check,        *)
(* "dated", are published into it.  Of the checks that apply, one of those *)
(* whose parameters the catalogue module gives is followed.                *)
(***************************************************************************)
EXTENDS FactualMatch, ScriptMatch, Conduct, Functions

CONSTANTS
    Date,       \* instants
    Sale,       \* the sales: their dimensions
    FollowedSale,\* bound: the sale whose checks are followed
    MaxVersions,\* bound on the versions of the dated check
    CallsOf,    \* CallsOf[check]: the calls on which it is followed
    RecordsOf,  \* RecordsOf[check]: the [sale, lead] records it is followed with
    Amounts     \* the numbers whose spoken forms are looked for

Speaker == {"AGENT", "CUSTOMER", "UNKNOWN"}

\* What TranscriptIntegrityValidator lets through.
Segment == {s \in [id : Nat, start : Nat, end : Nat, role : Speaker, label : STRING,
                   text : Seq(STRING)] : s.start < s.end}

ASSUME DateAssumption == Forever # 0 /\ Date \subseteq 0..(Forever - 1)

\* Segments are numbered, and roles are assigned to labels.
ASSUME CallsAssumption ==
    \A check \in Followed : \A call \in CallsOf[check] :
        /\ call \in Seq(Segment)
        /\ \A i, j \in DOMAIN call :
            /\ call[i].id = call[j].id => i = j
            /\ call[i].label = call[j].label => call[i].role = call[j].role

\* The scales of spoken numbers end with the thousands.
Sayable == {n \in Nat : n \div 1000 < 1000}

ASSUME AmountsAssumption == Amounts \subseteq [whole : Sayable, fraction : Seq(0..9)]

ASSUME LikenessAssumption == \A pair \in DOMAIN Likeness : Likeness[pair] \in 0..100

\* The engine measures gaps from one second on, and no check allows less.
ASSUME PermissiveAssumption ==
    \A check \in FollowedConduct :
        DeadAirThreshold <= ConductParams(check).maxSilence

VARIABLES
    pc,         \* what the evaluation does next
    versions,   \* versions[check]
    date,       \* of the call
    sale,       \* its dimensions
    applies,    \* the checks that apply
    input,      \* the followed check, the call and the records
    result      \* of the followed check

vars == <<pc, versions, date, sale, applies, input, result>>

NoInput == [check |-> "", params |-> <<>>, code |-> {}, call |-> <<>>,
            record |-> <<>>]

NoResult == [outcome |-> "", confidence |-> 0, reason |-> "", evidence |-> <<>>]

Init ==
    /\ pc = "library"
    /\ versions \in {[check \in {"dated"} |-> <<>>], BuildLibrary(EnergyCheck),
                     BuildLibrary(TelcoCheck)}
    /\ date = 0
    /\ sale \in Sale
    /\ applies = {}
    /\ input = NoInput
    /\ result = NoResult

\* save_check_version after CheckVersion.create; nothing compares it with the
\* versions that are there.
PublishVersion ==
    /\ pc = "library"
    /\ "dated" \in DOMAIN versions
    /\ Len(versions["dated"]) < MaxVersions
    /\ \E from \in Date, to \in Date \cup {Forever} :
          LET version == [from |-> from, to |-> to, applicability |-> Everywhere] IN
          /\ Creatable(version)
          /\ versions' = [versions EXCEPT !["dated"] = Append(@, version)]
    /\ UNCHANGED <<pc, date, sale, applies, input, result>>

\* Versions are resolved for the date of the call; an error fails the job.
ResolveChecks ==
    /\ pc = "library"
    /\ date' \in Date
    /\ IF Resolves(versions, date')
       THEN /\ pc' = "checks"
            /\ applies' = ResolvedChecks(versions, date', sale)
       ELSE /\ pc' = "failed"
            /\ UNCHANGED applies
    /\ UNCHANGED <<versions, sale, input, result>>

LastEndOf(call) == IF call = <<>> THEN 0 ELSE LastEnd(call)

\* EvaluatorRegistry.evaluate_check
Dispatch(in) ==
    CASE TypeOf(in.check) = "VERBATIM" -> EvaluateScript(in, in.call)
      [] TypeOf(in.check) = "FACTUAL_MATCH" ->
            EvaluateFactual(in, in.call, in.record)
      [] TypeOf(in.check) = "BEHAVIOUR" ->
            EvaluateConduct(in, in.call, LastEndOf(in.call))

\* What a check makes of a call depends on neither sale nor date: followed are
\* the checks of one sale, on the first date of the catalogue.
EvaluateCheck ==
    /\ pc = "checks"
    /\ sale = FollowedSale /\ date = EffectiveFrom
    /\ \E check \in applies \cap Followed :
          \E call \in CallsOf[check], record \in RecordsOf[check] :
             input' = [check |-> check, params |-> ParamsOf(check),
                       code |-> CodeOf(check), call |-> call, record |-> record]
    /\ result' = Dispatch(input')
    /\ pc' = "evaluated"
    /\ UNCHANGED <<versions, date, sale, applies>>

Next ==
    \/ PublishVersion
    \/ ResolveChecks
    \/ EvaluateCheck

Spec == Init /\ [][Next]_vars

---------------------------------------------------------------------------
(* Properties of resolution *)

Outcome == {"", "PASS", "FAIL", "AMBIGUOUS", "NOT_EVALUABLE", "UNSUPPORTED"}

\* Types; evidence names segments of the call.
TypeOK ==
    /\ pc \in {"library", "checks", "failed", "evaluated"}
    /\ applies \subseteq DOMAIN versions
    /\ result.outcome \in Outcome
    /\ result.confidence \in 0..100
    /\ \A e \in ToSet(result.evidence) :
          \E s \in ToSet(input.call) : e.segment = s.id

\* Comparing neighbours by date accepts exactly the libraries in which no
\* instant belongs to two versions, however many there are and in whatever
\* order they were stored.
AcceptsExactlyTheDisjoint ==
    \A check \in DOMAIN versions :
        LET vs == versions[check] IN
        NonOverlapping(vs) <=>
            \A i, j \in DOMAIN vs :
                i # j => vs[i].to < vs[j].from \/ vs[j].to < vs[i].from

\* A call is evaluated under the version in force on its date, the first and
\* the last instant of a version included, and fails only where none is.
DatedCallsResolve ==
    LET vs == versions["dated"]
        InForce == {v \in ToSet(vs) : date \in v.from..v.to}
    IN  "dated" \in DOMAIN versions /\ vs # <<>> /\ NonOverlapping(vs) =>
            /\ pc = "failed" => InForce = {}
            /\ pc = "checks" => InForce = {Active(vs, date)}

\* The library never leaves open which version of a check a call is judged by.
OneVersionInForce == TypeOK /\ AcceptsExactlyTheDisjoint /\ DatedCallsResolve

\* Whatever the fuel, every energy sale in the four states of the catalogue
\* is checked for exactly one default-offer comparison.
OneDefaultOfferComparison ==
    pc = "checks" /\ "vdo_comparison" \in DOMAIN versions
        /\ sale.state \in {"VIC", "NSW", "SA", "QLD"} =>
        Cardinality(applies \cap {"vdo_comparison", "dmo_comparison"}) = 1

Weights == [check \in EnergyCheck |-> Weight(check)]

Total(checks) == SumFunctionOnSet(Weights, checks)

PassMark == 85

\* Behaviour checks of the energy catalogue coach and do not block: they are
\* not critical, and a sale that fails them all and nothing else keeps its
\* score, whichever checks apply to it.
BehaviourNeverBlocks ==
    pc = "checks" /\ applies \subseteq EnergyCheck =>
        /\ DOMAIN ConductWeight \subseteq NonCritical
        /\ 100 * Total(applies \ DOMAIN ConductWeight) >= PassMark * Total(applies)

\* The catalogue gives a sale the checks its fuel and state call for, and the
\* weights to match.
ChecksFitTheSale == OneDefaultOfferComparison /\ BehaviourNeverBlocks

---------------------------------------------------------------------------
(* Properties of factual checks *)

\* Numbers in English, as far as the words of Units and Tens go.
NameOf(n) == CHOOSE w \in DOMAIN Units \ {"oh"} : Units[w] = n
NameOfTens(n) == CHOOSE w \in DOMAIN Tens \ {"fourty"} : Tens[w] = n

Below100(n) ==
    IF n < 20 THEN <<NameOf(n)>>
    ELSE <<NameOfTens(10 * (n \div 10))>> \o (IF n % 10 = 0 THEN <<>> ELSE <<NameOf(n % 10)>>)

Below1000(n) ==
    IF n < 100 THEN Below100(n)
    ELSE <<NameOf(n \div 100), "hundred">>
            \o (IF n % 100 = 0 THEN <<>> ELSE <<"and">> \o Below100(n % 100))

InWords(n) ==
    IF n < 1000 THEN Below1000(n)
    ELSE Below1000(n \div 1000) \o <<"thousand">>
            \o (IF n % 1000 = 0 THEN <<>>
                ELSE (IF n % 1000 < 100 THEN <<"and">> ELSE <<>>) \o Below1000(n % 1000))

\* A number with its digits after the point said one by one.
SaidDecimal(number) ==
    InWords(number.whole)
        \o (IF number.fraction = <<>> THEN <<>>
            ELSE <<"point">> \o [i \in DOMAIN number.fraction |->
                                    NameOf(number.fraction[i])])

Followable(kind) == pc = "evaluated" /\ TypeOf(input.check) = kind

SaidForm == [number \in Amounts |-> SaidDecimal(number)]

Positions(part, text) ==
    {i \in 1..(Len(text) - Len(part) + 1) : SubSeq(text, i, i + Len(part) - 1) = part}

\* Wherever an amount is said in words, with ordinary words or nothing around
\* it, it is among the numbers heard, and an utterance of nothing but two
\* amounts with a word between them is heard as these two, in order.
SpokenFormsUnderstood ==
    Followable("FACTUAL_MATCH") =>
        \A s \in ToSet(input.call), m \in Amounts :
            \A i \in Positions(SaidForm[m], s.text) :
                LET after == i + Len(SaidForm[m]) IN
                (/\ i = 1 \/ s.text[i - 1] \notin NumberWords \cup DOMAIN Numeral
                 /\ after > Len(s.text)
                      \/ s.text[after] \notin NumberWords \cup DOMAIN Numeral) =>
                    Numbers(s.text) =
                        Numbers(SubSeq(s.text, 1, i - 1)) \o <<m>>
                            \o Numbers(From(s.text, after))

Comparator0 == ResolveComparator(input)
Expected0   == ResolveExpected(input.params, input.record)
Scoped0     == ScopeSegments(input.call, input.params)
Candidates0 == ExtractCandidates(Comparator0, Scoped0, input.params)

Agrees(value) == Similarity(Comparator0, Expected0, value, input.params) = 100

Supporting == {e \in ToSet(result.evidence) : e.type = "SUPPORTING"}

\* The candidates from the last correction on.
SaidLast(candidates) ==
    {candidates[i] : i \in
        {k \in DOMAIN candidates :
            \A h \in DOMAIN candidates : candidates[h].correction => h <= k}}

\* What a sale may pass on without a human (a PASS of which the gate does not
\* doubt the confidence) is not contradicted by what was said last: from the
\* last correction on, every value in scope agrees with the record.
NoContradictionShips ==
    Followable("FACTUAL_MATCH") /\ Comparator0 # "TEXT"
        /\ result.outcome = "PASS" /\ result.confidence >= 80 =>
        \A c \in SaidLast(Candidates0) : Agrees(c.value)

\* A value taken back in the same breath does not confirm the record: where a
\* segment passes the check and goes on to correct itself, it is the corrected
\* value that agrees.
TakenBackIsNotConfirmed ==
    Followable("FACTUAL_MATCH") /\ Comparator0 # "TEXT" =>
        \A e \in Supporting :
            LET corrected == {c \in Corrections(Candidates0) :
                                c.segment.id = e.segment}
            IN  corrected # {} => \E c \in corrected : Agrees(c.value)

\* A reviewer sees everything the decision weighed: every value in scope is
\* among the evidence, with the segment it was said in.
NothingSaidIsHidden ==
    Followable("FACTUAL_MATCH") /\ Comparator0 # "TEXT"
        /\ result.outcome \in {"PASS", "FAIL", "AMBIGUOUS"} =>
        \A c \in ToSet(Candidates0) :
            \E e \in ToSet(result.evidence) :
                /\ e.segment = c.segment.id
                /\ IF Comparator0 \in Numeric
                   THEN Amount(e.value) = Amount(c.value) ELSE e.value = c.value

\* The answer a check cites is the first thing the customer says after the
\* agent has begun to ask, within the window after the question.
AnswersBelongToQuestions ==
    Followable("FACTUAL_MATCH") /\ input.params.questions # {} =>
        \A e \in ToSet(result.evidence) :
            \E s \in ToSet(input.call), q \in ToSet(input.call) :
                /\ s.id = e.segment
                /\ s.role = input.params.answerer
                /\ q.role # s.role /\ Says(q, input.params.questions)
                /\ q.start <= s.start /\ s.start <= q.end + input.params.window
                /\ \A t \in ToSet(input.call) :
                      t.role = s.role /\ Earliest(q, t) => ~Earliest(t, s)

\* What a reviewer reads under a factual check is what decided it.
EvidenceTellsTheReason == NothingSaidIsHidden /\ AnswersBelongToQuestions

---------------------------------------------------------------------------
(* Properties of the other checks *)

\* A disclosure passes only where the agent says all of it in one place: the
\* cited segment, or that and the agent's next, hold every anchor.
DisclosureReadInOnePlace ==
    Followable("VERBATIM") /\ result.outcome = "PASS" =>
        LET said == Filtered(input.call, LAMBDA s : s.role = input.params.speaker) IN
        \E i \in DOMAIN said, e \in Supporting :
            /\ e.segment = said[i].id
            /\ \A anchor \in input.params.anchors :
                  Saying(anchor) \cap
                      (ToSet(said[i].text) \cup
                          (IF i < Len(said) THEN ToSet(said[i + 1].text) ELSE {})) # {}

\* Silences of the call, by the ends and starts of segments around them.
Silences(call) ==
    {g \in {[start |-> s.end, end |-> t.start] : s, t \in ToSet(call)} :
        /\ Span(g) > 0
        /\ \A s \in ToSet(Spoken(call)) : s.end <= g.start \/ s.start >= g.end}

\* Although gaps are measured once, with another threshold, dead air is judged
\* by the limit of the check: it fails exactly on a longer silence.
DeadAirByItsOwnLimit ==
    Followable("BEHAVIOUR") /\ ResolveMetric(input) = "DEAD_AIR"
        /\ input.call # <<>> =>
        (result.outcome = "FAIL" <=>
            \E g \in Silences(Filtered(input.call, LAMBDA s : s.end > s.start)) :
                Span(g) > input.params.maxSilence)

\* An agent fails on interruptions only for having started to talk within the
\* speech of somebody else more often than allowed.
OnlyAgentsInterrupt ==
    Followable("BEHAVIOUR") /\ ResolveMetric(input) = "INTERRUPTIONS"
        /\ result.outcome = "FAIL" =>
        Cardinality({p \in ToSet(input.call) \X ToSet(input.call) :
            /\ p[1].role = "AGENT" /\ p[2].label # p[1].label
            /\ p[2].start < p[1].start /\ p[1].start < p[2].end})
                > input.params.maxInterruptions

\* Script and conduct checks fail and pass on what happened in the call.
SpeechJudgedAsItHappened ==
    DisclosureReadInOnePlace /\ DeadAirByItsOwnLimit /\ OnlyAgentsInterrupt

=============================================================================
