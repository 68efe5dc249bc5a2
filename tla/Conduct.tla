------------------------------- MODULE Conduct -------------------------------
(***************************************************************************)
(* The evaluator of behaviour checks                                       *)
(* (packages/evaluation/evaluators/behavior.py).  It applies the limits of *)
(* a check to metrics the engine measured once, with the permissive        *)
(* thresholds DeadAirThreshold and InterruptionMin.  The rounding of       *)
(* ratios and rates to two digits is left out.                             *)
(***************************************************************************)
EXTENDS SpeechMetrics, FiniteSets, FiniteSetsExt

Metric == {"DEAD_AIR", "INTERRUPTIONS", "TALK_RATIO", "OBJECTION_HANDLING",
           "SPEECH_RATE"}

MetricHints == <<
    [tokens |-> {"DEAD_AIR", "SILENCE"}, metric |-> "DEAD_AIR"],
    [tokens |-> {"INTERRUPT", "CROSSTALK", "TALK_OVER"}, metric |-> "INTERRUPTIONS"],
    [tokens |-> {"TALK_RATIO", "RAPPORT", "DOMINANCE"}, metric |-> "TALK_RATIO"],
    [tokens |-> {"OBJECTION"}, metric |-> "OBJECTION_HANDLING"],
    [tokens |-> {"SPEECH_RATE", "WPM", "PACE"}, metric |-> "SPEECH_RATE"]>>

\* _resolve_metric: unlike a comparator, a declared metric is not looked up.
ResolveMetric(check) ==
    LET hints == {i \in DOMAIN MetricHints :
                    MetricHints[i].tokens \cap check.code # {}}
    IN  IF check.params.metric # "" THEN check.params.metric
        ELSE IF hints = {} THEN "DEAD_AIR" ELSE MetricHints[Min(hints)].metric

RolesOf(call) ==
    [label \in {s.label : s \in ToSet(call)} |->
        (CHOOSE s \in ToSet(call) : s.label = label).role]

Verdict(outcome, reason, evidence) ==
    [outcome |-> outcome, reason |-> reason, evidence |-> evidence,
     confidence |-> IF outcome \in {"PASS", "FAIL"} THEN 100 ELSE 0]

Cites(segment, start, type) ==
    [segment |-> segment.id, start |-> start, value |-> "", type |-> type]

\* _segment_before and _segment_at
SegmentBefore(segments, instant) ==
    LET before == {i \in DOMAIN segments : segments[i].end <= instant}
    IN  segments[IF before = {} THEN 1 ELSE Max(before)]

SegmentAt(segments, instant) ==
    LET at == {i \in DOMAIN segments :
                segments[i].start <= instant /\ instant <= segments[i].end}
    IN  segments[IF at = {} THEN 1 ELSE Min(at)]

\* The gaps longer than the check allows.
LongGaps(segments, metrics, params) ==
    {g \in metrics.gaps : Span(g) > params.maxSilence}

JudgeDeadAir(segments, metrics, params) ==
    LET gaps == LongGaps(segments, metrics, params) IN
    IF gaps = {} THEN Verdict("PASS", "BEHAVIOURAL_STANDARDS_MET", <<>>)
    ELSE Verdict("FAIL", "EXCESSIVE_DEAD_AIR",
            SetToSeq({Cites(SegmentBefore(segments, g.start), g.start,
                            "CONTRADICTING") : g \in gaps}))

\* The agent's interruptions that last.
Offences(segments, metrics, params) ==
    {x \in metrics.interruptions :
        /\ x.by \in {s.label : s \in {t \in ToSet(segments) : t.role = "AGENT"}}
        /\ x.overlap >= params.overlapTolerance}

JudgeInterruptions(segments, metrics, params) ==
    LET offences == Offences(segments, metrics, params) IN
    IF Cardinality(offences) <= params.maxInterruptions
    THEN Verdict("PASS", "INTERRUPTIONS_WITHIN_THRESHOLD", <<>>)
    ELSE Verdict("FAIL", "EXCESSIVE_INTERRUPTIONS",
            SetToSeq({Cites(SegmentAt(segments, x.start), x.start,
                            "CONTRADICTING") : x \in offences}))

Banded(within, segments, met, missed) ==
    Verdict(IF within THEN "PASS" ELSE "FAIL", IF within THEN met ELSE missed,
            <<Cites(segments[1], segments[1].start,
                    IF within THEN "SUPPORTING" ELSE "CONTRADICTING")>>)

JudgeTalkRatio(segments, metrics, params) ==
    IF metrics.total = 0 THEN Verdict("NOT_EVALUABLE", "NO_MEASURABLE_SPEECH", <<>>)
    ELSE Banded(/\ params.minRatio * metrics.total <= 100 * metrics.agent
                /\ 100 * metrics.agent <= params.maxRatio * metrics.total,
                segments, "TALK_RATIO_WITHIN_BAND", "TALK_RATIO_OUT_OF_BAND")

\* Rates are words per minute; an utterance without length has no words.
AgentWords(segments) ==
    FoldLeft(LAMBDA sum, s : sum + Len(s.text), 0,
             Filtered(Spoken(segments), LAMBDA s : s.role = "AGENT"))

JudgeSpeechRate(segments, metrics, params) ==
    IF metrics.agent = 0 THEN Verdict("NOT_EVALUABLE", "NO_AGENT_SPEECH", <<>>)
    ELSE Banded(/\ params.minRate * metrics.agent <= 60000 * AgentWords(segments)
                /\ 60000 * AgentWords(segments) <= params.maxRate * metrics.agent,
                segments, "SPEECH_RATE_WITHIN_BAND", "SPEECH_RATE_OUT_OF_BAND")

Marked(segment, role, words) ==
    segment.role = role /\ words \cap ToSet(segment.text) # {}

Acknowledged(objection, segments, params) ==
    \E s \in ToSet(segments) :
        /\ Marked(s, "AGENT", params.acknowledgements)
        /\ objection.end <= s.start
        /\ s.start <= objection.end + params.responseWindow

JudgeObjections(segments, params) ==
    LET objections == Filtered(segments,
                        LAMBDA s : Marked(s, "CUSTOMER", params.objections))
        unhandled == Filtered(objections,
                        LAMBDA o : ~Acknowledged(o, segments, params))
    IN  IF params.objections = {}
        THEN Verdict("UNSUPPORTED", "NO_OBJECTION_MARKERS_CONFIGURED", <<>>)
        ELSE IF objections = <<>> THEN Verdict("PASS", "NO_OBJECTIONS_RAISED", <<>>)
        ELSE IF unhandled = <<>>
        THEN Verdict("PASS", "ALL_OBJECTIONS_ACKNOWLEDGED", <<>>)
        ELSE Verdict("FAIL", "UNHANDLED_OBJECTION",
                [i \in DOMAIN unhandled |->
                    Cites(unhandled[i], unhandled[i].start, "CONTRADICTING")])

\* BehaviorEvaluator.evaluate
EvaluateConduct(check, call, duration) ==
    LET segments == Sorted(call, Earlier)
        metric   == ResolveMetric(check)
        metrics  == Analyze(segments, duration, RolesOf(call))
        params   == check.params
    IN  IF call = <<>>
        THEN Verdict("NOT_EVALUABLE", "NO_TRANSCRIPT_SEGMENTS", <<>>)
        ELSE CASE metric = "DEAD_AIR" -> JudgeDeadAir(segments, metrics, params)
               [] metric = "INTERRUPTIONS" ->
                    JudgeInterruptions(segments, metrics, params)
               [] metric = "TALK_RATIO" -> JudgeTalkRatio(segments, metrics, params)
               [] metric = "OBJECTION_HANDLING" -> JudgeObjections(segments, params)
               [] metric = "SPEECH_RATE" -> JudgeSpeechRate(segments, metrics, params)
               [] OTHER -> Verdict("UNSUPPORTED", "UNSUPPORTED_BEHAVIOUR_METRIC", <<>>)

=============================================================================
