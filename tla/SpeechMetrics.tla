---------------------------- MODULE SpeechMetrics ----------------------------
(***************************************************************************)
(* Speech intervals and the objective metrics taken from them              *)
(* (packages/domain/speech_metrics.py).  Words and percentages are left    *)
(* out: what is kept are talk times, gaps, overlaps and coverage.          *)
(***************************************************************************)
EXTENDS Integers, Sequences, SequencesExt, Sorting

CONSTANTS
    DeadAirThreshold,   \* dead_air_threshold_ms
    InterruptionMin,    \* interruption_min_duration_ms
    CoverageTolerance   \* coverage_tolerance_ms

ASSUME MetricsAssumption ==
    /\ DeadAirThreshold \in Nat \ {0}
    /\ InterruptionMin \in Nat \ {0}
    /\ CoverageTolerance \in Nat

Larger(a, b)  == IF a > b THEN a ELSE b
Smaller(a, b) == IF a < b THEN a ELSE b

Span(u) == u.end - u.start

\* By start, then end; what breaks the ties that are left changes no metric.
Earlier(u, v) ==
    \/ u.start < v.start
    \/ u.start = v.start /\ u.end < v.end

\* Mutant: the end of the last interval is replaced, not extended.
ExtendToCurrent(merged, iv) ==
    IF iv.start <= Last(merged).end
    THEN [merged EXCEPT ![Len(merged)].end = iv.end]
    ELSE Append(merged, [start |-> iv.start, end |-> iv.end])

Extend(merged, iv) ==
    IF iv.start <= Last(merged).end
    THEN [merged EXCEPT ![Len(merged)].end = Larger(@, iv.end)]
    ELSE Append(merged, [start |-> iv.start, end |-> iv.end])

\* union_intervals
UnionIntervals(ivs) ==
    IF ivs = <<>> THEN <<>>
    ELSE LET sorted == Sorted(ivs, Earlier)
             first  == [start |-> Head(sorted).start, end |-> Head(sorted).end]
         IN  FoldLeft(Extend, <<first>>, Tail(sorted))

AddSpan(sum, iv) == sum + Span(iv)

\* total_duration_ms
TotalDuration(ivs) == FoldLeft(AddSpan, 0, UnionIntervals(ivs))

Spoken(utts) == Filtered(utts, LAMBDA u : u.end > u.start)

\* A label without an assignment is UNKNOWN.
RoleOf(roles, label) ==
    IF label \in DOMAIN roles THEN roles[label] ELSE "UNKNOWN"

SpokenBy(utts, roles, role) ==
    Filtered(Spoken(utts), LAMBDA u : RoleOf(roles, u.label) = role)

\* Gaps between merged speech.
DeadAir(utts) ==
    LET merged == UnionIntervals(Spoken(utts)) IN
    {g \in {[start |-> merged[i].end, end |-> merged[i + 1].start] :
                i \in 1..(Len(merged) - 1)} : Span(g) >= DeadAirThreshold}

\* Pairs of positions in the sorted utterances, as the two loops visit them:
\* the inner loop ends at the first utterance that starts after the outer one.
Visited(sorted, i) ==
    {j \in (i + 1)..Len(sorted) :
        \A k \in (i + 1)..j : sorted[k].start < sorted[i].end}

\* How long v, which starts within u, is spoken at the same time.
Shared(u, v) == Smaller(u.end, v.end) - v.start

Interrupts(u, v) ==
    /\ u.label # v.label
    /\ v.start > u.start
    /\ Shared(u, v) >= InterruptionMin

\* One for each pair of utterances.
Interruptions(utts) ==
    LET sorted == Sorted(utts, Earlier)
        pairs  == {p \in (DOMAIN sorted) \X (DOMAIN sorted) :
                    /\ p[2] \in Visited(sorted, p[1])
                    /\ Interrupts(sorted[p[1]], sorted[p[2]])}
    IN  {[pair |-> p, by |-> sorted[p[2]].label, start |-> sorted[p[2]].start,
          overlap |-> Shared(sorted[p[1]], sorted[p[2]])] : p \in pairs}

LastEnd(utts) ==
    FoldLeft(LAMBDA max, u : Larger(max, u.end), Head(utts).end, utts)

\* SpeechBehaviorAnalyzer.analyze, roles[label] being the role mapping.
Analyze(utts, duration, roles) ==
    IF utts = <<>>
    THEN [coverageEnd |-> 0, leading |-> duration, trailing |-> duration,
          uncovered |-> duration > CoverageTolerance,
          agent |-> 0, customer |-> 0, total |-> 0,
          gaps |-> {}, interruptions |-> {}]
    ELSE LET leading  == Larger(0, Sorted(utts, Earlier)[1].start)
             trailing == Larger(0, duration - LastEnd(utts))
         IN  [coverageEnd |-> LastEnd(utts), leading |-> leading,
              trailing |-> trailing,
              uncovered |-> leading > CoverageTolerance
                              \/ trailing > CoverageTolerance,
              agent    |-> TotalDuration(SpokenBy(utts, roles, "AGENT")),
              customer |-> TotalDuration(SpokenBy(utts, roles, "CUSTOMER")),
              total    |-> TotalDuration(Spoken(utts)),
              gaps     |-> DeadAir(utts),
              interruptions |-> Interruptions(utts)]

=============================================================================
