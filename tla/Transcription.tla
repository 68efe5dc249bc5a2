---------------------------- MODULE Transcription ----------------------------
(***************************************************************************)
(* From the recognised utterances to a transcript that may be evaluated:   *)
(* diarization, validation of what the provider says, speaker roles,       *)
(* behaviour metrics, segments, and the integrity check of the evaluation. *)
(*                                                                         *)
(* Time is counted in energy windows.  One call is followed; its audio and *)
(* words are inputs, chosen where they are first looked at.                *)
(***************************************************************************)
EXTENDS SpeechMetrics, FiniteSets, FiniteSetsExt

CONSTANTS
    Duration,      \* validated_audio_duration_ms of the recording
    Tolerance,     \* duration_tolerance_ms of ProviderOutputValidator
    EmptyLimit,    \* 5000 ms: audio for which no utterance is suspicious
    MaxOverlap,    \* 1000 ms: overlap of a speaker with itself
    Interval,      \* the [start, end] the recogniser may report
    MaxUtterances, \* bound on their number
    Turn,          \* the [start, end, label] the pyannote model may report
    MaxTurns       \* bound on their number

ASSUME DurationAssumption ==
    /\ Duration \in Nat \ {0}
    /\ \A n \in {Tolerance, EmptyLimit, MaxOverlap, MaxUtterances, MaxTurns} :
          n \in Nat

VARIABLES
    pc,            \* what the job does next
    utts,          \* the utterances, with their labels once diarized
    outcome,       \* [provider, diarized] of the diarization
    availability,  \* of the transcript
    roles,         \* roles[label]
    behavior,      \* the metrics, stored with the transcript
    segments       \* the stored segments

vars == <<pc, utts, outcome, availability, roles, behavior, segments>>

Channel0 == "SPEAKER_CH0"
Channel1 == "SPEAKER_CH1"
Unattributed == "SPEAKER_UNKNOWN"

\* The labels there are, in alphabetical order.
LabelOrder == <<"SPEAKER_00", "SPEAKER_01", Channel0, Channel1, Unattributed>>

ASSUME InputAssumption ==
    /\ Interval \subseteq [start : Int, end : Int]
    /\ Turn \subseteq [start : Int, end : Int, label : ToSet(LabelOrder)]

Role == {"AGENT", "CUSTOMER", "UNKNOWN"}

Labels(us) == {us[i].label : i \in DOMAIN us}

Undiarized == [provider |-> "none", diarized |-> FALSE]

Init ==
    /\ pc = "recognise"
    /\ utts = <<>>
    /\ outcome = Undiarized
    /\ availability = "NOT_AVAILABLE"
    /\ roles = <<>>
    /\ behavior = Analyze(<<>>, Duration, <<>>)
    /\ segments = <<>>

---------------------------------------------------------------------------
(* Recognition and diarization *)

\* The recogniser (external) reports what it likes, in any order.
Recognise ==
    /\ pc = "recognise"
    /\ \E n \in 0..MaxUtterances :
          \E ivs \in [1..n -> Interval] :
             utts' = [i \in 1..n |-> [start |-> ivs[i].start, end |-> ivs[i].end,
                                      label |-> ""]]
    /\ pc' = "diarize"
    /\ UNCHANGED <<outcome, availability, roles, behavior, segments>>

\* The loudness of the two channels in a window.
Loudness == {<<0, 0>>, <<2, 0>>, <<0, 2>>, <<1, 1>>}

Energy(sound, channel, from, to) ==
    FoldLeft(LAMBDA sum, w : sum + w[channel], 0, SubSeq(sound, from, to))

\* dominant_channel and the label the stereo diarizer gives: the leading
\* channel must carry 62 % of the energy of the windows the span touches.
DominantLabel(sound, u) ==
    LET from  == Larger(0, u.start) + 1
        to    == Smaller(Duration, Larger(from, u.end + 1))
        left  == Energy(sound, 1, from, to)
        right == Energy(sound, 2, from, to)
        lead  == Larger(left, right)
    IN  IF left + right = 0 \/ 100 * lead < 62 * (left + right)
        THEN Unattributed
        ELSE IF left >= right THEN Channel0 ELSE Channel1

Labelled(us, LabelOf(_)) ==
    [i \in DOMAIN us |-> [us[i] EXCEPT !.label = LabelOf(us[i])]]

NoLabels(us) == Labelled(us, LAMBDA u : Unattributed)

Separated(us) == Cardinality(Labels(us) \ {Unattributed}) >= 2

NotDiarized(us) == [utts |-> NoLabels(us), provider |-> "none", diarized |-> FALSE]

Attempted(us, provider) ==
    [utts |-> us, provider |-> provider, diarized |-> Separated(us)]

ByChannel(us, sound) == Labelled(us, LAMBDA u : DominantLabel(sound, u))

\* StereoChannelDiarizer.diarize, and what it makes of mono or unreadable audio.
Stereo(us) ==
    {NotDiarized(us)} \cup
    {Attempted(ByChannel(us, sound), "stereo-channel") :
        sound \in [1..Duration -> Loudness]}

Overlap(turn, u) == Smaller(turn.end, u.end) - Larger(turn.start, u.start)

\* _best_overlapping_turn: the first of those that overlap most.
BestTurn(turns, u) ==
    LET over == {i \in DOMAIN turns : Overlap(turns[i], u) > 0}
        best == {i \in over : \A j \in over :
                    Overlap(turns[j], u) <= Overlap(turns[i], u)}
    IN  IF over = {} THEN Unattributed ELSE turns[Min(best)].label

ByTurn(us, turns) == Labelled(us, LAMBDA u : BestTurn(turns, u))

\* PyannoteDiarizer.diarize: not installed, or any turns.
Pyannote(us) ==
    {NotDiarized(us)} \cup
    {Attempted(ByTurn(us, turns), "pyannote") :
        turns \in UNION {[1..n -> Turn] : n \in 0..MaxTurns}}

Diarized(result) ==
    /\ utts' = result.utts
    /\ outcome' = [provider |-> result.provider, diarized |-> result.diarized]
    /\ pc' = "validate"
    /\ UNCHANGED <<availability, roles, behavior, segments>>

\* build_diarizer("channel") and build_diarizer("pyannote").
DiarizeAlone ==
    /\ pc = "diarize"
    /\ \E result \in Stereo(utts) \cup Pyannote(utts) : Diarized(result)

\* CompositeDiarizer.diarize with ("auto") stereo and pyannote: the first that
\* separates speakers, otherwise the last that did not raise.
DiarizeComposite ==
    /\ pc = "diarize"
    /\ \E first \in Stereo(utts) :
          IF first.diarized THEN Diarized(first)
          ELSE Diarized(first) \/ \E second \in Pyannote(utts) : Diarized(second)

\* The model behind pyannote raises and nothing else is configured.
DiarizerRaises ==
    /\ pc = "diarize"
    /\ pc' = "failed"
    /\ UNCHANGED <<utts, outcome, availability, roles, behavior, segments>>

---------------------------------------------------------------------------
(* Validation of the provider's output *)

Malformed(u) ==
    \/ u.start < 0
    \/ u.end <= u.start
    \/ u.end > Duration + Tolerance

\* Coverage below one half, or nothing recognised in a long recording.
Partial(us) ==
    IF us = <<>> THEN Duration > EmptyLimit ELSE 2 * LastEnd(us) < Duration

\* ProviderOutputValidator.validate; an error fails the job.
Validate ==
    /\ pc = "validate"
    /\ IF \E i \in DOMAIN utts : Malformed(utts[i])
       THEN pc' = "failed" /\ UNCHANGED availability
       ELSE /\ pc' = "roles"
            /\ availability' = IF Partial(utts) THEN "PARTIAL" ELSE "AVAILABLE"
    /\ UNCHANGED <<utts, outcome, roles, behavior, segments>>

---------------------------------------------------------------------------
(* Roles *)

Rank(label) == CHOOSE i \in DOMAIN LabelOrder : LabelOrder[i] = label

By(us, label) == Filtered(us, LAMBDA u : u.label = label)

FirstSpoken(us, label) == Min({u.start : u \in ToSet(By(us, label))})

\* Overlapping utterances count twice here, unlike in the metrics.
SpeechOf(us, label) ==
    FoldLeft(AddSpan, 0, By(us, label))

SpeaksFirst(us, label) ==
    \A other \in Labels(us) \ {label} :
        \/ FirstSpoken(us, label) < FirstSpoken(us, other)
        \/ /\ FirstSpoken(us, label) = FirstSpoken(us, other)
           /\ Rank(label) < Rank(other)

\* What the phrases found in a speaker's words add up to, in hundredths: none,
\* an agent's phrase, a customer's.
Cues == {0, 22, -18}

Everything(us) == FoldLeft(AddSpan, 0, us)

\* _agent_affinity in hundredths, times the total speech.
Affinity(us, label, cues) ==
    (cues + IF SpeaksFirst(us, label) THEN 30 ELSE 0) * Everything(us)
        + 25 * SpeechOf(us, label)

\* max by (score, label)
MostAgentLike(us, label, cues) ==
    \A other \in Labels(us) \ {label} :
        LET mine   == Affinity(us, label, cues[label])
            theirs == Affinity(us, other, cues[other])
        IN  \/ mine > theirs
            \/ mine = theirs /\ Rank(label) > Rank(other)

\* HeuristicSpeakerRoleResolver.resolve: one label is the agent or unknown, of
\* several one is the agent and the others are customers, the label of
\* unattributed utterances like any other.
Mapping(us, cues) ==
    [label \in Labels(us) |->
        IF Cardinality(Labels(us)) = 1
        THEN IF Affinity(us, label, cues[label]) >= 55 * Everything(us)
             THEN "AGENT" ELSE "UNKNOWN"
        ELSE IF MostAgentLike(us, label, cues) THEN "AGENT" ELSE "CUSTOMER"]

ResolveRoles ==
    /\ pc = "roles"
    /\ \E cues \in [Labels(utts) -> Cues] : roles' = Mapping(utts, cues)
    /\ pc' = "store"
    /\ UNCHANGED <<utts, outcome, availability, behavior, segments>>

---------------------------------------------------------------------------
(* The stored transcript and its integrity *)

EarlierUtterance(u, v) ==
    \/ Earlier(u, v)
    \/ u.start = v.start /\ u.end = v.end /\ Rank(u.label) < Rank(v.label)

SegmentOf(u) == [label |-> u.label, role |-> RoleOf(roles, u.label),
                 start |-> u.start, end |-> u.end]

\* The rest of execute_transcription_job: metrics and segments.
Store ==
    /\ pc = "store"
    /\ behavior' = Analyze(utts, Duration, roles)
    /\ LET sorted == Sorted(utts, EarlierUtterance) IN
       segments' = [i \in DOMAIN sorted |-> SegmentOf(sorted[i])]
    /\ pc' = "stored"
    /\ UNCHANGED <<utts, outcome, availability, roles>>

\* The segments of the same speaker before the i-th.
SameSpeakerBefore(i) ==
    {k \in 1..(i - 1) : segments[k].label = segments[i].label}

\* Mutant: speech of the customer is not asked for.
ReasonsOneParty ==
    IF availability = "AVAILABLE"
          /\ \E i \in DOMAIN segments : segments[i].role = "AGENT"
    THEN {} ELSE {"NO_AGENT_SPEECH_DETECTED"}

Active(role) == Filtered(Spoken(segments), LAMBDA s : s.role = role)

\* TranscriptIntegrityValidator.validate
Reasons ==
    LET Some(Bad(_)) == \E i \in DOMAIN segments : Bad(i)
        Holds == [
            TRANSCRIPT_NOT_AVAILABLE |-> availability # "AVAILABLE",
            EMPTY_TRANSCRIPT_SEGMENTS |-> segments = <<>>,
            NEGATIVE_START_TIME |-> Some(LAMBDA i : segments[i].start < 0),
            INVERTED_TIMESTAMPS |->
                Some(LAMBDA i : segments[i].end <= segments[i].start),
            TIMESTAMP_EXCEEDS_DURATION |->
                Some(LAMBDA i : segments[i].end > Duration),
            EXCESSIVE_SAME_SPEAKER_OVERLAP |->
                Some(LAMBDA i : \E k \in SameSpeakerBefore(i) :
                        segments[k].end - segments[i].start > MaxOverlap),
            NO_CUSTOMER_SPEECH_DETECTED |-> TotalDuration(Active("CUSTOMER")) = 0,
            NO_AGENT_SPEECH_DETECTED |-> TotalDuration(Active("AGENT")) = 0]
    IN  {reason \in DOMAIN Holds : Holds[reason]}

\* execute_evaluation: a transcript without integrity is not scored.
CheckIntegrity ==
    /\ pc = "stored"
    /\ pc' = IF Reasons = {} THEN "scored" ELSE "held"
    /\ UNCHANGED <<utts, outcome, availability, roles, behavior, segments>>

---------------------------------------------------------------------------

Next ==
    \/ Recognise
    \/ DiarizeAlone
    \/ DiarizeComposite
    \/ DiarizerRaises
    \/ Validate
    \/ ResolveRoles
    \/ Store
    \/ CheckIntegrity

Spec == Init /\ [][Next]_vars

---------------------------------------------------------------------------
(* Properties *)

HasTranscript == pc \in {"stored", "held", "scored"}

\* Types; the mapping covers every label of the utterances.
TypeOK ==
    /\ pc \in {"recognise", "diarize", "validate", "roles", "store", "stored",
               "held", "scored", "failed"}
    /\ \A i \in DOMAIN utts : utts[i].label \in ToSet(LabelOrder) \cup {""}
    /\ outcome.diarized \in BOOLEAN
    /\ availability \in {"NOT_AVAILABLE", "PARTIAL", "AVAILABLE"}
    /\ pc \in {"store", "stored", "held", "scored"}
         => roles \in [Labels(utts) -> Role]
    /\ HasTranscript => Len(segments) = Len(utts)

Instants(us) ==
    {t \in 0..(Duration + Tolerance) : \E u \in us : u.start <= t /\ t < u.end}

SaidBy(role) == {s \in ToSet(segments) : s.role = role}

\* However utterances overlap, touch or contain each other, the stored talk
\* times count every moment of speech once: they are the sizes of the sets of
\* moments in which the party, or anybody, speaks.
TalkTimeCountsMoments ==
    HasTranscript =>
        /\ behavior.agent = Cardinality(Instants(SaidBy("AGENT")))
        /\ behavior.customer = Cardinality(Instants(SaidBy("CUSTOMER")))
        /\ behavior.total = Cardinality(Instants(ToSet(segments)))

\* The dead air that is stored is exactly the silence between speech that
\* lasts for the threshold: no gap is missed, invented, cut or counted twice.
DeadAirIsTheSilence ==
    HasTranscript =>
        LET spoken == Instants(ToSet(segments)) IN
        behavior.gaps =
            {g \in [start : 1..(Duration + Tolerance), end : spoken] :
                /\ Span(g) >= DeadAirThreshold
                /\ g.start - 1 \in spoken
                /\ \A t \in g.start..(g.end - 1) : t \notin spoken}

\* Ending the inner loop early loses no interruption: every two utterances of
\* different speakers, the second starting within the first, are weighed.
InterruptionsComplete ==
    HasTranscript =>
        {[by |-> x.by, start |-> x.start, overlap |-> x.overlap] :
            x \in behavior.interruptions} =
        {[by |-> p[2].label, start |-> p[2].start,
          overlap |-> Smaller(p[1].end, p[2].end) - p[2].start] :
            p \in {p \in ToSet(segments) \X ToSet(segments) :
                    /\ p[1].label # p[2].label
                    /\ p[1].start < p[2].start
                    /\ Smaller(p[1].end, p[2].end) - p[2].start
                         >= InterruptionMin}}

\* The metrics of a stored transcript are those of the speech in it.
MetricsMeasureSpeech ==
    TalkTimeCountsMoments /\ DeadAirIsTheSilence /\ InterruptionsComplete

\* Of several labels exactly one is the agent's and none is left unknown, the
\* label of unattributed speech included.
OneAgent ==
    HasTranscript /\ Cardinality(Labels(utts)) > 1 =>
        \E agent \in Labels(utts) :
            \A label \in Labels(utts) :
                roles[label] = IF label = agent THEN "AGENT" ELSE "CUSTOMER"

\* A call in which diarization found one party, or none, is held: the speech of
\* one label never passes for both sides.  All that is scored without separate
\* speakers is one speaker next to speech that was attributed to nobody.
SinglePartyHeld ==
    pc = "scored" =>
        /\ Cardinality(Labels(utts)) > 1
        /\ ~outcome.diarized => /\ Unattributed \in Labels(utts)
                                /\ Cardinality(Labels(utts)) = 2

\* Between the two validators nothing malformed gets through, and what passes
\* the first can fail the second on timestamps only within the tolerance the
\* first one grants past the end of the audio.
ValidatorsAgree ==
    HasTranscript =>
        /\ Reasons \cap {"NEGATIVE_START_TIME", "INVERTED_TIMESTAMPS"} = {}
        /\ "TIMESTAMP_EXCEEDS_DURATION" \in Reasons =>
              \A i \in DOMAIN segments : segments[i].end <= Duration + Tolerance

\* What diarization, roles and validation let through together can be scored.
TranscriptsFitForScoring ==
    TypeOK /\ OneAgent /\ SinglePartyHeld /\ ValidatorsAgree

=============================================================================
