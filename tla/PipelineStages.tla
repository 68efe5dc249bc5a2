--------------------------- MODULE PipelineStages ---------------------------
(***************************************************************************)
(* What the job engine promises: a recording's transcript is stored        *)
(* together with the scheduling of its evaluation, and a scheduled         *)
(* evaluation is decided at most once.                                     *)
(***************************************************************************)
EXTENDS Naturals

CONSTANTS Recording, TKey, EJob, TKeyOf, EJobOf

VARIABLES
    stored,      \* transcription keys with a transcript
    scheduled,   \* evaluation jobs that exist
    decisions    \* decisions[e]: decisions committed by evaluation job e

Init ==
    /\ stored = {}
    /\ scheduled = {}
    /\ decisions = [e \in EJob |-> 0]

Transcribe(r) ==
    /\ stored' = stored \cup {TKeyOf[r]}
    /\ scheduled' = scheduled \cup {EJobOf[r]}
    /\ UNCHANGED decisions

Decide(e) ==
    /\ e \in scheduled
    /\ decisions[e] = 0
    /\ decisions' = [decisions EXCEPT ![e] = 1]
    /\ UNCHANGED <<stored, scheduled>>

Next ==
    \/ \E r \in Recording : Transcribe(r)
    \/ \E e \in EJob : Decide(e)

Spec == Init /\ [][Next]_<<stored, scheduled, decisions>>

=============================================================================
