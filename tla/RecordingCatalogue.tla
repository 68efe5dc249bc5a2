-------------------------- MODULE RecordingCatalogue --------------------------
(***************************************************************************)
(* What ingestion promises: a call is catalogued once, in one step, with   *)
(* the artifact of its audio and a transcription job for it.               *)
(***************************************************************************)
CONSTANTS Dialler, Hash, None

VARIABLES
    audio,      \* audio[d]: hash of the recording of dialler call d, or None
    artifacts,  \* hashes with an artifact
    jobs        \* hashes with a transcription job

Init ==
    /\ audio = [d \in Dialler |-> None]
    /\ artifacts = {}
    /\ jobs = {}

Catalogue(d, h) ==
    /\ audio[d] = None
    /\ audio' = [audio EXCEPT ![d] = h]
    /\ artifacts' = artifacts \cup {h}
    /\ jobs' = jobs \cup {h}

Next == \E d \in Dialler, h \in Hash : Catalogue(d, h)

Spec == Init /\ [][Next]_<<audio, artifacts, jobs>>

===============================================================================
