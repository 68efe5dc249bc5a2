--------------------------- MODULE MCTranscription ---------------------------
(* Instances of Transcription for TLC. *)
EXTENDS Transcription, TLC

Between(s, e) == [start |-> s, end |-> e]

\* Nested, touching, apart, inverted, within the tolerance and beyond it.
MCInterval == {Between(0, 1), Between(0, 3), Between(1, 2), Between(1, 4),
               Between(3, 4), Between(3, 5), Between(3, 6), Between(1, 1)}

MCTurn == {[start |-> t[1].start, end |-> t[1].end, label |-> t[2]] :
             t \in {Between(0, 1), Between(0, 3), Between(1, 3)}
                      \X {"SPEAKER_00", "SPEAKER_01"}}

=============================================================================
