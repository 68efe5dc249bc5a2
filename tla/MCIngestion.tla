----------------------------- MODULE MCIngestion -----------------------------
(* Instances of Ingestion for TLC. *)
EXTENDS Ingestion, TLC

CONSTANTS r1, r2, r3, d1, d2, h1, h2

\* r2 has other audio for the call of r1, r3 has the audio of r1 for another
\* call.
MCDiallerOf == r1 :> d1 @@ r2 :> d1 @@ r3 :> d2
MCHashOf    == r1 :> h1 @@ r2 :> h2 @@ r3 :> h1

=============================================================================
