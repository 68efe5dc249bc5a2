---------------------------- MODULE MCGatePolicy ----------------------------
(* Instances of GatePolicy for TLC. *)
EXTENDS GatePolicy

CONSTANTS consent, planName, deadAir

\* A fail of planName with 64.70 leaves 84.9975, one with 64.60 leaves 84.955.
MCWeight == [c \in Check |->
    CASE c = consent -> 20 [] c = planName -> 17 [] c = deadAir -> 3]

F(outcome, confidence, s) == [outcome |-> outcome, confidence |-> confidence, score |-> s]

\* Full and partial matches, one of several values, a near miss, an exception
\* and a check no evaluator takes.
MCFinding == {
    F("PASS", 95, 10000), F("PASS", 75, 10000),
    F("FAIL", 100, 0), F("FAIL", 65, 6470), F("FAIL", 65, 6460),
    F("AMBIGUOUS", 72, 7200), F("AMBIGUOUS", 90, 0),
    F("NOT_EVALUABLE", None, None), F("UNSUPPORTED", None, None)}

A(verdict, cites, confidence) ==
    [verdict |-> verdict, cites |-> cites, confidence |-> confidence]

MCReply == {
    A("UNAVAILABLE", "nothing", None), A("UNRECOGNISED", "supplied", 95),
    A("SATISFIED", "supplied", 85), A("SATISFIED", "nothing", 120),
    A("SATISFIED", "unknown", 95), A("SATISFIED", "supplied", 84),
    A("NOT_SATISFIED", "supplied", 95), A("NOT_SATISFIED", "supplied", None),
    A("CANNOT_DETERMINE", "nothing", 95)}

=============================================================================
