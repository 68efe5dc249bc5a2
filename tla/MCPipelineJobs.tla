--------------------------- MODULE MCPipelineJobs ---------------------------
(* Instances of PipelineJobs for TLC. *)
EXTENDS PipelineJobs, TLC

CONSTANTS w1, w2, r1, r2, k1, t1, t2, e1, e2, q1, q2, s1

\* Every container runs its worker as the same pid.
SameId == [w \in Worker |-> "worker-1"]

\* One recording with two transcription jobs (a processor upgrade).
OneRecTKey == r1 :> k1
OneRecJobs == t1 :> r1 @@ t2 :> r1
OneRecEval == r1 :> e1
OneRecRerun == r1 :> q1

\* Two recordings of the same audio, hence with the same transcription key.
TwoRecTKey == r1 :> k1 @@ r2 :> k1
TwoRecJobs == t1 :> r1 @@ t2 :> r2
TwoRecEval == r1 :> e1 @@ r2 :> e2
TwoRecRerun == r1 :> q1 @@ r2 :> q2

OneJob == t1 :> r1

\* Bound: a behaviour has pipeline jobs or the smoke job, whose rows and
\* messages have nothing in common.  The long clock and the faults are there
\* for recovery, which loads nothing but smoke rows (LeaseNeverVisible).
OneKind ==
    \/ \A j \in Leased : job[j].status = "ABSENT"
    \/ /\ \A s \in SJob : job[s].status = "ABSENT"
       /\ now <= 2 /\ faults = 0

Symmetry == Permutations(Worker)

=============================================================================
