------------------------ MODULE PipelineJobs_proofs ------------------------
(* Theorems about PipelineJobs, for every set of workers, jobs and          *)
(* recordings and every value of the bounds.                               *)
EXTENDS PipelineJobs, TLAPS

USE DEF NULL

LEMMA JobSets ==
    /\ Leased \subseteq Job /\ TJob \subseteq Leased
    /\ EJob \subseteq Leased /\ SJob \subseteq Job
    /\ None \notin Job
    /\ \A r \in Recording : EJobOf[r] \in EJob /\ RJobOf[r] \in RJob /\ TKeyOf[r] \in TKey
    /\ \A j \in TJob : RecOf[j] \in Recording
    /\ RJob \subseteq Leased
  BY JobSetsAssumption, LineageAssumption DEF Job, Leased

LEMMA RowTypes ==
    /\ Absent \in Row
    /\ NewRow \in Row
    /\ NoInsert \in [tx : BOOLEAN, ev : BOOLEAN, available : BOOLEAN]
  BY DEF Absent, NewRow, Row, Status, NoInsert

\* A row with new values in some of its columns is a row.
LEMMA RowUpdate ==
    ASSUME NEW r \in Row, NEW st \in Status, NEW l \in Nat, NEW n \in Nat,
           NEW o \in {WorkerId[v] : v \in Worker}
    PROVE  /\ [r EXCEPT !.status = st, !.owner = o, !.lease = l, !.gen = n] \in Row
           /\ [r EXCEPT !.status = st, !.lease = l] \in Row
           /\ [r EXCEPT !.retry = n, !.status = st, !.lease = l] \in Row
<1> DEFINE Owner == {WorkerId[v] : v \in Worker} \cup {None}
<1>1. Row = [status : Status, owner : Owner, lease : Nat, gen : Nat, retry : Nat]
  BY DEF Row
<1>2. o \in Owner
  OBVIOUS
<1> HIDE DEF Owner
<1> QED
  BY <1>1, <1>2

LEMMA RowUpdates ==
    ASSUME NEW r \in Row, NEW w \in Worker, NEW l \in Nat
    PROVE  /\ [r EXCEPT !.status = "RUNNING", !.owner = WorkerId[w],
                        !.lease = l, !.gen = @ + 1] \in Row
           /\ [r EXCEPT !.status = "RUNNING", !.owner = WorkerId[w],
                        !.lease = l, !.gen = 1] \in Row
           /\ [r EXCEPT !.status = "COMPLETED", !.lease = 0] \in Row
           /\ [r EXCEPT !.retry = @ + 1, !.status = "QUEUED", !.lease = 0] \in Row
           /\ [r EXCEPT !.status = "DEAD_LETTER", !.lease = 0] \in Row
<1>1. "RUNNING" \in Status /\ "COMPLETED" \in Status /\ "QUEUED" \in Status
      /\ "DEAD_LETTER" \in Status
  BY DEF Status
<1>2. r.gen + 1 \in Nat /\ r.retry + 1 \in Nat /\ 0 \in Nat /\ 1 \in Nat
  BY DEF Row
<1>3. WorkerId[w] \in {WorkerId[v] : v \in Worker}
  OBVIOUS
<1>4. [r EXCEPT !.status = "RUNNING", !.owner = WorkerId[w], !.lease = l,
          !.gen = r.gen + 1] \in Row
  BY <1>1, <1>2, <1>3, RowUpdate
<1>5. [r EXCEPT !.status = "RUNNING", !.owner = WorkerId[w], !.lease = l,
          !.gen = 1] \in Row
  BY <1>1, <1>2, <1>3, RowUpdate
<1>6. [r EXCEPT !.status = "COMPLETED", !.lease = 0] \in Row
  BY <1>1, <1>2, <1>3, RowUpdate
<1>7. [r EXCEPT !.retry = r.retry + 1, !.status = "QUEUED", !.lease = 0] \in Row
  BY <1>1, <1>2, <1>3, RowUpdate
<1>8. [r EXCEPT !.status = "DEAD_LETTER", !.lease = 0] \in Row
  BY <1>1, <1>2, <1>3, RowUpdate
<1> QED
  BY <1>4, <1>5, <1>6, <1>7, <1>8

LEMMA FlushType ==
    ASSUME NEW a \in Row, NEW b \in Row, NEW c \in Row
    PROVE  Flush(a, b, c) \in Row
  BY DEF Flush, Dirty, Row

LEMMA KeyTypes ==
    /\ QueueKey(SmokeName) \in Keys
    /\ QueueKey(TranscribeName) \in Keys
    /\ QueueKey(EvaluateName) \in Keys
  BY DEF Keys

LEMMA PushType ==
    ASSUME TypeOK, NEW k \in Keys, NEW id \in MsgId, Push(k, id)
    PROVE  queue' \in [Keys -> Seq(MsgId)]
  BY DEF TypeOK, Push

\* What Reset leaves is well typed.
LEMMA ResetType ==
    ASSUME TypeOK, NEW w \in Worker, Reset(w)
    PROVE  /\ pc' \in [Worker -> WorkerState]
           /\ wjob' \in [Worker -> MsgId \cup {None}]
           /\ issued' \in [Worker -> Nat]
           /\ txn' \in [Worker -> Row]
           /\ gen' \in [Worker -> Nat]
           /\ staged' \in [Worker -> [tx : BOOLEAN, ev : BOOLEAN, available : BOOLEAN]]
           /\ stale' \in [Worker -> SUBSET [id : Job, row : Row]]
  BY RowTypes DEF TypeOK, Reset, WorkerState

---------------------------------------------------------------------------

\* Which job a worker may hold at each point of its handler.
Control ==
    \A w \in Worker :
        /\ pc[w] = "claiming" => wjob[w] \in Leased \cup {Phantom}
        /\ InTxn(w) => wjob[w] \in Leased
        /\ pc[w] = "ready" => wjob[w] \in TJob \cup EJob
        /\ pc[w] \in {"transcribing", "dispatch"} => wjob[w] \in TJob
        /\ pc[w] \in {"smoke_load", "smoke_lease", "smoke_run"} => wjob[w] \in SJob

LEMMA TypeInit == Init => TypeOK
  BY RowTypes DEF Init, TypeOK, WorkerState, NoTranscript, MsgId

LEMMA TypeStep ==
    ASSUME TypeOK, Control, [Next]_vars
    PROVE  TypeOK'
<1> USE JobSets
<1>1. CASE Tick
  BY <1>1, BoundsAssumption DEF Tick, TypeOK, dbVars, netVars, wkVars
<1>2. ASSUME NEW j \in TJob, Ingest(j) PROVE TypeOK'
  <2>1. [key |-> QueueKey(TranscribeName), id |-> j] \in Message
    BY KeyTypes DEF Message, MsgId
  <2> QED BY <1>2, <2>1, RowTypes DEF Ingest, TypeOK, wkVars, ctlVars
<1>3. ASSUME NEW j \in SJob, CreateSmoke(j) PROVE TypeOK'
  <2>1. [key |-> QueueKey(SmokeName), id |-> j] \in Message
    BY KeyTypes DEF Message, MsgId
  <2> QED BY <1>3, <2>1, RowTypes DEF CreateSmoke, TypeOK, wkVars, ctlVars
<1>4. ASSUME NEW r \in Recording, RequestRerun(r) PROVE TypeOK'
  <2>1. /\ [key |-> QueueKey(EvaluateName), id |-> RJobOf[r]] \in Message
        /\ [key |-> QueueKey(EvaluateName), id |-> Phantom] \in Message
    BY KeyTypes DEF Message, MsgId
  <2>2. job' \in [Job -> Row]
    BY <1>4, RowTypes DEF RequestRerun, TypeOK
  <2>3. outgoing' \subseteq Message
    BY <1>4, <2>1 DEF RequestRerun, TypeOK
  <2> QED BY <1>4, <2>2, <2>3 DEF RequestRerun, TypeOK, wkVars
<1>5. ASSUME NEW m \in outgoing, Dispatch(m) PROVE TypeOK'
  <2>1. m.key \in Keys /\ m.id \in MsgId
    BY <1>5 DEF TypeOK, Message
  <2> QED BY <1>5, <2>1, PushType DEF Dispatch, TypeOK, dbVars, wkVars, ctlVars
<1>6. ASSUME NEW m \in outgoing, LoseDispatch(m) PROVE TypeOK'
  BY <1>6 DEF LoseDispatch, TypeOK, dbVars, wkVars
<1>7. ASSUME NEW w \in Worker, Pop(w) PROVE TypeOK'
  <2>1. PICK i \in DOMAIN WorkerKeys :
           /\ queue[WorkerKeys[i]] # <<>>
           /\ queue' = [queue EXCEPT ![WorkerKeys[i]] = Tail(@)]
           /\ Start(w, Head(queue[WorkerKeys[i]]))
    BY <1>7 DEF Pop
  <2>2. WorkerKeys[i] \in Keys
    BY DEF Keys
  <2>3. queue[WorkerKeys[i]] \in Seq(MsgId)
    BY <2>2 DEF TypeOK
  <2>4. Head(queue[WorkerKeys[i]]) \in MsgId /\ Tail(queue[WorkerKeys[i]]) \in Seq(MsgId)
    BY <2>1, <2>3
  <2>5. queue' \in [Keys -> Seq(MsgId)]
    BY <2>1, <2>4 DEF TypeOK
  <2> QED BY <1>7, <2>1, <2>4, <2>5
       DEF Pop, Start, TypeOK, WorkerState, dbVars, ctlVars
<1>8. ASSUME NEW w \in Worker, RecoverLoad(w) PROVE TypeOK'
  <2>1. {[id |-> j, row |-> job[j]] : j \in {i \in Job :
            job[i].status = "RUNNING" /\ job[i].lease # NULL /\ job[i].lease < now}}
            \in SUBSET [id : Job, row : Row]
    BY DEF TypeOK
  <2> QED BY <1>8, <2>1
       DEF RecoverLoad, TypeOK, WorkerState, dbVars, netVars, ctlVars
<1>9. ASSUME NEW w \in Worker, Fail(w) PROVE TypeOK'
  BY <1>9, ResetType DEF Fail, TypeOK, dbVars, netVars
<1>10. ASSUME NEW w \in Worker, NEW j \in Called, CallHandler(w, j) PROVE TypeOK'
  BY <1>10, CallsAssumption
     DEF CallHandler, Start, TypeOK, WorkerState, MsgId, Job, dbVars, netVars, ctlVars
<1>11. ASSUME NEW w \in Worker, Claim(w) PROVE TypeOK'
  <2>1. [job[wjob[w]] EXCEPT !.status = "RUNNING", !.owner = WorkerId[w],
           !.lease = issued[w] + LeaseDuration, !.gen = @ + 1] \in Row
    <3>1. job[wjob[w]] \in Row /\ issued[w] + LeaseDuration \in Nat
      BY <1>11, BoundsAssumption DEF Claim, ClaimedRow, Claimable, TypeOK
    <3> QED BY <3>1, RowUpdates
  <2>2. job[wjob[w]].gen + 1 \in Nat
    BY <1>11 DEF Claim, ClaimedRow, Claimable, TypeOK, Row
  <2> QED BY <1>11, <2>1, <2>2
       DEF Claim, ClaimedRow, TypeOK, WorkerState, dbVars, netVars, ctlVars
<1>12. ASSUME NEW w \in Worker, NotClaimable(w) \/ MissingInput(w) \/ LeaseLost(w)
       PROVE TypeOK'
  BY <1>12, ResetType
     DEF NotClaimable, MissingInput, LeaseLost, TypeOK, dbVars, netVars, ctlVars
<1>13. ASSUME NEW w \in Worker, Replay(w) PROVE TypeOK'
  BY <1>13 DEF Replay, NoInsert, TypeOK, WorkerState, dbVars, netVars, ctlVars
<1>14. ASSUME NEW w \in Worker, BeginTranscription(w) \/ Evaluate(w) PROVE TypeOK'
  BY <1>14 DEF BeginTranscription, Evaluate, TypeOK, WorkerState, dbVars, netVars, ctlVars
<1>15. ASSUME NEW w \in Worker, SaveTranscript(w) PROVE TypeOK'
  BY <1>15 DEF SaveTranscript, Inserts, TypeOK, WorkerState, dbVars, netVars, ctlVars
<1>16. ASSUME NEW w \in Worker PROVE Completed(w) \in Row
  <2>1. txn[w] \in Row
    BY DEF TypeOK
  <2> QED BY <2>1, RowUpdates DEF Completed
<1>17. ASSUME NEW w \in Worker, CompleteTranscription(w) PROVE TypeOK'
  <2>1. job' \in [Job -> Row]
    BY <1>17, <1>16, RowTypes DEF CompleteTranscription, TypeOK
  <2>2. transcript' \in [TKey -> [rec : Recording \cup {None}, available : BOOLEAN]]
    BY <1>17 DEF CompleteTranscription, TypeOK
  <2> QED BY <1>17, <2>1, <2>2, RowTypes
       DEF CompleteTranscription, TypeOK, WorkerState, netVars, ctlVars
<1>18. ASSUME NEW w \in Worker, DispatchEvaluation(w) PROVE TypeOK'
  <2>1. EJobOf[RecOf[wjob[w]]] \in MsgId
    BY <1>18 DEF MsgId, Control, DispatchEvaluation
  <2> QED BY <1>18, <2>1, PushType, KeyTypes, ResetType
       DEF DispatchEvaluation, TypeOK, dbVars, ctlVars
<1>19. ASSUME NEW w \in Worker, CompleteEvaluation(w) PROVE TypeOK'
  <2>1. job' \in [Job -> Row] /\ runs' \in [EJob -> Nat]
    BY <1>19, <1>16 DEF CompleteEvaluation, TypeOK
  <2> QED BY <1>19, <2>1, ResetType
       DEF CompleteEvaluation, TypeOK, netVars, ctlVars
<1>20. ASSUME NEW w \in Worker, SmokeLoad(w) PROVE TypeOK'
  <2>1. job[wjob[w]] \in Row
    BY <1>20 DEF SmokeLoad, Control, TypeOK
  <2> QED BY <1>20, <2>1 DEF SmokeLoad, TypeOK, WorkerState, dbVars, netVars, ctlVars
<1>21. ASSUME NEW w \in Worker PROVE SmokeRow(w) \in Row
  <2>1. txn[w] \in Row /\ now + LeaseDuration \in Nat
    BY BoundsAssumption DEF TypeOK
  <2> QED BY <2>1, RowUpdates DEF SmokeRow
<1>22. ASSUME NEW w \in Worker, SmokeLease(w) PROVE TypeOK'
  <2>1. wjob[w] \in Job
    BY <1>22 DEF SmokeLease, Control
  <2>2. Flush(txn[w], SmokeRow(w), job[wjob[w]]) \in Row
    BY <2>1, <1>21, FlushType DEF TypeOK
  <2> QED BY <1>22, <2>1, <2>2, <1>21
       DEF SmokeLease, TypeOK, WorkerState, netVars, ctlVars
<1>23. ASSUME NEW w \in Worker, SmokeFinish(w) PROVE TypeOK'
  <2>1. wjob[w] \in Job
    BY <1>23 DEF SmokeFinish, Control
  <2>2. Flush(txn[w], Completed(w), job[wjob[w]]) \in Row
    BY <2>1, <1>16, FlushType DEF TypeOK
  <2>3. job' \in [Job -> Row]
    BY <1>23, <2>1, <2>2 DEF SmokeFinish, TypeOK
  <2> QED BY <1>23, <2>3, ResetType DEF SmokeFinish, TypeOK, netVars, ctlVars
<1>24. ASSUME NEW w \in Worker, RecoverCommit(w) PROVE TypeOK'
  <2>1. ASSUME NEW s \in stale[w], NEW j \in Job
        PROVE  Flush(s.row, Recovered(s.row), job[j]) \in Row
    <3>1. s.row \in Row /\ job[j] \in Row
      BY DEF TypeOK
    <3>2. Recovered(s.row) \in Row
      BY <3>1, RowUpdates DEF Recovered
    <3> QED BY <3>1, <3>2, FlushType
  <2>2. job' \in [Job -> Row]
    BY <1>24, <2>1 DEF RecoverCommit, TypeOK
  <2> QED BY <1>24, <2>2, ResetType DEF RecoverCommit, TypeOK, netVars, ctlVars
<1>25. CASE UNCHANGED vars
  BY <1>25 DEF vars, TypeOK
<1> QED
  BY <1>1, <1>2, <1>3, <1>4, <1>5, <1>6, <1>7, <1>8, <1>9, <1>10, <1>11, <1>12,
     <1>13, <1>14, <1>15, <1>17, <1>18, <1>19, <1>20, <1>22, <1>23, <1>24, <1>25
     DEF Next, Step

LEMMA ControlInit == Init => Control
  BY DEF Init, Control, InTxn

LEMMA ControlStep ==
    ASSUME TypeOK, Control, [Next]_vars
    PROVE  Control'
<1> USE JobSets
<1>1. CASE UNCHANGED <<pc, wjob>>
  BY <1>1 DEF Control, InTxn
<1>2. ASSUME NEW w \in Worker, Reset(w) PROVE Control'
  BY <1>2 DEF Reset, Control, InTxn, TypeOK
<1>3. ASSUME NEW w \in Worker, NEW j \in MsgId, Start(w, j) PROVE Control'
  BY <1>3 DEF Start, Control, InTxn, TypeOK, MsgId, Job, Leased
<1>4. ASSUME NEW w \in Worker, Pop(w) PROVE Control'
  <2>1. PICK i \in DOMAIN WorkerKeys :
           queue[WorkerKeys[i]] # <<>> /\ Start(w, Head(queue[WorkerKeys[i]]))
    BY <1>4 DEF Pop
  <2>2. queue[WorkerKeys[i]] \in Seq(MsgId)
    BY DEF TypeOK, Keys
  <2> QED BY <2>1, <2>2, <1>3
<1>5. ASSUME NEW w \in Worker, NEW j \in Called, CallHandler(w, j) PROVE Control'
  BY <1>5, <1>3, CallsAssumption DEF CallHandler, MsgId, Job
<1>6. ASSUME NEW w \in Worker, Claim(w) PROVE Control'
  <2>1. wjob[w] \in Leased
    BY <1>6, JobSetsAssumption DEF Claim, Claimable, Control, Job
  <2> QED BY <1>6, <2>1 DEF Claim, Control, InTxn, TypeOK
<1>7. ASSUME NEW w \in Worker,
             Replay(w) \/ BeginTranscription(w) \/ SaveTranscript(w) \/ Evaluate(w)
               \/ CompleteTranscription(w) \/ SmokeLoad(w) \/ SmokeLease(w)
               \/ RecoverLoad(w)
      PROVE  Control'
  BY <1>7 DEF Replay, BeginTranscription, SaveTranscript, Inserts, Evaluate,
     CompleteTranscription, SmokeLoad, SmokeLease, RecoverLoad, Control, InTxn, TypeOK
<1>8. ASSUME NEW w \in Worker,
             NotClaimable(w) \/ MissingInput(w) \/ LeaseLost(w) \/ Fail(w)
               \/ DispatchEvaluation(w) \/ CompleteEvaluation(w)
               \/ SmokeFinish(w) \/ RecoverCommit(w)
      PROVE  Reset(w)
  BY <1>8 DEF NotClaimable, MissingInput, LeaseLost, Fail, DispatchEvaluation,
     CompleteEvaluation, SmokeFinish, RecoverCommit
<1>9. ASSUME Tick \/ (\E j \in TJob : Ingest(j)) \/ (\E j \in SJob : CreateSmoke(j))
               \/ (\E r \in Recording : RequestRerun(r))
               \/ (\E m \in outgoing : Dispatch(m) \/ LoseDispatch(m))
               \/ UNCHANGED vars
      PROVE  UNCHANGED <<pc, wjob>>
  BY <1>9 DEF Tick, Ingest, CreateSmoke, RequestRerun, Dispatch, LoseDispatch, vars, wkVars
<1> QED
  BY <1>1, <1>2, <1>4, <1>5, <1>6, <1>7, <1>8, <1>9 DEF Next, Step

\* Every variable keeps its type, whatever the workers, jobs and bounds.
THEOREM TypeCorrect == Spec => []TypeOK
<1>1. Init => TypeOK /\ Control
  BY TypeInit, ControlInit
<1>2. TypeOK /\ Control /\ [Next]_vars => (TypeOK /\ Control)'
  BY TypeStep, ControlStep
<1> QED
  BY <1>1, <1>2, PTL DEF Spec

---------------------------------------------------------------------------

LEMMA RecOfEvaluation ==
    ASSUME NEW e \in EJob
    PROVE  Rec(e) \in Recording /\ EJobOf[Rec(e)] = e
<1>1. e \notin TJob
  BY JobSetsAssumption
<1>2. \E r \in Recording : EJobOf[r] = e
  BY LineageAssumption
<1> QED
  BY <1>1, <1>2 DEF Rec

\* A step that leaves the rows of pipeline jobs, the transcripts and the runs
\* alone, and that leaves its worker outside any transaction, keeps JobInv.
LEMMA OutsideTransactions ==
    ASSUME TypeOK, JobInv, NEW w \in Worker,
           \A j \in Leased : job'[j] = job[j],
           UNCHANGED <<transcript, runs>>,
           \A v \in Worker \ {w} : /\ pc'[v] = pc[v] /\ wjob'[v] = wjob[v]
                                  /\ txn'[v] = txn[v] /\ staged'[v] = staged[v]
                                  /\ stale'[v] = stale[v],
           pc'[w] \notin {"claimed", "transcribing", "ready"},
           staged'[w] = NoInsert,
           \A s \in stale'[w] : s.id \in SJob,
           Control
    PROVE  JobInv'
<1> USE JobSets
<1>1. RowsLocked'
  BY DEF JobInv, RowsLocked, InTxn
<1>2. ClaimedRows'
  BY DEF JobInv, ClaimedRows, InTxn, Control
<1>3. \A v \in Worker : v # w /\ pc[v] = "ready" /\ wjob[v] \in TJob
        => /\ SavedFor(v)' = SavedFor(v) /\ SavedFor(v) \in Recording
           /\ job'[EJobOf[SavedFor(v)]] = job[EJobOf[SavedFor(v)]]
  BY DEF SavedFor
<1>4. \A v \in Worker : v # w => SavedFor(v)' = SavedFor(v)
  BY DEF SavedFor
<1>5. ~staged'[w].tx /\ ~staged'[w].ev
  BY DEF NoInsert
<1>6. StagedInserts'
  <2>1. ASSUME NEW v \in Worker
        PROVE  (/\ pc[v] # "ready" \/ wjob[v] \in EJob => staged[v] = NoInsert
                /\ pc[v] = "ready" /\ wjob[v] \in TJob =>
                     /\ staged[v].tx = (transcript[TKeyOf[SavedFor(v)]].rec = None)
                     /\ staged[v].ev = (job[EJobOf[SavedFor(v)]].status = "ABSENT"))'
    BY <1>3 DEF JobInv, StagedInserts
  <2>2. ASSUME NEW u \in Worker, NEW v \in Worker, u # v
        PROVE  (/\ staged[u].tx /\ staged[v].tx
                     => TKeyOf[SavedFor(u)] # TKeyOf[SavedFor(v)]
                /\ staged[u].ev /\ staged[v].ev => SavedFor(u) # SavedFor(v))'
    BY <1>4, <1>5, <2>2 DEF JobInv, StagedInserts
  <2> QED BY <2>1, <2>2 DEF StagedInserts
<1>7. TranscriptLineage'
  BY DEF JobInv, TranscriptLineage
<1>8. ReadyEvaluations'
  BY DEF JobInv, ReadyEvaluations, HasTranscript, Rec
<1>9. LeaseNeverVisible'
  BY DEF JobInv, LeaseNeverVisible
<1>10. EvaluationCommittedOnce'
  BY DEF JobInv, EvaluationCommittedOnce
<1>11. HandOffIsAtomic'
  BY DEF JobInv, HandOffIsAtomic
<1>12. DecisionsHaveTranscripts'
  BY DEF JobInv, DecisionsHaveTranscripts, HasTranscript
<1> QED
  BY <1>1, <1>2, <1>6, <1>7, <1>8, <1>9, <1>10, <1>11, <1>12 DEF JobInv

\* So does a step in which no worker moves.
LEMMA NoWorkerMoves ==
    ASSUME TypeOK, JobInv, UNCHANGED <<dbVars, pc, wjob, txn, staged, stale>>
    PROVE  JobInv'
<1> USE DEF dbVars
<1>1. RowsLocked' /\ ClaimedRows'
  BY DEF JobInv, RowsLocked, ClaimedRows, InTxn
<1>2. StagedInserts'
  <2>1. \A v \in Worker : SavedFor(v)' = SavedFor(v)
    BY DEF SavedFor
  <2> QED BY <2>1 DEF JobInv, StagedInserts
<1>3. TranscriptLineage' /\ ReadyEvaluations' /\ DecisionsHaveTranscripts'
  BY DEF JobInv, TranscriptLineage, ReadyEvaluations, DecisionsHaveTranscripts,
     HasTranscript, Rec
<1>4. LeaseNeverVisible' /\ EvaluationCommittedOnce' /\ HandOffIsAtomic'
  BY DEF JobInv, LeaseNeverVisible, EvaluationCommittedOnce, HandOffIsAtomic
<1> QED
  BY <1>1, <1>2, <1>3, <1>4 DEF JobInv

\* So does the insertion of a QUEUED row other than an evaluation job's.
LEMMA InsertRow ==
    ASSUME TypeOK, JobInv, Control, NEW j \in Job, j \notin EJob,
           job[j].status = "ABSENT", job' = [job EXCEPT ![j] = NewRow],
           UNCHANGED <<transcript, runs, pc, wjob, txn, staged, stale>>
    PROVE  JobInv'
<1> USE JobSets
<1>1. \A i \in Job : i # j => job'[i] = job[i]
  BY DEF TypeOK
<1>2. job'[j] = NewRow
  BY DEF TypeOK
<1>3. /\ NewRow.status = "QUEUED" /\ NewRow.lease = 0
      /\ NewRow.retry = 0 /\ NewRow.gen = 0
  BY DEF NewRow, Absent
<1>4. \A e \in EJob : job'[e] = job[e]
  BY <1>1
<1>5. RowsLocked'
  BY DEF JobInv, RowsLocked, InTxn
<1>6. ClaimedRows'
  BY <1>1 DEF JobInv, ClaimedRows, InTxn, Control
<1>7. StagedInserts'
  <2>1. \A v \in Worker : wjob[v] \in TJob =>
            job'[EJobOf[SavedFor(v)]] = job[EJobOf[SavedFor(v)]]
    BY <1>4 DEF SavedFor
  <2>2. \A v \in Worker : SavedFor(v)' = SavedFor(v)
    BY DEF SavedFor
  <2> QED BY <2>1, <2>2 DEF JobInv, StagedInserts
<1>8. TranscriptLineage'
  BY <1>4 DEF JobInv, TranscriptLineage
<1>9. ReadyEvaluations'
  BY DEF JobInv, ReadyEvaluations, HasTranscript, Rec
<1>10. LeaseNeverVisible'
  BY <1>1, <1>2, <1>3 DEF JobInv, LeaseNeverVisible
<1>11. EvaluationCommittedOnce'
  BY <1>4 DEF JobInv, EvaluationCommittedOnce
<1>12. HandOffIsAtomic'
  BY <1>1, <1>2, <1>3, <1>4 DEF JobInv, HandOffIsAtomic
<1>13. DecisionsHaveTranscripts'
  BY DEF JobInv, DecisionsHaveTranscripts, HasTranscript
<1> QED
  BY <1>5, <1>6, <1>7, <1>8, <1>9, <1>10, <1>11, <1>12, <1>13 DEF JobInv

\* A step inside a transaction that changes no table keeps JobInv when it
\* keeps what the invariant says of the worker that takes it.
LEMMA InsideTransaction ==
    ASSUME TypeOK, JobInv, Control, NEW w \in Worker,
           UNCHANGED <<dbVars, wjob, stale>>,
           \A v \in Worker \ {w} : /\ pc'[v] = pc[v] /\ txn'[v] = txn[v]
                                  /\ staged'[v] = staged[v],
           wjob[w] \in Leased,
           \A v \in Worker \ {w} : InTxn(v) => wjob[v] # wjob[w],
           job[wjob[w]].status = "QUEUED",
           txn'[w].gen = 1, txn'[w].retry = 0,
           pc'[w] # "ready" \/ wjob[w] \in EJob => staged'[w] = NoInsert,
           pc'[w] = "ready" /\ wjob[w] \in TJob =>
              /\ staged'[w].tx = (transcript[TKeyOf[SavedFor(w)]].rec = None)
              /\ staged'[w].ev = (job[EJobOf[SavedFor(w)]].status = "ABSENT"),
           \A v \in Worker \ {w} :
              /\ staged[v].tx /\ staged'[w].tx
                   => TKeyOf[SavedFor(v)] # TKeyOf[SavedFor(w)]
              /\ staged[v].ev /\ staged'[w].ev => SavedFor(v) # SavedFor(w),
           pc'[w] = "ready" /\ wjob[w] \in EJob => HasTranscript(Rec(wjob[w]))
    PROVE  JobInv'
<1> USE DEF dbVars
<1>1. RowsLocked'
  BY DEF JobInv, RowsLocked, InTxn
<1>2. ClaimedRows'
  BY DEF JobInv, ClaimedRows, InTxn
<1>3. \A v \in Worker : SavedFor(v)' = SavedFor(v)
  BY DEF SavedFor
<1>4. StagedInserts'
  <2>1. ASSUME NEW v \in Worker
        PROVE  (/\ pc[v] # "ready" \/ wjob[v] \in EJob => staged[v] = NoInsert
                /\ pc[v] = "ready" /\ wjob[v] \in TJob =>
                     /\ staged[v].tx = (transcript[TKeyOf[SavedFor(v)]].rec = None)
                     /\ staged[v].ev = (job[EJobOf[SavedFor(v)]].status = "ABSENT"))'
    BY <1>3 DEF JobInv, StagedInserts
  <2>2. ASSUME NEW u \in Worker, NEW v \in Worker, u # v
        PROVE  (/\ staged[u].tx /\ staged[v].tx
                     => TKeyOf[SavedFor(u)] # TKeyOf[SavedFor(v)]
                /\ staged[u].ev /\ staged[v].ev => SavedFor(u) # SavedFor(v))'
    BY <1>3, <2>2 DEF JobInv, StagedInserts
  <2> QED BY <2>1, <2>2 DEF StagedInserts
<1>5. TranscriptLineage' /\ DecisionsHaveTranscripts'
  BY DEF JobInv, TranscriptLineage, DecisionsHaveTranscripts, HasTranscript, Rec
<1>6. ReadyEvaluations'
  BY DEF JobInv, ReadyEvaluations, HasTranscript, Rec
<1>7. LeaseNeverVisible' /\ EvaluationCommittedOnce' /\ HandOffIsAtomic'
  BY DEF JobInv, LeaseNeverVisible, EvaluationCommittedOnce, HandOffIsAtomic
<1> QED
  BY <1>1, <1>2, <1>4, <1>5, <1>6, <1>7 DEF JobInv

LEMMA ClaimInv ==
    ASSUME TypeOK, JobInv, Control, NEW w \in Worker, Claim(w)
    PROVE  JobInv'
<1> USE JobSets
<1>1. wjob[w] \in Leased
  BY JobSetsAssumption DEF Claim, Claimable, Control, Job
<1>2. job[wjob[w]].status = "QUEUED" /\ job[wjob[w]].gen = 0 /\ job[wjob[w]].retry = 0
  BY <1>1 DEF Claim, Claimable, JobInv, LeaseNeverVisible
<1>3. job[wjob[w]] \in Row
  BY <1>1 DEF TypeOK
<1>4. txn'[w].gen = 1 /\ txn'[w].retry = 0
  BY <1>2, <1>3 DEF Claim, ClaimedRow, TypeOK, Row
<1>5. staged'[w] = NoInsert /\ pc'[w] = "claimed"
  BY DEF Claim, JobInv, StagedInserts, TypeOK
<1>6. \A v \in Worker \ {w} : InTxn(v) => wjob[v] # wjob[w]
  BY DEF Claim, RowFree
<1>7. /\ UNCHANGED <<dbVars, wjob, stale>>
      /\ \A v \in Worker \ {w} : /\ pc'[v] = pc[v] /\ txn'[v] = txn[v]
                              /\ staged'[v] = staged[v]
  BY DEF Claim, TypeOK
<1>8. ~staged'[w].tx /\ ~staged'[w].ev
  BY <1>5 DEF NoInsert
<1> QED
  BY <1>1, <1>2, <1>4, <1>5, <1>6, <1>7, <1>8, InsideTransaction

LEMMA WorkInv ==
    ASSUME TypeOK, JobInv, Control, NEW w \in Worker,
           Replay(w) \/ BeginTranscription(w) \/ SaveTranscript(w) \/ Evaluate(w)
    PROVE  JobInv'
<1> USE JobSets
<1>1. pc[w] \in {"claimed", "transcribing"} /\ InTxn(w)
  BY DEF Replay, BeginTranscription, SaveTranscript, Evaluate, InTxn
<1>2. /\ wjob[w] \in Leased
      /\ job[wjob[w]].status = "QUEUED" /\ txn[w].gen = 1 /\ txn[w].retry = 0
      /\ \A v \in Worker \ {w} : InTxn(v) => wjob[v] # wjob[w]
      /\ staged[w] = NoInsert
  BY <1>1 DEF Control, JobInv, ClaimedRows, RowsLocked, StagedInserts
<1>3. /\ UNCHANGED <<dbVars, wjob, stale, txn>>
      /\ \A v \in Worker \ {w} : pc'[v] = pc[v] /\ staged'[v] = staged[v]
  BY DEF Replay, BeginTranscription, SaveTranscript, Evaluate, TypeOK
<1>4. \A e \in EJob : e \notin TJob
  BY JobSetsAssumption
<1>5. CASE BeginTranscription(w) \/ Evaluate(w)
  <2>1. staged'[w] = NoInsert
    BY <1>5, <1>2 DEF BeginTranscription, Evaluate
  <2>2. pc'[w] = "ready" => wjob[w] \in EJob /\ HasTranscript(Rec(wjob[w]))
    BY <1>5 DEF BeginTranscription, Evaluate, TypeOK
  <2> QED BY <1>2, <1>3, <1>4, <2>1, <2>2, InsideTransaction DEF NoInsert
<1>6. CASE Replay(w)
  <2> DEFINE r == SavedFor(w)
  <2>1. wjob[w] \in TJob /\ r \in Recording /\ HasAvailableTranscript(r)
    BY <1>6 DEF Replay, SavedFor
  <2>2. transcript[TKeyOf[r]].rec = r /\ job[EJobOf[r]].status # "ABSENT"
    BY <2>1 DEF HasAvailableTranscript, JobInv, TranscriptLineage
  <2>3. staged'[w] = NoInsert
    BY <1>6, <2>2 DEF Replay, TypeOK, NoInsert, SavedFor
  <2>4. transcript[TKeyOf[r]].rec # None
    BY <2>1, <2>2, JobSetsAssumption
  <2>5. /\ staged'[w].tx = FALSE /\ staged'[w].ev = FALSE
        /\ ~staged'[w].tx /\ ~staged'[w].ev
    BY <2>3 DEF NoInsert
  <2>6. /\ (transcript[TKeyOf[r]].rec = None) = FALSE
        /\ (job[EJobOf[r]].status = "ABSENT") = FALSE
    BY <2>2, <2>4
  <2>7. /\ staged'[w].tx = (transcript[TKeyOf[r]].rec = None)
        /\ staged'[w].ev = (job[EJobOf[r]].status = "ABSENT")
    BY <2>5, <2>6
  <2> QED BY <1>2, <1>3, <1>4, <2>1, <2>3, <2>5, <2>7, InsideTransaction
<1>7. CASE SaveTranscript(w)
  <2> DEFINE r == SavedFor(w)
  <2>1. wjob[w] \in TJob /\ r \in Recording /\ wjob[w] \notin EJob
    BY <1>7, JobSetsAssumption DEF SaveTranscript, Inserts, Control, SavedFor
  <2>2. pc'[w] = "ready"
    BY <1>7 DEF SaveTranscript, Inserts, TypeOK
  <2>3. PICK a \in BOOLEAN : staged'[w] =
            [tx |-> transcript[TKeyOf[r]].rec = None,
             ev |-> job[EJobOf[r]].status = "ABSENT", available |-> a]
    BY <1>7 DEF SaveTranscript, Inserts, TypeOK, SavedFor
  <2>4. /\ staged'[w].tx = (transcript[TKeyOf[r]].rec = None)
        /\ staged'[w].ev = (job[EJobOf[r]].status = "ABSENT")
    BY <2>3
  <2>5. \A v \in Worker \ {w} :
            /\ staged[v].tx /\ staged'[w].tx => TKeyOf[SavedFor(v)] # TKeyOf[r]
            /\ staged[v].ev /\ staged'[w].ev => SavedFor(v) # r
    BY <1>7, <2>4 DEF SaveTranscript, Inserts, SavedFor
  <2> QED BY <1>2, <1>3, <2>1, <2>2, <2>4, <2>5, InsideTransaction
<1> QED
  BY <1>5, <1>6, <1>7

\* The row a transaction commits when it completes its job.
LEMMA CompletedRow ==
    ASSUME TypeOK, JobInv, NEW w \in Worker, InTxn(w)
    PROVE  /\ Completed(w).status = "COMPLETED" /\ Completed(w).lease = 0
           /\ Completed(w).gen = 1 /\ Completed(w).retry = 0
<1>1. txn[w] \in Row
  BY DEF TypeOK
<1> QED
  BY <1>1 DEF Completed, JobInv, ClaimedRows, Row

LEMMA CompleteTranscriptionInv ==
    ASSUME TypeOK, JobInv, Control, NEW w \in Worker, CompleteTranscription(w)
    PROVE  JobInv'
<1> DEFINE j == wjob[w]
           r == RecOf[j]
<1> USE JobSets
<1>1. /\ pc[w] = "ready" /\ InTxn(w) /\ j \in TJob /\ r \in Recording
      /\ EJobOf[r] \in EJob /\ j # EJobOf[r] /\ SavedFor(w) = r
      /\ TKeyOf[r] \in TKey /\ j \in Job /\ EJobOf[r] \in Job /\ j \notin EJob
  BY JobSetsAssumption DEF CompleteTranscription, InTxn, SavedFor
<1>2. /\ staged[w].tx = (transcript[TKeyOf[r]].rec = None)
      /\ staged[w].ev = (job[EJobOf[r]].status = "ABSENT")
  BY <1>1 DEF JobInv, StagedInserts
<1>3. /\ NewRow.status = "QUEUED" /\ NewRow.lease = 0
      /\ NewRow.retry = 0 /\ NewRow.gen = 0
  BY DEF NewRow, Absent
<1>4. job'[j] = Completed(w)
  BY <1>1 DEF CompleteTranscription, TypeOK
<1>5. \A i \in Job : i # j /\ i # EJobOf[r] => job'[i] = job[i]
  BY <1>1 DEF CompleteTranscription, TypeOK
<1>6. job'[EJobOf[r]] = IF staged[w].ev THEN NewRow ELSE job[EJobOf[r]]
  BY <1>1 DEF CompleteTranscription, TypeOK
<1>7. job[EJobOf[r]].status # "ABSENT" => job'[EJobOf[r]] = job[EJobOf[r]]
  BY <1>2, <1>6
<1>8. job[EJobOf[r]].status = "ABSENT" => job'[EJobOf[r]] = NewRow
  BY <1>2, <1>6
<1>9. transcript[TKeyOf[r]].rec # None => transcript' = transcript
  BY <1>1, <1>2 DEF CompleteTranscription, SavedFor
<1>10. transcript[TKeyOf[r]].rec = None =>
          /\ transcript'[TKeyOf[r]].rec = r
          /\ \A k \in TKey : k # TKeyOf[r] => transcript'[k] = transcript[k]
  BY <1>1, <1>2 DEF CompleteTranscription, TypeOK
<1>11. \A k \in TKey : k # TKeyOf[r] => transcript'[k] = transcript[k]
  BY <1>9, <1>10
<1>12. r # None /\ transcript'[TKeyOf[r]].rec # None
  BY <1>1, <1>9, <1>10, JobSetsAssumption
<1>13. \A k \in TKey : transcript[k].rec # None => transcript'[k] = transcript[k]
  BY <1>9, <1>11
<1>14. job'[EJobOf[r]].status # "ABSENT"
  BY <1>3, <1>7, <1>8
<1>15. /\ pc' = [pc EXCEPT ![w] = "dispatch"] /\ pc'[w] = "dispatch"
       /\ UNCHANGED <<runs, wjob, txn, stale>>
       /\ staged'[w] = NoInsert
       /\ \A v \in Worker \ {w} : staged'[v] = staged[v] /\ pc'[v] = pc[v]
  BY DEF CompleteTranscription, TypeOK
<1>16. RowsLocked'
  BY <1>15 DEF JobInv, RowsLocked, InTxn
<1>17. ClaimedRows'
  <2> SUFFICES ASSUME NEW v \in Worker, v # w, InTxn(v)
               PROVE  job'[wjob[v]].status = "QUEUED"
    BY <1>15 DEF JobInv, ClaimedRows, InTxn
  <2>1. wjob[v] # j /\ wjob[v] \in Job /\ job[wjob[v]].status = "QUEUED"
    BY <1>1 DEF JobInv, RowsLocked, ClaimedRows, Control
  <2> QED BY <2>1, <1>5, <1>7
<1>18. \A v \in Worker : SavedFor(v)' = SavedFor(v)
  BY <1>15 DEF SavedFor
<1>19. ASSUME NEW v \in Worker, v # w, pc[v] = "ready", wjob[v] \in TJob
       PROVE  /\ staged[v].tx = (transcript'[TKeyOf[SavedFor(v)]].rec = None)
              /\ staged[v].ev = (job'[EJobOf[SavedFor(v)]].status = "ABSENT")
  <2> DEFINE s == SavedFor(v)
  <2>1. s \in Recording /\ EJobOf[s] \in EJob /\ EJobOf[s] # j
    BY <1>1, <1>19 DEF SavedFor
  <2>2. /\ staged[v].tx = (transcript[TKeyOf[s]].rec = None)
        /\ staged[v].ev = (job[EJobOf[s]].status = "ABSENT")
    BY <1>19 DEF JobInv, StagedInserts
  <2>3. /\ staged[v].tx /\ staged[w].tx => TKeyOf[s] # TKeyOf[r]
        /\ staged[v].ev /\ staged[w].ev => s # r
    BY <1>1, <1>19 DEF JobInv, StagedInserts
  <2>4. transcript'[TKeyOf[s]] = transcript[TKeyOf[s]]
    BY <2>1, <2>2, <2>3, <1>2, <1>9, <1>11
  <2>5. job'[EJobOf[s]] = job[EJobOf[s]]
    BY <2>1, <2>2, <2>3, <1>1, <1>2, <1>5, <1>7, LineageAssumption
  <2> QED BY <2>2, <2>4, <2>5
<1>20. StagedInserts'
  <2>1. ASSUME NEW v \in Worker
        PROVE  (/\ pc[v] # "ready" \/ wjob[v] \in EJob => staged[v] = NoInsert
                /\ pc[v] = "ready" /\ wjob[v] \in TJob =>
                     /\ staged[v].tx = (transcript[TKeyOf[SavedFor(v)]].rec = None)
                     /\ staged[v].ev = (job[EJobOf[SavedFor(v)]].status = "ABSENT"))'
    BY <1>15, <1>18, <1>19 DEF JobInv, StagedInserts
  <2>2. ~staged'[w].tx /\ ~staged'[w].ev
    BY <1>15 DEF NoInsert
  <2>3. ASSUME NEW u \in Worker, NEW v \in Worker, u # v
        PROVE  (/\ staged[u].tx /\ staged[v].tx
                     => TKeyOf[SavedFor(u)] # TKeyOf[SavedFor(v)]
                /\ staged[u].ev /\ staged[v].ev => SavedFor(u) # SavedFor(v))'
    BY <1>15, <1>18, <2>2, <2>3 DEF JobInv, StagedInserts
  <2> QED BY <2>1, <2>3 DEF StagedInserts
<1>21. \A e \in EJob : job[e].status # "ABSENT" => job'[e] = job[e]
  BY <1>1, <1>5, <1>7
<1>22. TranscriptLineage'
  <2> SUFFICES ASSUME NEW k \in TKey, NEW s \in Recording, transcript'[k].rec = s
               PROVE  k = TKeyOf[s] /\ job'[EJobOf[s]].status # "ABSENT"
    BY DEF TranscriptLineage
  <2>1. CASE transcript[k].rec = s
    BY <2>1, <1>21 DEF JobInv, TranscriptLineage
  <2>2. CASE transcript[k].rec # s
    BY <2>2, <1>9, <1>10, <1>11, <1>14
  <2> QED BY <2>1, <2>2
<1>23. \A s \in Recording : HasTranscript(s) => HasTranscript(s)'
  BY <1>13, JobSetsAssumption DEF HasTranscript
<1>24. ReadyEvaluations'
  <2> SUFFICES ASSUME NEW v \in Worker, v # w, pc[v] = "ready", wjob[v] \in EJob
               PROVE  HasTranscript(Rec(wjob[v]))'
    BY <1>15 DEF ReadyEvaluations
  <2>1. HasTranscript(Rec(wjob[v])) /\ Rec(wjob[v]) \in Recording
    BY RecOfEvaluation DEF JobInv, ReadyEvaluations
  <2>2. Rec(wjob[v])' = Rec(wjob[v])
    BY <1>15 DEF Rec
  <2>3. \E k \in TKey : transcript'[k].rec = Rec(wjob[v])
    BY <2>1, <1>13, JobSetsAssumption DEF HasTranscript
  <2> QED BY <2>2, <2>3 DEF HasTranscript
<1>25. LeaseNeverVisible'
  <2>1. \A i \in Leased : job'[i] = job[i] \/ job'[i] = NewRow \/ job'[i] = Completed(w)
    BY <1>4, <1>5, <1>7, <1>8
  <2> QED BY <2>1, <1>1, <1>3, <1>15, CompletedRow DEF JobInv, LeaseNeverVisible
<1>26. EvaluationCommittedOnce'
  <2> SUFFICES ASSUME NEW e \in EJob
               PROVE  runs[e] = IF job'[e].status = "COMPLETED" THEN 1 ELSE 0
    BY <1>15 DEF EvaluationCommittedOnce
  <2>1. runs[e] = IF job[e].status = "COMPLETED" THEN 1 ELSE 0
    BY DEF JobInv, EvaluationCommittedOnce
  <2>2. job'[e] = job[e] \/ (job[e].status = "ABSENT" /\ job'[e] = NewRow)
    BY <1>1, <1>5, <1>7, <1>8
  <2> QED BY <2>1, <2>2, <1>3
<1>27. HandOffIsAtomic'
  <2> SUFFICES ASSUME NEW t \in TJob, job'[t].status = "COMPLETED"
               PROVE  /\ transcript'[TKeyOf[RecOf[t]]].rec # None
                      /\ job'[EJobOf[RecOf[t]]].status # "ABSENT"
    BY DEF HandOffIsAtomic
  <2>1. CASE t = j
    BY <2>1, <1>12, <1>14
  <2>2. CASE t # j
    <3>1. t # EJobOf[r]
      BY <1>1, JobSetsAssumption
    <3>2. /\ transcript[TKeyOf[RecOf[t]]].rec # None
          /\ job[EJobOf[RecOf[t]]].status # "ABSENT"
      BY <2>2, <3>1, <1>5 DEF JobInv, HandOffIsAtomic
    <3> QED BY <3>2, <1>13, <1>21
  <2> QED BY <2>1, <2>2
<1>28. DecisionsHaveTranscripts'
  <2> SUFFICES ASSUME NEW e \in EJob, runs[e] > 0
               PROVE  HasTranscript(Rec(e))'
    BY <1>15 DEF DecisionsHaveTranscripts
  <2>1. HasTranscript(Rec(e)) /\ Rec(e) \in Recording
    BY RecOfEvaluation DEF JobInv, DecisionsHaveTranscripts
  <2>2. \E k \in TKey : transcript'[k].rec = Rec(e)
    BY <2>1, <1>13, JobSetsAssumption DEF HasTranscript
  <2> QED BY <2>2 DEF HasTranscript, Rec
<1> QED
  BY <1>16, <1>17, <1>20, <1>22, <1>24, <1>25, <1>26, <1>27, <1>28 DEF JobInv

LEMMA CompleteEvaluationInv ==
    ASSUME TypeOK, JobInv, Control, NEW w \in Worker, CompleteEvaluation(w)
    PROVE  JobInv'
<1> DEFINE j == wjob[w]
<1> USE JobSets
<1>1. pc[w] = "ready" /\ InTxn(w) /\ j \in EJob /\ j \in Job /\ j \notin TJob
  BY JobSetsAssumption DEF CompleteEvaluation, InTxn
<1>2. job'[j] = Completed(w) /\ \A i \in Job : i # j => job'[i] = job[i]
  BY <1>1 DEF CompleteEvaluation, TypeOK
<1>3. /\ runs'[j] = runs[j] + 1
      /\ \A e \in EJob : e # j => runs'[e] = runs[e]
  BY <1>1 DEF CompleteEvaluation, TypeOK
<1>4. job[j].status = "QUEUED"
  BY <1>1 DEF JobInv, ClaimedRows
<1>5. /\ UNCHANGED transcript
      /\ pc'[w] = "idle" /\ staged'[w] = NoInsert /\ stale'[w] = {}
      /\ \A v \in Worker \ {w} : /\ pc'[v] = pc[v] /\ wjob'[v] = wjob[v]
                              /\ txn'[v] = txn[v] /\ staged'[v] = staged[v]
                              /\ stale'[v] = stale[v]
  BY DEF CompleteEvaluation, Reset, TypeOK
<1>6. \A v \in Worker \ {w} : InTxn(v) => wjob[v] # j
  BY <1>1 DEF JobInv, RowsLocked
<1>7. RowsLocked' /\ ClaimedRows'
  BY <1>2, <1>5, <1>6 DEF JobInv, RowsLocked, ClaimedRows, InTxn, Control
<1>8. \A e \in EJob : (job'[e].status = "ABSENT") = (job[e].status = "ABSENT")
  BY <1>1, <1>2, <1>4, CompletedRow
<1>9. \A v \in Worker : v # w => SavedFor(v)' = SavedFor(v)
  BY <1>5 DEF SavedFor
<1>10. StagedInserts'
  <2>1. ASSUME NEW v \in Worker
        PROVE  (/\ pc[v] # "ready" \/ wjob[v] \in EJob => staged[v] = NoInsert
                /\ pc[v] = "ready" /\ wjob[v] \in TJob =>
                     /\ staged[v].tx = (transcript[TKeyOf[SavedFor(v)]].rec = None)
                     /\ staged[v].ev = (job[EJobOf[SavedFor(v)]].status = "ABSENT"))'
    <3>1. wjob[v] \in TJob => EJobOf[SavedFor(v)] \in EJob
      BY DEF SavedFor
    <3> QED BY <3>1, <1>5, <1>8, <1>9 DEF JobInv, StagedInserts
  <2>2. ~staged'[w].tx /\ ~staged'[w].ev
    BY <1>5 DEF NoInsert
  <2>3. ASSUME NEW u \in Worker, NEW v \in Worker, u # v
        PROVE  (/\ staged[u].tx /\ staged[v].tx
                     => TKeyOf[SavedFor(u)] # TKeyOf[SavedFor(v)]
                /\ staged[u].ev /\ staged[v].ev => SavedFor(u) # SavedFor(v))'
    BY <1>5, <1>9, <2>2, <2>3 DEF JobInv, StagedInserts
  <2> QED BY <2>1, <2>3 DEF StagedInserts
<1>11. TranscriptLineage'
  BY <1>5, <1>8 DEF JobInv, TranscriptLineage
<1>12. ReadyEvaluations'
  BY <1>5 DEF JobInv, ReadyEvaluations, HasTranscript, Rec
<1>13. LeaseNeverVisible'
  BY <1>1, <1>2, <1>5, CompletedRow DEF JobInv, LeaseNeverVisible
<1>14. EvaluationCommittedOnce'
  BY <1>1, <1>2, <1>3, <1>4, CompletedRow DEF JobInv, EvaluationCommittedOnce
<1>15. HandOffIsAtomic'
  BY <1>1, <1>2, <1>5, <1>8 DEF JobInv, HandOffIsAtomic
<1>16. DecisionsHaveTranscripts'
  BY <1>1, <1>3, <1>5 DEF JobInv, DecisionsHaveTranscripts, ReadyEvaluations,
     HasTranscript, Rec
<1> QED
  BY <1>7, <1>10, <1>11, <1>12, <1>13, <1>14, <1>15, <1>16 DEF JobInv

\* The smoke job and the recovery routine touch no row of the pipeline.
LEMMA UnfencedInv ==
    ASSUME TypeOK, JobInv, Control, NEW w \in Worker,
           SmokeLoad(w) \/ SmokeLease(w) \/ SmokeFinish(w)
             \/ RecoverLoad(w) \/ RecoverCommit(w)
    PROVE  JobInv'
<1> USE JobSets
<1>1. \A j \in Leased : j \notin SJob
  BY JobSetsAssumption DEF Leased
<1>2. \A j \in Leased : job'[j] = job[j]
  <2>1. CASE SmokeLoad(w) \/ RecoverLoad(w)
    BY <2>1 DEF SmokeLoad, RecoverLoad, dbVars
  <2>2. CASE SmokeLease(w) \/ SmokeFinish(w)
    <3>1. wjob[w] \in SJob
      BY <2>2 DEF SmokeLease, SmokeFinish, Control
    <3> QED BY <2>2, <3>1, <1>1 DEF SmokeLease, SmokeFinish, TypeOK
  <2>3. CASE RecoverCommit(w)
    <3>1. \A s \in stale[w] : s.id \in SJob
      BY DEF JobInv, LeaseNeverVisible
    <3> QED BY <2>3, <3>1, <1>1 DEF RecoverCommit
  <2> QED BY <2>1, <2>2, <2>3
<1>3. \A s \in stale'[w] : s.id \in SJob
  <2>1. CASE RecoverLoad(w)
    <3>1. \A s \in stale'[w] : s.id \in Job /\ job[s.id].status = "RUNNING"
      BY <2>1 DEF RecoverLoad, TypeOK
    <3>2. \A j \in Leased : job[j].status # "RUNNING"
      BY DEF JobInv, LeaseNeverVisible
    <3> QED BY <3>1, <3>2 DEF Job, Leased
  <2>2. CASE SmokeFinish(w) \/ RecoverCommit(w)
    BY <2>2 DEF SmokeFinish, RecoverCommit, Reset, TypeOK
  <2>3. CASE SmokeLoad(w) \/ SmokeLease(w)
    BY <2>3 DEF SmokeLoad, SmokeLease, JobInv, LeaseNeverVisible
  <2> QED BY <2>1, <2>2, <2>3
<1>4. staged'[w] = NoInsert /\ pc'[w] \notin {"claimed", "transcribing", "ready"}
  BY DEF SmokeLoad, SmokeLease, SmokeFinish, RecoverLoad, RecoverCommit, Reset,
     JobInv, StagedInserts, TypeOK
<1>5. UNCHANGED <<transcript, runs>>
  BY DEF SmokeLoad, SmokeLease, SmokeFinish, RecoverLoad, RecoverCommit, dbVars
<1>6. \A v \in Worker \ {w} : /\ pc'[v] = pc[v] /\ wjob'[v] = wjob[v]
                           /\ txn'[v] = txn[v] /\ staged'[v] = staged[v]
                           /\ stale'[v] = stale[v]
  BY DEF SmokeLoad, SmokeLease, SmokeFinish, RecoverLoad, RecoverCommit, Reset, TypeOK
<1> QED
  BY <1>2, <1>3, <1>4, <1>5, <1>6, OutsideTransactions

LEMMA JobInvInit == Init => JobInv
<1> USE JobSets
<1> SUFFICES ASSUME Init PROVE JobInv
  OBVIOUS
<1>1. RowsLocked /\ ClaimedRows /\ ReadyEvaluations
  BY DEF Init, RowsLocked, ClaimedRows, ReadyEvaluations, InTxn
<1>2. StagedInserts
  BY DEF Init, StagedInserts, NoInsert
<1>3. TranscriptLineage
  BY JobSetsAssumption DEF Init, TranscriptLineage, NoTranscript
<1>4. LeaseNeverVisible /\ EvaluationCommittedOnce /\ HandOffIsAtomic
      /\ DecisionsHaveTranscripts
  BY DEF Init, LeaseNeverVisible, EvaluationCommittedOnce, HandOffIsAtomic,
     DecisionsHaveTranscripts, Absent
<1> QED
  BY <1>1, <1>2, <1>3, <1>4 DEF JobInv

LEMMA JobInvStep ==
    ASSUME TypeOK, JobInv, Control, [Next]_vars
    PROVE  JobInv'
<1> USE JobSets
<1>1. CASE Tick \/ (\E m \in outgoing : Dispatch(m) \/ LoseDispatch(m)) \/ UNCHANGED vars
  BY <1>1, NoWorkerMoves DEF Tick, Dispatch, LoseDispatch, vars, dbVars, wkVars
<1>2. ASSUME NEW j \in TJob, Ingest(j) PROVE JobInv'
  BY <1>2, InsertRow, JobSetsAssumption DEF Ingest, wkVars
<1>3. ASSUME NEW j \in SJob, CreateSmoke(j) PROVE JobInv'
  BY <1>3, InsertRow, JobSetsAssumption DEF CreateSmoke, wkVars
<1>4. ASSUME NEW r \in Recording, RequestRerun(r) PROVE JobInv'
  <2>1. CASE job[RJobOf[r]].status = "ABSENT"
    BY <1>4, <2>1, InsertRow, JobSetsAssumption DEF RequestRerun, wkVars
  <2>2. CASE job[RJobOf[r]].status # "ABSENT"
    BY <1>4, <2>2, NoWorkerMoves DEF RequestRerun, wkVars, dbVars
  <2> QED BY <2>1, <2>2
<1>5. ASSUME NEW w \in Worker, NEW j, pc[w] = "idle", Start(w, j) PROVE JobInv'
  <2>1. staged'[w] = NoInsert /\ pc'[w] \notin {"claimed", "transcribing", "ready"}
    BY <1>5 DEF Start, JobInv, StagedInserts, TypeOK
  <2>2. \A s \in stale'[w] : s.id \in SJob
    BY <1>5 DEF Start, JobInv, LeaseNeverVisible
  <2>3. \A v \in Worker \ {w} : /\ pc'[v] = pc[v] /\ wjob'[v] = wjob[v]
                             /\ txn'[v] = txn[v] /\ staged'[v] = staged[v]
                             /\ stale'[v] = stale[v]
    BY <1>5 DEF Start, TypeOK
  <2>4. UNCHANGED dbVars
    BY <1>5 DEF Start
  <2> QED BY <2>1, <2>2, <2>3, <2>4, OutsideTransactions DEF dbVars
<1>6. ASSUME NEW w \in Worker, Pop(w) \/ (\E j \in Called : CallHandler(w, j))
      PROVE  JobInv'
  BY <1>6, <1>5 DEF Pop, CallHandler
<1>7. ASSUME NEW w \in Worker,
             NotClaimable(w) \/ MissingInput(w) \/ LeaseLost(w) \/ Fail(w)
               \/ DispatchEvaluation(w)
      PROVE  JobInv'
  <2>1. Reset(w) /\ UNCHANGED dbVars
    BY <1>7 DEF NotClaimable, MissingInput, LeaseLost, Fail, DispatchEvaluation
  <2>2. /\ pc'[w] = "idle" /\ staged'[w] = NoInsert /\ stale'[w] = {}
        /\ \A v \in Worker \ {w} : /\ pc'[v] = pc[v] /\ wjob'[v] = wjob[v]
                                /\ txn'[v] = txn[v] /\ staged'[v] = staged[v]
                                /\ stale'[v] = stale[v]
    BY <2>1 DEF Reset, TypeOK
  <2> QED BY <2>1, <2>2, OutsideTransactions DEF dbVars
<1> QED
  BY <1>1, <1>2, <1>3, <1>4, <1>6, <1>7, ClaimInv, WorkInv, UnfencedInv,
     CompleteTranscriptionInv, CompleteEvaluationInv DEF Next, Step

\* The inductive invariant holds of every reachable state.
LEMMA Invariant == Spec => [](TypeOK /\ Control /\ JobInv)
<1>1. Init => TypeOK /\ Control /\ JobInv
  BY TypeInit, ControlInit, JobInvInit
<1>2. TypeOK /\ Control /\ JobInv /\ [Next]_vars => (TypeOK /\ Control /\ JobInv)'
  BY TypeStep, ControlStep, JobInvStep
<1> QED
  BY <1>1, <1>2, PTL DEF Spec

\* Runs, gate decisions and outbox events of an evaluation job are committed
\* exactly once, with its completion, for any number of workers sharing any
\* worker ids, any redelivery, and any lease duration.
THEOREM EvaluationOnce == Spec => []EvaluationCommittedOnce
<1>1. JobInv => EvaluationCommittedOnce
  BY DEF JobInv
<1> QED
  BY <1>1, Invariant, PTL

\* A completed transcription always has its transcript and evaluation job.
THEOREM HandOff == Spec => []HandOffIsAtomic
<1>1. JobInv => HandOffIsAtomic
  BY DEF JobInv
<1> QED
  BY <1>1, Invariant, PTL

\* No decision is committed without a transcript of the recording itself.
THEOREM TranscribedFirst == Spec => []DecisionsHaveTranscripts
<1>1. JobInv => DecisionsHaveTranscripts
  BY DEF JobInv
<1> QED
  BY <1>1, Invariant, PTL

\* No pipeline job is ever visible as RUNNING, so recovery never touches one.
THEOREM RecoveryIsBlind == Spec => []LeaseNeverVisible
<1>1. JobInv => LeaseNeverVisible
  BY DEF JobInv
<1> QED
  BY <1>1, Invariant, PTL

---------------------------------------------------------------------------
(* The retry budget *)

\* The retries of row b are those of row a, or b is retried and a is known.
RetriesKept(a, b) ==
    a.status # "ABSENT" => /\ b.status # "ABSENT"
                           /\ a.retry > 0 => b.retry > 0

WithinBudget(row) ==
    /\ row.retry <= MaxRetries
    /\ row.status = "DEAD_LETTER" /\ MaxRetries > 0 => row.retry > 0

\* The unfenced handler writes neither the retries nor DEAD_LETTER.
LEMMA SmokeRetries ==
    ASSUME TypeOK, RetryBudget, NEW w \in Worker, wjob[w] \in Job,
           SmokeLease(w) \/ SmokeFinish(w)
    PROVE  \A j \in Job : RetriesKept(job[j], job'[j]) /\ WithinBudget(job'[j])
<1> DEFINE j0 == wjob[w]
           new == IF SmokeLease(w) THEN SmokeRow(w) ELSE Completed(w)
<1>1. txn[w] \in Row /\ \A j \in Job : job[j] \in Row
  BY DEF TypeOK
<1>2. /\ job \in [Job -> Row]
      /\ job' = [job EXCEPT ![j0] = Flush(txn[w], new, job[j0])]
  BY DEF SmokeLease, SmokeFinish, TypeOK
<1>3. new.retry = txn[w].retry /\ new.status \in {"RUNNING", "COMPLETED"}
  BY <1>1 DEF SmokeRow, Completed, Row
<1>4. WithinBudget(job[j0])
  BY DEF RetryBudget, WithinBudget
<1> HIDE DEF new
<1>5. /\ RetriesKept(job[j0], Flush(txn[w], new, job[j0]))
      /\ WithinBudget(Flush(txn[w], new, job[j0]))
  BY <1>1, <1>3, <1>4 DEF Flush, Dirty, RetriesKept, WithinBudget
<1>6. \A j \in Job : RetriesKept(job[j], job[j]) /\ WithinBudget(job[j])
  BY DEF RetriesKept, WithinBudget, RetryBudget
<1> QED
  BY <1>2, <1>5, <1>6

\* Neither does a recovery that commits late undo the first retry of a row.
LEMMA RecoveryRetries ==
    ASSUME TypeOK, RetryBudget, StaleRetries, NEW w \in Worker, RecoverCommit(w)
    PROVE  \A j \in Job : RetriesKept(job[j], job'[j]) /\ WithinBudget(job'[j])
<1>1. ASSUME NEW s \in stale[w]
      PROVE  /\ RetriesKept(job[s.id], Flush(s.row, Recovered(s.row), job[s.id]))
             /\ WithinBudget(Flush(s.row, Recovered(s.row), job[s.id]))
  <2>1. s.row \in Row /\ s.id \in Job /\ job[s.id] \in Row
    BY DEF TypeOK
  <2>2. /\ s.row.retry <= MaxRetries
        /\ s.row.retry > 0 => job[s.id].retry > 0
        /\ job[s.id].status # "ABSENT"
    BY DEF StaleRetries
  <2>3. WithinBudget(job[s.id])
    BY <2>1 DEF RetryBudget, WithinBudget
  <2>4. /\ s.row.retry \in Nat /\ job[s.id].retry \in Nat /\ MaxRetries \in Nat
    BY <2>1, BoundsAssumption DEF Row
  <2>5. CASE s.row.retry < MaxRetries
    <3>1. Recovered(s.row).status = "QUEUED" /\ Recovered(s.row).retry = s.row.retry + 1
      BY <2>1, <2>5 DEF Recovered, Row
    <3> QED
      BY <2>2, <2>3, <2>4, <2>5, <3>1 DEF Flush, Dirty, RetriesKept, WithinBudget
  <2>6. CASE s.row.retry = MaxRetries
    <3>1. Recovered(s.row).status = "DEAD_LETTER" /\ Recovered(s.row).retry = s.row.retry
      BY <2>1, <2>4, <2>6 DEF Recovered, Row
    <3> QED
      BY <2>2, <2>3, <2>4, <2>6, <3>1 DEF Flush, Dirty, RetriesKept, WithinBudget
  <2> QED
    BY <2>2, <2>4, <2>5, <2>6
<1>2. \A j \in Job : RetriesKept(job[j], job[j]) /\ WithinBudget(job[j])
  BY DEF RetriesKept, WithinBudget, RetryBudget
<1>3. TAKE j \in Job
<1>4. CASE \E s \in stale[w] : s.id = j
  <2> DEFINE s == CHOOSE s \in stale[w] : s.id = j
  <2>1. s \in stale[w] /\ s.id = j
    BY <1>4
  <2>2. job'[j] = Flush(s.row, Recovered(s.row), job[j])
    BY <1>4 DEF RecoverCommit
  <2> HIDE DEF s
  <2> QED
    BY <1>1, <2>1, <2>2
<1>5. CASE ~\E s \in stale[w] : s.id = j
  BY <1>2, <1>5 DEF RecoverCommit
<1> QED
  BY <1>4, <1>5

\* No step forgets that a row was retried or dead-letters one that was not.
LEMMA RetriesStep ==
    ASSUME TypeOK, TypeOK', JobInv, JobInv', Control, RetryBudget, StaleRetries,
           [Next]_vars
    PROVE  \A j \in Job : RetriesKept(job[j], job'[j]) /\ WithinBudget(job'[j])
<1> USE JobSets
<1>1. \A j \in Leased : WithinBudget(job'[j])
  BY BoundsAssumption DEF JobInv, LeaseNeverVisible, WithinBudget
<1>2. \A j \in Leased : job[j].retry = 0
  BY DEF JobInv, LeaseNeverVisible
<1>3. \A j \in Job : RetriesKept(job[j], job[j]) /\ WithinBudget(job[j])
  BY DEF RetriesKept, WithinBudget, RetryBudget
<1>4. ASSUME NEW i \in Job, job[i].status = "ABSENT", job' = [job EXCEPT ![i] = NewRow]
      PROVE  \A j \in Job : RetriesKept(job[j], job'[j]) /\ WithinBudget(job'[j])
  <2>1. WithinBudget(NewRow)
    BY BoundsAssumption DEF WithinBudget, NewRow, Absent
  <2> QED BY <1>3, <1>4, <2>1 DEF RetriesKept, TypeOK
<1>5. ASSUME \E j \in TJob : Ingest(j)
      PROVE  \A j \in Job : RetriesKept(job[j], job'[j]) /\ WithinBudget(job'[j])
  BY <1>4, <1>5 DEF Ingest
<1>6. ASSUME \E j \in SJob : CreateSmoke(j)
      PROVE  \A j \in Job : RetriesKept(job[j], job'[j]) /\ WithinBudget(job'[j])
  BY <1>4, <1>6 DEF CreateSmoke
<1>7. ASSUME \E r \in Recording : RequestRerun(r)
      PROVE  \A j \in Job : RetriesKept(job[j], job'[j]) /\ WithinBudget(job'[j])
  <2>1. PICK r \in Recording : RequestRerun(r)
    BY <1>7
  <2>2. CASE UNCHANGED job
    BY <1>3, <2>2
  <2>3. RJobOf[r] \in Job
    OBVIOUS
  <2> QED BY <1>4, <2>1, <2>2, <2>3 DEF RequestRerun
<1>8. ASSUME NEW w \in Worker, CompleteTranscription(w)
      PROVE  \A j \in Job : RetriesKept(job[j], job'[j]) /\ WithinBudget(job'[j])
  <2>1. \A j \in Job \ Leased : job'[j] = job[j]
    BY <1>8 DEF CompleteTranscription, Control, TypeOK
  <2>2. \A j \in Leased : job[j].status # "ABSENT" => job'[j].status # "ABSENT"
    <3>1. Completed(w).status = "COMPLETED"
      BY DEF TypeOK, Completed, Row
    <3>2. NewRow.status = "QUEUED"
      BY DEF NewRow, Absent
    <3> QED BY <1>8, <3>1, <3>2 DEF CompleteTranscription, Control, TypeOK
  <2>3. \A j \in Job : RetriesKept(job[j], job'[j])
    BY <1>2, <1>3, <2>1, <2>2 DEF RetriesKept
  <2> QED BY <1>1, <1>3, <2>1, <2>3
<1>9. ASSUME NEW w \in Worker, CompleteEvaluation(w)
      PROVE  \A j \in Job : RetriesKept(job[j], job'[j]) /\ WithinBudget(job'[j])
  <2>1. \A j \in Job \ Leased : job'[j] = job[j]
    BY <1>9 DEF CompleteEvaluation, TypeOK
  <2>2. \A j \in Leased : job[j].status # "ABSENT" => job'[j].status # "ABSENT"
    <3>1. Completed(w).status = "COMPLETED"
      BY DEF TypeOK, Completed, Row
    <3> QED BY <1>9, <3>1 DEF CompleteEvaluation, TypeOK
  <2>3. \A j \in Job : RetriesKept(job[j], job'[j])
    BY <1>2, <1>3, <2>1, <2>2 DEF RetriesKept
  <2> QED BY <1>1, <1>3, <2>1, <2>3
<1>10. ASSUME NEW w \in Worker, SmokeLease(w) \/ SmokeFinish(w)
       PROVE  \A j \in Job : RetriesKept(job[j], job'[j]) /\ WithinBudget(job'[j])
  BY <1>10, SmokeRetries DEF SmokeLease, SmokeFinish, Control
<1>11. ASSUME NEW w \in Worker,
              \/ Pop(w) \/ RecoverLoad(w) \/ Fail(w)
              \/ (\E j \in Called : CallHandler(w, j))
              \/ Claim(w) \/ NotClaimable(w) \/ Replay(w) \/ BeginTranscription(w)
              \/ SaveTranscript(w) \/ Evaluate(w) \/ MissingInput(w)
              \/ DispatchEvaluation(w) \/ LeaseLost(w) \/ SmokeLoad(w)
       PROVE  UNCHANGED job
  BY <1>11 DEF Pop, RecoverLoad, Fail, CallHandler, Start, Claim, NotClaimable, Replay,
     BeginTranscription, SaveTranscript, Evaluate, MissingInput, DispatchEvaluation,
     LeaseLost, SmokeLoad, dbVars
<1>12. ASSUME Tick \/ (\E m \in outgoing : Dispatch(m) \/ LoseDispatch(m)) \/ UNCHANGED vars
       PROVE  UNCHANGED job
  BY <1>12 DEF Tick, Dispatch, LoseDispatch, vars, dbVars
<1>13. ASSUME UNCHANGED job
       PROVE  \A j \in Job : RetriesKept(job[j], job'[j]) /\ WithinBudget(job'[j])
  BY <1>3, <1>13
<1> QED
  BY <1>5, <1>6, <1>7, <1>8, <1>9, <1>10, <1>11, <1>12, <1>13, RecoveryRetries DEF Next, Step

\* What recovery holds was in the table when it loaded it.
LEMMA StaleStep ==
    ASSUME TypeOK, RetryBudget, StaleRetries, [Next]_vars,
           \A j \in Job : RetriesKept(job[j], job'[j])
    PROVE  StaleRetries'
<1>1. \A w \in Worker : \A s \in stale[w] :
         /\ s.row.retry <= MaxRetries
         /\ job'[s.id].status # "ABSENT"
         /\ s.row.retry > 0 => job'[s.id].retry > 0
  BY DEF StaleRetries, RetriesKept, TypeOK
<1>2. ASSUME NEW w \in Worker, RecoverLoad(w) PROVE StaleRetries'
  <2>1. \A s \in stale'[w] : /\ s.id \in Job /\ s.row = job[s.id]
                             /\ job[s.id].status = "RUNNING" /\ job' = job
    BY <1>2 DEF RecoverLoad, TypeOK, dbVars
  <2>2. \A s \in stale'[w] : /\ s.row.retry <= MaxRetries
                             /\ job'[s.id].status # "ABSENT"
                             /\ s.row.retry > 0 => job'[s.id].retry > 0
    BY <2>1 DEF RetryBudget
  <2>3. \A v \in Worker \ {w} : stale'[v] = stale[v]
    BY <1>2 DEF RecoverLoad, TypeOK
  <2> QED BY <1>1, <2>2, <2>3 DEF StaleRetries
<1>3. ASSUME NEW w \in Worker, Reset(w) PROVE StaleRetries'
  BY <1>1, <1>3 DEF Reset, StaleRetries, TypeOK
<1>4. ASSUME NEW w \in Worker,
             NotClaimable(w) \/ MissingInput(w) \/ LeaseLost(w) \/ Fail(w)
               \/ DispatchEvaluation(w) \/ CompleteEvaluation(w)
               \/ SmokeFinish(w) \/ RecoverCommit(w)
      PROVE  Reset(w)
  BY <1>4 DEF NotClaimable, MissingInput, LeaseLost, Fail, DispatchEvaluation,
     CompleteEvaluation, SmokeFinish, RecoverCommit
<1>5. ASSUME NEW w \in Worker,
             \/ Pop(w) \/ (\E j \in Called : CallHandler(w, j))
             \/ Claim(w) \/ Replay(w) \/ BeginTranscription(w) \/ SaveTranscript(w)
             \/ Evaluate(w) \/ CompleteTranscription(w) \/ SmokeLoad(w) \/ SmokeLease(w)
      PROVE  UNCHANGED stale
  BY <1>5 DEF Pop, CallHandler, Start, Claim, Replay, BeginTranscription, SaveTranscript,
     Evaluate, CompleteTranscription, SmokeLoad, SmokeLease
<1>6. ASSUME Tick \/ (\E j \in TJob : Ingest(j)) \/ (\E j \in SJob : CreateSmoke(j))
               \/ (\E r \in Recording : RequestRerun(r))
               \/ (\E m \in outgoing : Dispatch(m) \/ LoseDispatch(m))
               \/ UNCHANGED vars
      PROVE  UNCHANGED stale
  BY <1>6 DEF Tick, Ingest, CreateSmoke, RequestRerun, Dispatch, LoseDispatch, vars, wkVars
<1>7. UNCHANGED stale => StaleRetries'
  BY <1>1 DEF StaleRetries
<1> QED
  BY <1>2, <1>3, <1>4, <1>5, <1>6, <1>7 DEF Next, Step

\* The inductive invariant with the retries.
LEMMA RetryInvariant ==
    Spec => [](TypeOK /\ Control /\ JobInv /\ RetryBudget /\ StaleRetries)
<1> DEFINE Inv == TypeOK /\ Control /\ JobInv
<1>1. Init => RetryBudget /\ StaleRetries
  BY BoundsAssumption DEF Init, RetryBudget, StaleRetries, Absent
<1>2. Inv /\ Inv' /\ RetryBudget /\ StaleRetries /\ [Next]_vars
         => (RetryBudget /\ StaleRetries)'
  <2> SUFFICES ASSUME TypeOK, TypeOK', Control, JobInv, JobInv', RetryBudget,
                      StaleRetries, [Next]_vars
               PROVE  (RetryBudget /\ StaleRetries)'
    OBVIOUS
  <2>1. \A j \in Job : RetriesKept(job[j], job'[j]) /\ WithinBudget(job'[j])
    BY RetriesStep
  <2>2. RetryBudget'
    BY <2>1 DEF RetryBudget, WithinBudget
  <2> QED BY <2>1, <2>2, StaleStep
<1>3. Spec => []Inv
  BY Invariant
<1> QED
  BY <1>1, <1>2, <1>3, PTL DEF Spec

\* Overlapping recoveries and the unfenced handler lose updates of one row,
\* but never take it past its retries or dead-letter it before the first.
THEOREM RetriesBounded == Spec => []RetryBudget
<1>1. TypeOK /\ Control /\ JobInv /\ RetryBudget /\ StaleRetries => RetryBudget
  OBVIOUS
<1> QED
  BY <1>1, RetryInvariant, PTL

---------------------------------------------------------------------------
(* Messages without reruns *)

\* Table holds a row of job id.
Holds(table, id) == id \in Job /\ table[id].status # "ABSENT"

\* The messages that wait in Redis or to be pushed name rows.
MessagesKnown ==
    /\ \A m \in outgoing : Holds(job, m.id)
    /\ \A k \in Keys : \A i \in DOMAIN queue[k] : Holds(job, queue[k][i])

\* The evaluation that a worker is about to dispatch has been inserted.
DispatchKnown ==
    \A w \in Worker :
        pc[w] = "dispatch" => Holds(job, EJobOf[RecOf[wjob[w]]])

\* Known messages are those MessagesNameRows speaks of.
LEMMA KnownMessages == TypeOK /\ MessagesKnown => MessagesNameRows
  BY DEF TypeOK, MessagesKnown, MessagesNameRows, Holds

\* A message for a known row joins a list of such messages.
LEMMA PushKnown ==
    ASSUME TypeOK, NEW k \in Keys, NEW id \in MsgId, Push(k, id), Holds(job', id),
           \A h \in Keys : \A i \in DOMAIN queue[h] : Holds(job', queue[h][i])
    PROVE  \A h \in Keys : \A i \in DOMAIN queue'[h] : Holds(job', queue'[h][i])
<1>1. queue' = [queue EXCEPT ![k] = Append(queue[k], id)]
  BY DEF Push
<1>2. ASSUME NEW h \in Keys, NEW i \in DOMAIN queue'[h]
      PROVE  queue'[h][i] = id \/ (i \in DOMAIN queue[h] /\ queue'[h][i] = queue[h][i])
  <2>1. queue[h] \in Seq(MsgId)
    BY DEF TypeOK
  <2>2. CASE h = k
    BY <1>1, <1>2, <2>1, <2>2 DEF TypeOK
  <2>3. CASE h # k
    BY <1>1, <1>2, <2>3 DEF TypeOK
  <2> QED BY <2>2, <2>3
<1> QED
  BY <1>2 DEF Holds

\* A pop takes one away.
LEMMA PopKnown ==
    ASSUME TypeOK, NEW w \in Worker, Pop(w),
           \A h \in Keys : \A i \in DOMAIN queue[h] : Holds(job', queue[h][i])
    PROVE  \A h \in Keys : \A i \in DOMAIN queue'[h] : Holds(job', queue'[h][i])
<1>1. PICK k \in Keys : queue[k] # <<>> /\ queue' = [queue EXCEPT ![k] = Tail(queue[k])]
  BY DEF Pop, Keys
<1>2. ASSUME NEW h \in Keys, NEW i \in DOMAIN queue'[h]
      PROVE  \E n \in DOMAIN queue[h] : queue'[h][i] = queue[h][n]
  <2>1. queue[h] \in Seq(MsgId)
    BY DEF TypeOK
  <2>2. CASE h = k
    <3>1. queue'[h] = Tail(queue[h]) /\ queue[h] # <<>>
      BY <1>1, <2>2 DEF TypeOK
    <3>2. i + 1 \in DOMAIN queue[h] /\ queue'[h][i] = queue[h][i + 1]
      BY <1>2, <2>1, <3>1
    <3> QED BY <3>2
  <2>3. CASE h # k
    BY <1>1, <1>2, <2>3 DEF TypeOK
  <2> QED BY <2>2, <2>3
<1> QED
  BY <1>2 DEF Holds

\* No step but a rerun sends a message for an unknown row.
LEMMA MessagesStep ==
    ASSUME MaxReruns = 0, TypeOK, TypeOK', JobInv', Control, RetryBudget, [Next]_vars,
           \A j \in Job : RetriesKept(job[j], job'[j]), MessagesKnown, DispatchKnown
    PROVE  (MessagesKnown /\ DispatchKnown)'
<1> USE JobSets, KeyTypes
<1>1. \A id : Holds(job, id) => Holds(job', id)
  BY DEF Holds, RetriesKept
<1>2. \A h \in Keys : \A i \in DOMAIN queue[h] : Holds(job', queue[h][i])
  BY <1>1 DEF MessagesKnown
<1>3. \A m \in outgoing : Holds(job', m.id)
  BY <1>1 DEF MessagesKnown
<1>4. \A w \in Worker :
         pc[w] = "dispatch" => Holds(job', EJobOf[RecOf[wjob[w]]])
  BY <1>1 DEF DispatchKnown
<1>5. ASSUME UNCHANGED queue, \A m \in outgoing' : m \in outgoing \/ Holds(job', m.id)
      PROVE  MessagesKnown'
  BY <1>2, <1>3, <1>5 DEF MessagesKnown
<1>6. ASSUME NEW w \in Worker, pc'[w] # "dispatch",
             \A v \in Worker \ {w} : pc'[v] = pc[v] /\ wjob'[v] = wjob[v]
      PROVE  DispatchKnown'
  BY <1>4, <1>6 DEF DispatchKnown, Holds
<1>7. UNCHANGED <<pc, wjob>> => DispatchKnown'
  BY <1>4 DEF DispatchKnown, Holds
<1>8. ASSUME NEW w \in Worker, Reset(w) PROVE DispatchKnown'
  BY <1>6, <1>8 DEF Reset, TypeOK
<1>9. ASSUME NEW j \in Job, job' = [job EXCEPT ![j] = NewRow] PROVE Holds(job', j)
  BY <1>9 DEF Holds, NewRow, Absent, TypeOK
<1>10. ASSUME Tick \/ UNCHANGED vars PROVE (MessagesKnown /\ DispatchKnown)'
  BY <1>5, <1>7, <1>10 DEF Tick, vars, netVars, wkVars
<1>11. ASSUME NEW j \in TJob, Ingest(j) PROVE (MessagesKnown /\ DispatchKnown)'
  <2>1. Holds(job', j)
    BY <1>9, <1>11 DEF Ingest
  <2>2. /\ UNCHANGED <<queue, pc, wjob>>
        /\ \A m \in outgoing' : m \in outgoing \/ m.id = j
    BY <1>11 DEF Ingest, wkVars
  <2> QED BY <1>5, <1>7, <2>1, <2>2
<1>12. ASSUME NEW j \in SJob, CreateSmoke(j) PROVE (MessagesKnown /\ DispatchKnown)'
  <2>1. Holds(job', j)
    BY <1>9, <1>12 DEF CreateSmoke
  <2>2. /\ UNCHANGED <<queue, pc, wjob>>
        /\ \A m \in outgoing' : m \in outgoing \/ m.id = j
    BY <1>12 DEF CreateSmoke, wkVars
  <2> QED BY <1>5, <1>7, <2>1, <2>2
<1>13. \A r \in Recording : ~RequestRerun(r)
  BY DEF RequestRerun, TypeOK
<1>14. ASSUME NEW m \in outgoing, Dispatch(m) PROVE (MessagesKnown /\ DispatchKnown)'
  <2>1. m.key \in Keys /\ m.id \in MsgId /\ Holds(job', m.id)
    BY <1>3 DEF TypeOK, Message
  <2>2. Push(m.key, m.id)
    BY <1>14 DEF Dispatch
  <2>3. \A h \in Keys : \A i \in DOMAIN queue'[h] : Holds(job', queue'[h][i])
    BY <1>2, <2>1, <2>2, PushKnown
  <2>4. MessagesKnown'
    BY <1>3, <1>14, <2>3 DEF Dispatch, MessagesKnown
  <2> QED BY <1>7, <1>14, <2>4 DEF Dispatch, wkVars
<1>15. ASSUME NEW m \in outgoing, LoseDispatch(m) PROVE (MessagesKnown /\ DispatchKnown)'
  BY <1>5, <1>7, <1>15 DEF LoseDispatch, wkVars
<1>16. ASSUME NEW w \in Worker, NEW j, Start(w, j) PROVE DispatchKnown'
  BY <1>6, <1>16 DEF Start, TypeOK
<1>17. ASSUME NEW w \in Worker, Pop(w) PROVE (MessagesKnown /\ DispatchKnown)'
  <2>1. MessagesKnown'
    BY <1>2, <1>3, <1>17, PopKnown DEF Pop, MessagesKnown
  <2> QED BY <1>16, <1>17, <2>1 DEF Pop
<1>18. ASSUME NEW w \in Worker, NEW j \in Called, CallHandler(w, j)
       PROVE  (MessagesKnown /\ DispatchKnown)'
  BY <1>5, <1>16, <1>18 DEF CallHandler, netVars
<1>19. ASSUME NEW w \in Worker,
              NotClaimable(w) \/ MissingInput(w) \/ LeaseLost(w) \/ Fail(w)
                \/ CompleteEvaluation(w) \/ SmokeFinish(w) \/ RecoverCommit(w)
       PROVE  (MessagesKnown /\ DispatchKnown)'
  BY <1>5, <1>8, <1>19 DEF NotClaimable, MissingInput, LeaseLost, Fail,
     CompleteEvaluation, SmokeFinish, RecoverCommit, netVars
<1>20. ASSUME NEW w \in Worker,
              Claim(w) \/ Replay(w) \/ BeginTranscription(w) \/ SaveTranscript(w)
                \/ Evaluate(w) \/ SmokeLoad(w) \/ SmokeLease(w) \/ RecoverLoad(w)
       PROVE  (MessagesKnown /\ DispatchKnown)'
  <2>1. UNCHANGED netVars /\ UNCHANGED wjob /\ pc'[w] # "dispatch"
        /\ \A v \in Worker \ {w} : pc'[v] = pc[v]
    BY <1>20 DEF Claim, Replay, BeginTranscription, SaveTranscript, Evaluate, SmokeLoad,
       SmokeLease, RecoverLoad, TypeOK
  <2> QED BY <1>5, <1>6, <2>1 DEF netVars
<1>21. ASSUME NEW w \in Worker, CompleteTranscription(w)
       PROVE  (MessagesKnown /\ DispatchKnown)'
  <2>1. wjob[w] \in TJob /\ wjob' = wjob /\ UNCHANGED netVars
        /\ \A v \in Worker \ {w} : pc'[v] = pc[v]
    BY <1>21 DEF CompleteTranscription, TypeOK
  <2>2. job'[wjob[w]].status = "COMPLETED"
    <3>1. Completed(w).status = "COMPLETED"
      BY DEF TypeOK, Completed, Row
    <3>2. EJobOf[RecOf[wjob[w]]] # wjob[w]
      BY <2>1, JobSetsAssumption
    <3> QED BY <1>21, <2>1, <3>1, <3>2 DEF CompleteTranscription, TypeOK
  <2>3. Holds(job', EJobOf[RecOf[wjob[w]]])
    BY <2>1, <2>2 DEF JobInv, HandOffIsAtomic, Holds
  <2>4. DispatchKnown'
    BY <1>4, <2>1, <2>3 DEF DispatchKnown, Holds
  <2> QED BY <1>5, <2>1, <2>4 DEF netVars
<1>22. ASSUME NEW w \in Worker, DispatchEvaluation(w)
       PROVE  (MessagesKnown /\ DispatchKnown)'
  <2>1. /\ Push(QueueKey(EvaluateName), EJobOf[RecOf[wjob[w]]])
        /\ Holds(job', EJobOf[RecOf[wjob[w]]])
    BY <1>4, <1>22 DEF DispatchEvaluation
  <2>2. EJobOf[RecOf[wjob[w]]] \in MsgId
    BY <1>22 DEF DispatchEvaluation, Control, MsgId
  <2>3. \A h \in Keys : \A i \in DOMAIN queue'[h] : Holds(job', queue'[h][i])
    <3> DEFINE id == EJobOf[RecOf[wjob[w]]]
    <3>1. Push(QueueKey(EvaluateName), id) /\ id \in MsgId /\ id \in Job
      BY <2>1, <2>2, <1>22 DEF DispatchEvaluation, Control
    <3>2. job'[id].status # "ABSENT"
      BY <3>1, <1>22 DEF DispatchEvaluation, DispatchKnown, Holds, dbVars
    <3> HIDE DEF id
    <3>3. Holds(job', id)
      BY <3>1, <3>2 DEF Holds
    <3> QED BY <1>2, <3>1, <3>3, PushKnown
  <2>4. MessagesKnown'
    BY <1>3, <1>22, <2>3 DEF DispatchEvaluation, MessagesKnown
  <2> QED BY <1>8, <1>22, <2>4 DEF DispatchEvaluation
<1> QED
  BY <1>10, <1>11, <1>12, <1>13, <1>14, <1>15, <1>17, <1>18, <1>19, <1>20, <1>21, <1>22
     DEF Next, Step

\* Without the rerun endpoint, which dispatches ids of rows it never inserts,
\* a worker that pops a message always finds the row it names.
THEOREM MessagesNameRowsWithoutReruns ==
    ASSUME MaxReruns = 0
    PROVE  Spec => []MessagesNameRows
<1> DEFINE Inv == TypeOK /\ Control /\ JobInv /\ RetryBudget /\ StaleRetries
<1>1. Spec => []Inv
  BY RetryInvariant
<1>2. Init => MessagesKnown /\ DispatchKnown
  BY DEF Init, MessagesKnown, DispatchKnown
<1>3. Inv /\ Inv' /\ MessagesKnown /\ DispatchKnown /\ [Next]_vars
         => (MessagesKnown /\ DispatchKnown)'
  BY RetriesStep, MessagesStep
<1>4. Inv /\ MessagesKnown => MessagesNameRows
  BY KnownMessages
<1> QED
  BY <1>1, <1>2, <1>3, <1>4, PTL DEF Spec

---------------------------------------------------------------------------

\* What a completed transcription does to the tables.
LEMMA TranscriptionEffect ==
    ASSUME TypeOK, JobInv, Control, NEW w \in Worker, CompleteTranscription(w),
           NEW r, r = RecOf[wjob[w]]
    PROVE  /\ wjob[w] \in TJob /\ r \in Recording /\ UNCHANGED runs
           /\ \A i \in Job : i # wjob[w] /\ job[i].status # "ABSENT" => job'[i] = job[i]
           /\ \A e \in EJob : job'[e].status # "ABSENT"
                                 <=> job[e].status # "ABSENT" \/ e = EJobOf[r]
           /\ \A k \in TKey : transcript[k].rec # None => transcript'[k] = transcript[k]
           /\ \A k \in TKey : transcript'[k].rec # None
                                 <=> transcript[k].rec # None \/ k = TKeyOf[r]
<1> USE JobSets
<1>1. /\ wjob[w] \in TJob /\ r \in Recording /\ SavedFor(w) = r
      /\ EJobOf[r] \in EJob /\ TKeyOf[r] \in TKey /\ wjob[w] \notin EJob
      /\ UNCHANGED runs /\ pc[w] = "ready" /\ wjob[w] \in Job /\ EJobOf[r] \in Job
  BY JobSetsAssumption DEF CompleteTranscription, SavedFor
<1>2. /\ staged[w].tx = (transcript[TKeyOf[r]].rec = None)
      /\ staged[w].ev = (job[EJobOf[r]].status = "ABSENT")
  BY <1>1 DEF JobInv, StagedInserts
<1>3. \A i \in Job : i # wjob[w] /\ i # EJobOf[r] => job'[i] = job[i]
  BY <1>1 DEF CompleteTranscription, TypeOK
<1>4. job'[EJobOf[r]] = IF staged[w].ev THEN NewRow ELSE job[EJobOf[r]]
  BY <1>1 DEF CompleteTranscription, TypeOK
<1>5. NewRow.status = "QUEUED"
  BY DEF NewRow, Absent
<1>6. job[EJobOf[r]].status # "ABSENT" => job'[EJobOf[r]] = job[EJobOf[r]]
  BY <1>2, <1>4
<1>7. job'[EJobOf[r]].status # "ABSENT"
  BY <1>2, <1>4, <1>5
<1>8. \A k \in TKey : k # TKeyOf[r] => transcript'[k] = transcript[k]
  BY <1>1 DEF CompleteTranscription, TypeOK
<1>9. transcript[TKeyOf[r]].rec # None => transcript' = transcript
  BY <1>1, <1>2 DEF CompleteTranscription, SavedFor
<1>10. transcript[TKeyOf[r]].rec = None => transcript'[TKeyOf[r]].rec = r
  BY <1>1, <1>2 DEF CompleteTranscription, TypeOK
<1>11. transcript'[TKeyOf[r]].rec # None
  BY <1>1, <1>9, <1>10, JobSetsAssumption
<1> QED
  BY <1>1, <1>3, <1>6, <1>7, <1>8, <1>9, <1>11

\* What a completed evaluation does to the tables.
LEMMA EvaluationEffect ==
    ASSUME TypeOK, JobInv, Control, NEW w \in Worker, CompleteEvaluation(w)
    PROVE  /\ wjob[w] \in EJob /\ UNCHANGED transcript
           /\ job[wjob[w]].status = "QUEUED" /\ runs[wjob[w]] = 0
           /\ job'[wjob[w]].status = "COMPLETED"
           /\ \A i \in Job : i # wjob[w] => job'[i] = job[i]
           /\ runs' = [runs EXCEPT ![wjob[w]] = 1]
<1> USE JobSets
<1>1. /\ pc[w] = "ready" /\ InTxn(w) /\ wjob[w] \in EJob /\ wjob[w] \in Job
      /\ UNCHANGED transcript
  BY DEF CompleteEvaluation, InTxn
<1>2. job[wjob[w]].status = "QUEUED" /\ runs[wjob[w]] = 0
  BY <1>1 DEF JobInv, ClaimedRows, EvaluationCommittedOnce
<1>3. job'[wjob[w]] = Completed(w) /\ \A i \in Job : i # wjob[w] => job'[i] = job[i]
  BY <1>1 DEF CompleteEvaluation, TypeOK
<1>4. runs' = [runs EXCEPT ![wjob[w]] = 1]
  BY <1>2 DEF CompleteEvaluation
<1> QED
  BY <1>1, <1>2, <1>3, <1>4, CompletedRow

\* Every other step leaves the tables of the pipeline as they are, but for
\* the insertion of transcription and rerun jobs.
LEMMA OtherSteps ==
    ASSUME TypeOK, JobInv, Control, [Next]_vars,
           \A w \in Worker : ~CompleteTranscription(w) /\ ~CompleteEvaluation(w)
    PROVE  /\ UNCHANGED <<transcript, runs>>
           /\ \A j \in Leased : job'[j] = job[j] \/ (/\ j \notin EJob
                                                     /\ job[j].status = "ABSENT")
<1> USE JobSets
<1>1. ASSUME NEW j \in Job, job[j].status = "ABSENT", j \notin EJob,
             job' = [job EXCEPT ![j] = NewRow], UNCHANGED <<transcript, runs>>
      PROVE  /\ UNCHANGED <<transcript, runs>>
             /\ \A i \in Leased : job'[i] = job[i] \/ (/\ i \notin EJob
                                                       /\ job[i].status = "ABSENT")
  BY <1>1 DEF TypeOK
<1>2. ASSUME NEW j \in TJob, Ingest(j)
      PROVE  /\ UNCHANGED <<transcript, runs>>
             /\ \A i \in Leased : job'[i] = job[i] \/ (/\ i \notin EJob
                                                       /\ job[i].status = "ABSENT")
  BY <1>1, <1>2, JobSetsAssumption DEF Ingest
<1>3. ASSUME NEW j \in SJob, CreateSmoke(j)
      PROVE  /\ UNCHANGED <<transcript, runs>>
             /\ \A i \in Leased : job'[i] = job[i] \/ (/\ i \notin EJob
                                                       /\ job[i].status = "ABSENT")
  BY <1>1, <1>3, JobSetsAssumption DEF CreateSmoke
<1>4. ASSUME NEW r \in Recording, RequestRerun(r)
      PROVE  /\ UNCHANGED <<transcript, runs>>
             /\ \A i \in Leased : job'[i] = job[i] \/ (/\ i \notin EJob
                                                       /\ job[i].status = "ABSENT")
  BY <1>1, <1>4, JobSetsAssumption DEF RequestRerun
<1>5. ASSUME NEW w \in Worker,
             SmokeLease(w) \/ SmokeFinish(w) \/ RecoverCommit(w)
      PROVE  /\ UNCHANGED <<transcript, runs>>
             /\ \A j \in Leased : job'[j] = job[j]
  <2>1. \A j \in Leased : j \notin SJob
    BY JobSetsAssumption DEF Leased
  <2>2. CASE SmokeLease(w) \/ SmokeFinish(w)
    <3>1. wjob[w] \in SJob
      BY <2>2 DEF SmokeLease, SmokeFinish, Control
    <3> QED BY <2>1, <2>2, <3>1 DEF SmokeLease, SmokeFinish, TypeOK
  <2>3. CASE RecoverCommit(w)
    <3>1. \A s \in stale[w] : s.id \in SJob
      BY DEF JobInv, LeaseNeverVisible
    <3> QED BY <2>1, <2>3, <3>1 DEF RecoverCommit
  <2> QED BY <1>5, <2>2, <2>3
<1>6. ASSUME NEW w \in Worker,
             \/ Pop(w) \/ RecoverLoad(w) \/ Fail(w)
             \/ (\E j \in Called : CallHandler(w, j))
             \/ Claim(w) \/ NotClaimable(w) \/ Replay(w) \/ BeginTranscription(w)
             \/ SaveTranscript(w) \/ Evaluate(w) \/ MissingInput(w)
             \/ DispatchEvaluation(w) \/ LeaseLost(w) \/ SmokeLoad(w)
      PROVE  UNCHANGED dbVars
  BY <1>6 DEF Pop, RecoverLoad, Fail, CallHandler, Start, Claim, NotClaimable, Replay,
     BeginTranscription, SaveTranscript, Evaluate, MissingInput, DispatchEvaluation,
     LeaseLost, SmokeLoad
<1>7. ASSUME Tick \/ (\E m \in outgoing : Dispatch(m) \/ LoseDispatch(m)) \/ UNCHANGED vars
      PROVE  UNCHANGED dbVars
  BY <1>7 DEF Tick, Dispatch, LoseDispatch, vars, dbVars
<1> QED
  BY <1>2, <1>3, <1>4, <1>5, <1>6, <1>7 DEF Next, Step, dbVars

\* A finished job and a stored transcript never change again.
THEOREM Finality == Spec => ResultsAreFinal
<1> DEFINE Keeps == /\ \A j \in Leased : job[j].status = "COMPLETED" => job'[j] = job[j]
                    /\ \A k \in TKey : transcript[k].rec # None
                                           => transcript'[k] = transcript[k]
<1>1. TypeOK /\ Control /\ JobInv /\ [Next]_vars => Keeps
  <2> SUFFICES ASSUME TypeOK, Control, JobInv, [Next]_vars PROVE Keeps
    OBVIOUS
  <2> USE JobSets
  <2>1. ASSUME NEW w \in Worker, CompleteTranscription(w) PROVE Keeps
    <3>1. job[wjob[w]].status = "QUEUED"
      BY <2>1 DEF CompleteTranscription, JobInv, ClaimedRows, InTxn
    <3> QED BY <2>1, <3>1, TranscriptionEffect
  <2>2. ASSUME NEW w \in Worker, CompleteEvaluation(w) PROVE Keeps
    BY <2>2, EvaluationEffect
  <2>3. ASSUME \A w \in Worker : ~CompleteTranscription(w) /\ ~CompleteEvaluation(w)
        PROVE  Keeps
    BY <2>3, OtherSteps
  <2> QED BY <2>1, <2>2, <2>3
<1>2. TypeOK /\ Control /\ JobInv /\ [Next]_vars => [Keeps]_vars
  BY <1>1
<1> QED
  BY <1>2, Invariant, PTL DEF Spec, ResultsAreFinal

\* The engine implements PipelineStages: seen through its committed tables it
\* stores a transcript and schedules its evaluation in one step, and decides
\* a scheduled evaluation at most once.
THEOREM Refinement == Spec => ImplementsStages
<1> USE JobSets
<1>1. Init => Stages!Init
  BY DEF Init, Stages!Init, NoTranscript, Absent
<1>2. TypeOK /\ Control /\ JobInv /\ [Next]_vars
        => [Stages!Next]_<<{k \in TKey : transcript[k].rec # None},
                           {e \in EJob : job[e].status # "ABSENT"}, runs>>
  <2> SUFFICES ASSUME TypeOK, Control, JobInv, [Next]_vars
               PROVE  \/ Stages!Next
                      \/ /\ {k \in TKey : transcript[k].rec # None}'
                               = {k \in TKey : transcript[k].rec # None}
                         /\ {e \in EJob : job[e].status # "ABSENT"}'
                               = {e \in EJob : job[e].status # "ABSENT"}
                         /\ runs' = runs
    OBVIOUS
  <2>1. ASSUME NEW w \in Worker, CompleteTranscription(w)
        PROVE  Stages!Transcribe(RecOf[wjob[w]]) /\ RecOf[wjob[w]] \in Recording
    BY <2>1, TranscriptionEffect DEF Stages!Transcribe
  <2>2. ASSUME NEW w \in Worker, CompleteEvaluation(w)
        PROVE  Stages!Decide(wjob[w]) /\ wjob[w] \in EJob
    <3>1. \A e \in EJob : job'[e].status # "ABSENT" <=> job[e].status # "ABSENT"
      BY <2>2, EvaluationEffect
    <3> QED BY <2>2, <3>1, EvaluationEffect DEF Stages!Decide
  <2>3. ASSUME \A w \in Worker : ~CompleteTranscription(w) /\ ~CompleteEvaluation(w)
        PROVE  /\ {k \in TKey : transcript[k].rec # None}'
                     = {k \in TKey : transcript[k].rec # None}
               /\ {e \in EJob : job[e].status # "ABSENT"}'
                     = {e \in EJob : job[e].status # "ABSENT"}
               /\ runs' = runs
    BY <2>3, OtherSteps
  <2>4. ASSUME NEW w \in Worker, CompleteTranscription(w)
        PROVE  Stages!Next
    <3> DEFINE r == RecOf[wjob[w]]
    <3>1. r \in Recording /\ Stages!Transcribe(r)
      BY <2>1, <2>4
    <3> HIDE DEF r
    <3> QED BY <3>1 DEF Stages!Next, Stages!Transcribe
  <2>5. ASSUME NEW w \in Worker, CompleteEvaluation(w)
        PROVE  Stages!Next
    <3> DEFINE e == wjob[w]
    <3>1. e \in EJob /\ Stages!Decide(e)
      BY <2>2, <2>5
    <3> HIDE DEF e
    <3> QED BY <3>1 DEF Stages!Next, Stages!Decide
  <2>6. CASE \A w \in Worker : ~CompleteTranscription(w) /\ ~CompleteEvaluation(w)
    BY <2>3, <2>6, Zenon
  <2> QED BY <2>4, <2>5, <2>6, Zenon
<1> QED
  BY <1>1, <1>2, Invariant, PTL DEF Spec, ImplementsStages, Stages!Spec

=============================================================================
