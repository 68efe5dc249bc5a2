---------------------------- MODULE PipelineJobs ----------------------------
(***************************************************************************)
(* The durable job engine: rows of the pipeline_jobs table, the Redis list *)
(* queues that carry their ids, and the worker processes that pop an id,   *)
(* claim the row, do the work and commit the result behind a lease fence.  *)
(*                                                                         *)
(* The database is PostgreSQL at READ COMMITTED.  An UPDATE of a row that  *)
(* another open transaction has updated, and an INSERT of a unique key     *)
(* that another open transaction has inserted, block until it ends.  What  *)
(* a transaction wrote is in txn and staged until it commits; everything   *)
(* else below is committed state.                                          *)
(***************************************************************************)
EXTENDS Naturals, Sequences, FiniteSets

CONSTANTS
    Worker,          \* worker processes (event loops of apps/worker)
    WorkerId,        \* WorkerId[w]: "worker-{pid}", not unique across hosts
    Recording,       \* rows of recordings
    TKey,            \* transcription keys (audio hash and processor versions)
    TKeyOf,          \* TKeyOf[r]: the key the worker computes for recording r
    TJob,            \* transcription jobs
    RecOf,           \* RecOf[j]: recording_id of transcription job j
    EJob,            \* evaluation jobs created by the worker
    EJobOf,          \* EJobOf[r]: job whose key is {r}:EVALUATING:{t_key}:{config}
    RJob,            \* jobs created by the rerun endpoint
    RJobOf,          \* RJobOf[r]: job with the rerun key of r's transcript
    SJob,            \* smoke-test jobs
    Called,          \* jobs some caller runs directly, around the queue
    Phantom,         \* the id of a job that was never inserted
    None,
    LeaseDuration,   \* settings.worker_lease_duration_seconds
    MaxRetries,      \* RetryPolicy.max_retries
    MaxTime,         \* bound: the clock stops here
    MaxFaults,       \* bound: exceptions, crashes and lost dispatches
    MaxReruns        \* bound: rerun requests

ASSUME JobSetsAssumption ==
    /\ TJob \cap EJob = {} /\ TJob \cap RJob = {} /\ TJob \cap SJob = {}
    /\ EJob \cap RJob = {} /\ EJob \cap SJob = {} /\ RJob \cap SJob = {}
    /\ Phantom \notin TJob \cup EJob \cup RJob \cup SJob
    /\ None \notin TJob \cup EJob \cup RJob \cup SJob \cup Recording
    /\ Phantom # None

ASSUME LineageAssumption ==
    /\ RecOf \in [TJob -> Recording]
    /\ TKeyOf \in [Recording -> TKey]
    /\ EJobOf \in [Recording -> EJob]
    /\ RJobOf \in [Recording -> RJob]
    \* The key holds the recording id: two recordings never share a job.
    /\ \A r, s \in Recording : EJobOf[r] = EJobOf[s] => r = s
    /\ \A e \in EJob : \E r \in Recording : EJobOf[r] = e

ASSUME CallsAssumption == Called \subseteq TJob \cup EJob \cup RJob \cup SJob

ASSUME BoundsAssumption ==
    /\ LeaseDuration \in Nat \ {0}
    /\ MaxRetries \in Nat /\ MaxTime \in Nat
    /\ MaxFaults \in Nat /\ MaxReruns \in Nat

Job == TJob \cup EJob \cup RJob \cup SJob

\* Jobs run by execute_transcription_job and execute_evaluation_job, the two
\* handlers that claim with claim_job_lease_atomic.
Leased == TJob \cup EJob \cup RJob

VARIABLES
    now,         \* the clock the lease columns are compared with
    job,         \* job[j]: committed row of pipeline_jobs
    transcript,  \* transcript[k]: committed row of transcripts with key k
    runs,        \* runs[j]: committed evaluation runs, gate decisions and
                 \*          outbox events written by evaluation job j
    queue,       \* queue[k]: Redis list at key k
    outgoing,    \* messages whose rows an API request has committed and
                 \*          which it has yet to push
    pc,          \* pc[w]: where worker w is
    wjob,        \* wjob[w]: the job id worker w holds
    issued,      \* issued[w]: the "now" bound into the claim statement
    txn,         \* txn[w]: the row as w's transaction (or session) sees it
    gen,         \* gen[w]: active_generation
    staged,      \* staged[w]: uncommitted inserts of w's transaction
    stale,       \* stale[w]: rows recover_stale_jobs loaded
    faults,      \* faults so far
    reruns       \* rerun requests so far

dbVars   == <<job, transcript, runs>>
wkVars   == <<pc, wjob, issued, txn, gen, staged, stale>>
netVars  == <<queue, outgoing>>
ctlVars  == <<now, faults, reruns>>
vars     == <<now, job, transcript, runs, queue, outgoing, pc, wjob, issued,
              txn, gen, staged, stale, faults, reruns>>

---------------------------------------------------------------------------
(* Rows and messages *)

NULL == 0      \* no lease: a lease ends at LeaseDuration or later

Status == {"ABSENT", "QUEUED", "RUNNING", "COMPLETED", "DEAD_LETTER"}

Row == [status : Status, owner : {WorkerId[w] : w \in Worker} \cup {None},
        lease : Nat, gen : Nat, retry : Nat]

Absent == [status |-> "ABSENT", owner |-> None, lease |-> NULL,
           gen |-> 0, retry |-> 0]

\* PipelineJob.create
NewRow == [Absent EXCEPT !.status = "QUEUED"]

NoTranscript == [rec |-> None, available |-> FALSE]

NoInsert == [tx |-> FALSE, ev |-> FALSE, available |-> FALSE]

\* RedisQueueAdapter.enqueue pushes to f"queue:{job_name}".  A key is the
\* sequence of its colon-separated parts.
QueueKey(name) == <<"queue">> \o name

SmokeName == <<"smoke_job">>

\* Mutant: the caller passes the key where enqueue expects the name.
KeyAsTranscribeName == <<"queue", "transcription">>

TranscribeName == <<"transcription">>

\* tasks.py and evaluations.py
EvaluateName == <<"queue", "evaluation">>

\* The BLPOP list of the worker loop, in its order of priority.
WorkerKeys == << <<"queue", "smoke_job">>, <<"queue", "ingest_job">>,
                 <<"queue", "transcription">>, <<"queue", "evaluation">> >>

Keys == {WorkerKeys[i] : i \in DOMAIN WorkerKeys}
            \cup {QueueKey(SmokeName), QueueKey(TranscribeName),
                  QueueKey(EvaluateName)}

MsgId == Job \cup {Phantom}

Message == [key : Keys, id : MsgId]

Push(k, id) == queue' = [queue EXCEPT ![k] = Append(@, id)]

---------------------------------------------------------------------------
(* Workers *)

WorkerState == {"idle", "claiming", "claimed", "transcribing", "ready",
                "dispatch", "smoke_load", "smoke_lease", "smoke_run",
                "recovering"}

\* A handler that has updated the row of its job and not yet committed.
InTxn(w) == pc[w] \in {"claimed", "transcribing", "ready"}

\* Mutant: the claim reads the row and does not lock it.
NoRowLock(w, j) == TRUE

RowFree(w, j) ==
    \A v \in Worker \ {w} : ~(InTxn(v) /\ wjob[v] = j)

\* The recording a worker's job names; a rerun job names a transcript id.
Rec(j) == IF j \in TJob THEN RecOf[j]
          ELSE IF j \in EJob THEN CHOOSE r \in Recording : EJobOf[r] = j
          ELSE None

\* get_transcript_by_recording_id
HasTranscript(r) == \E k \in TKey : transcript[k].rec = r

HasAvailableTranscript(r) ==
    \E k \in TKey : transcript[k].rec = r /\ transcript[k].available

\* The worker returns to its loop; an open transaction is rolled back.
Reset(w) ==
    /\ pc'     = [pc EXCEPT ![w] = "idle"]
    /\ wjob'   = [wjob EXCEPT ![w] = None]
    /\ issued' = [issued EXCEPT ![w] = 0]
    /\ txn'    = [txn EXCEPT ![w] = Absent]
    /\ gen'    = [gen EXCEPT ![w] = 0]
    /\ staged' = [staged EXCEPT ![w] = NoInsert]
    /\ stale'  = [stale EXCEPT ![w] = {}]

Init ==
    /\ now = 1
    /\ job = [j \in Job |-> Absent]
    /\ transcript = [k \in TKey |-> NoTranscript]
    /\ runs = [j \in EJob |-> 0]
    /\ queue = [k \in Keys |-> <<>>]
    /\ outgoing = {}
    /\ pc = [w \in Worker |-> "idle"]
    /\ wjob = [w \in Worker |-> None]
    /\ issued = [w \in Worker |-> 0]
    /\ txn = [w \in Worker |-> Absent]
    /\ gen = [w \in Worker |-> 0]
    /\ staged = [w \in Worker |-> NoInsert]
    /\ stale = [w \in Worker |-> {}]
    /\ faults = 0
    /\ reruns = 0

---------------------------------------------------------------------------
(* API processes: ingestion, the smoke script, the rerun endpoint *)

\* Mutant: the job is dispatched before the commit.
DispatchBeforeCommit(j) ==
    /\ job[j].status = "ABSENT"
    /\ outgoing' = outgoing \cup {[key |-> QueueKey(TranscribeName), id |-> j]}
    /\ UNCHANGED <<dbVars, queue, wkVars, ctlVars>>

\* IngestionService.ingest commits a new transcription job, then dispatches.
Ingest(j) ==
    /\ job[j].status = "ABSENT"
    /\ job' = [job EXCEPT ![j] = NewRow]
    /\ outgoing' = outgoing \cup {[key |-> QueueKey(TranscribeName), id |-> j]}
    /\ UNCHANGED <<transcript, runs, queue, wkVars, ctlVars>>

\* The smoke script inserts its job, pushes it and also runs it itself.
CreateSmoke(j) ==
    /\ job[j].status = "ABSENT"
    /\ job' = [job EXCEPT ![j] = NewRow]
    /\ outgoing' = outgoing \cup {[key |-> QueueKey(SmokeName), id |-> j]}
    /\ UNCHANGED <<transcript, runs, queue, wkVars, ctlVars>>

\* POST /evaluations/{sale_id}/rerun.  The job's key is the same for every
\* request; when it is taken, the row found is discarded and the fresh id,
\* which names no row, is dispatched.
RequestRerun(r) ==
    /\ reruns < MaxReruns
    /\ runs[EJobOf[r]] > 0
    /\ reruns' = reruns + 1
    /\ \/ /\ job[RJobOf[r]].status = "ABSENT"
          /\ job' = [job EXCEPT ![RJobOf[r]] = NewRow]
          /\ outgoing' = outgoing \cup
                {[key |-> QueueKey(EvaluateName), id |-> RJobOf[r]]}
       \/ /\ job[RJobOf[r]].status # "ABSENT"
          /\ outgoing' = outgoing \cup
                {[key |-> QueueKey(EvaluateName), id |-> Phantom]}
          /\ UNCHANGED job
    /\ UNCHANGED <<transcript, runs, queue, wkVars, now, faults>>

Dispatch(m) ==
    /\ m \in outgoing
    /\ outgoing' = outgoing \ {m}
    /\ Push(m.key, m.id)
    /\ UNCHANGED <<dbVars, wkVars, ctlVars>>

\* Redis refuses the push (logged only) or the process dies before it.
LoseDispatch(m) ==
    /\ m \in outgoing
    /\ faults < MaxFaults
    /\ faults' = faults + 1
    /\ outgoing' = outgoing \ {m}
    /\ UNCHANGED <<dbVars, queue, wkVars, now, reruns>>

---------------------------------------------------------------------------
(* The worker loop *)

\* A handler is entered with job id j.
Start(w, j) ==
    /\ pc' = [pc EXCEPT ![w] = IF j \in SJob THEN "smoke_load" ELSE "claiming"]
    /\ wjob' = [wjob EXCEPT ![w] = j]
    /\ issued' = [issued EXCEPT ![w] = now]
    /\ UNCHANGED <<dbVars, txn, gen, staged, stale, ctlVars>>

\* BLPOP takes from the first list of the argument that is not empty; the
\* message is gone from Redis whatever becomes of the handler.
Pop(w) ==
    /\ pc[w] = "idle"
    /\ \E i \in DOMAIN WorkerKeys :
          /\ queue[WorkerKeys[i]] # <<>>
          /\ \A h \in 1..(i - 1) : queue[WorkerKeys[h]] = <<>>
          /\ queue' = [queue EXCEPT ![WorkerKeys[i]] = Tail(@)]
          /\ Start(w, Head(queue[WorkerKeys[i]]))
    /\ UNCHANGED outgoing

\* A handler is called directly, as the smoke script and the integration
\* tests do: the only way an evaluation job is started, and a redelivery.
CallHandler(w, j) ==
    /\ pc[w] = "idle"
    /\ job[j].status # "ABSENT"
    /\ Start(w, j)
    /\ UNCHANGED netVars

---------------------------------------------------------------------------
(* claim_job_lease_atomic *)

\* Mutant: terminal states are re-entered.
ClaimTerminal(w, j) ==
    /\ j \in Job
    /\ job[j].status # "ABSENT"
    /\ \/ job[j].lease = NULL
       \/ job[j].lease <= issued[w]

\* The WHERE clause, evaluated on the committed row once its lock is free,
\* with the "now" bound when the statement was issued.
Claimable(w, j) ==
    /\ j \in Job
    /\ job[j].status \notin {"ABSENT", "COMPLETED", "DEAD_LETTER"}
    /\ \/ job[j].lease = NULL
       \/ job[j].lease <= issued[w]

ClaimedRow(w) ==
    [job[wjob[w]] EXCEPT !.status = "RUNNING",
                         !.owner  = WorkerId[w],
                         !.lease  = issued[w] + LeaseDuration,
                         !.gen    = @ + 1]

\* Mutant: the claim is committed before the work begins.
CommitClaim(w) ==
    LET j == wjob[w] IN
    /\ pc[w] = "claiming"
    /\ RowFree(w, j)
    /\ Claimable(w, j)
    /\ job' = [job EXCEPT ![j] = ClaimedRow(w)]
    /\ txn' = [txn EXCEPT ![w] = ClaimedRow(w)]
    /\ gen' = [gen EXCEPT ![w] = job[j].gen + 1]
    /\ pc' = [pc EXCEPT ![w] = "claimed"]
    /\ UNCHANGED <<transcript, runs, netVars, wjob, issued, staged, stale,
                   ctlVars>>

Claim(w) ==
    LET j == wjob[w] IN
    /\ pc[w] = "claiming"
    /\ RowFree(w, j)
    /\ Claimable(w, j)
    /\ txn' = [txn EXCEPT ![w] = ClaimedRow(w)]
    /\ gen' = [gen EXCEPT ![w] = job[j].gen + 1]
    /\ pc' = [pc EXCEPT ![w] = "claimed"]
    /\ UNCHANGED <<dbVars, netVars, wjob, issued, staged, stale, ctlVars>>

\* No row matched: the handler logs and returns.
NotClaimable(w) ==
    /\ pc[w] = "claiming"
    /\ RowFree(w, wjob[w])
    /\ ~Claimable(w, wjob[w])
    /\ Reset(w)
    /\ UNCHANGED <<dbVars, netVars, ctlVars>>

---------------------------------------------------------------------------
(* execute_transcription_job after the claim *)

\* Replay: an AVAILABLE transcript of the recording is committed already.
Replay(w) ==
    LET j == wjob[w] IN
    /\ pc[w] = "claimed" /\ j \in TJob
    /\ HasAvailableTranscript(RecOf[j])
    /\ staged' = [staged EXCEPT ![w] =
          [NoInsert EXCEPT !.ev = job[EJobOf[RecOf[j]]].status = "ABSENT"]]
    /\ pc' = [pc EXCEPT ![w] = "ready"]
    /\ UNCHANGED <<dbVars, netVars, wjob, issued, txn, gen, stale, ctlVars>>

BeginTranscription(w) ==
    LET j == wjob[w] IN
    /\ pc[w] = "claimed" /\ j \in TJob
    /\ ~HasAvailableTranscript(RecOf[j])
    /\ pc' = [pc EXCEPT ![w] = "transcribing"]
    /\ UNCHANGED <<dbVars, netVars, wjob, issued, txn, gen, staged, stale,
                   ctlVars>>

\* Mutant: an evaluation job is created for a new transcript only.
InsertsTogether(r, a) ==
    LET new == transcript[TKeyOf[r]].rec = None
    IN  [tx |-> new, ev |-> new, available |-> a]

\* The transcript is inserted unless its key is taken, then the evaluation
\* job unless its key is taken.
Inserts(r, a) == [tx |-> transcript[TKeyOf[r]].rec = None,
                  ev |-> job[EJobOf[r]].status = "ABSENT",
                  available |-> a]

\* ASR is done.  An insert waits for another transaction that has the same
\* key inserted and not yet committed.
SaveTranscript(w) ==
    LET r == RecOf[wjob[w]] IN
    /\ pc[w] = "transcribing"
    /\ Inserts(r, TRUE).tx => \A v \in Worker \ {w} :
                   ~(staged[v].tx /\ TKeyOf[RecOf[wjob[v]]] = TKeyOf[r])
    /\ Inserts(r, TRUE).ev => \A v \in Worker \ {w} :
                   ~(staged[v].ev /\ RecOf[wjob[v]] = r)
    /\ \E a \in BOOLEAN :
          staged' = [staged EXCEPT ![w] = Inserts(r, a)]
    /\ pc' = [pc EXCEPT ![w] = "ready"]
    /\ UNCHANGED <<dbVars, netVars, wjob, issued, txn, gen, stale, ctlVars>>

---------------------------------------------------------------------------
(* execute_evaluation_job after the claim *)

\* Mutant: the transcript is not looked up.
EvaluateBlindly(w) ==
    /\ pc[w] = "claimed" /\ wjob[w] \in EJob
    /\ pc' = [pc EXCEPT ![w] = "ready"]
    /\ UNCHANGED <<dbVars, netVars, wjob, issued, txn, gen, staged, stale,
                   ctlVars>>

\* Recording and transcript are found and the orchestrator has run.
Evaluate(w) ==
    LET j == wjob[w] IN
    /\ pc[w] = "claimed" /\ j \in EJob
    /\ HasTranscript(Rec(j))
    /\ pc' = [pc EXCEPT ![w] = "ready"]
    /\ UNCHANGED <<dbVars, netVars, wjob, issued, txn, gen, staged, stale,
                   ctlVars>>

\* Recording or transcript is missing: return with no commit, so the claim
\* is rolled back and the job stays QUEUED with no message left for it.
MissingInput(w) ==
    LET j == wjob[w] IN
    /\ pc[w] = "claimed"
    /\ \/ j \in RJob
       \/ j \in EJob /\ ~HasTranscript(Rec(j))
    /\ Reset(w)
    /\ UNCHANGED <<dbVars, netVars, ctlVars>>

---------------------------------------------------------------------------
(* complete_job_with_lease_fence and commit *)

\* The UPDATE reads the transaction's own version of the row.
Fence(w) ==
    /\ txn[w].owner = WorkerId[w]
    /\ txn[w].gen = gen[w]
    /\ txn[w].status = "RUNNING"
    /\ txn[w].lease > now

\* Mutant: a status the table does not know.
CompletedAs(w) == [txn[w] EXCEPT !.status = "SUCCEEDED", !.lease = NULL]

Completed(w) == [txn[w] EXCEPT !.status = "COMPLETED", !.lease = NULL]

CompleteTranscription(w) ==
    LET j == wjob[w]
        r == RecOf[j]
    IN
    /\ pc[w] = "ready" /\ j \in TJob
    /\ Fence(w)
    /\ job' = [job EXCEPT ![j] = Completed(w),
                          ![EJobOf[r]] = IF staged[w].ev THEN NewRow ELSE @]
    /\ transcript' = IF staged[w].tx
                     THEN [transcript EXCEPT ![TKeyOf[r]] =
                             [rec |-> r, available |-> staged[w].available]]
                     ELSE transcript
    /\ staged' = [staged EXCEPT ![w] = NoInsert]
    /\ pc' = [pc EXCEPT ![w] = "dispatch"]
    /\ UNCHANGED <<runs, netVars, wjob, issued, txn, gen, stale, ctlVars>>

\* The evaluation message is pushed strictly after the commit.
DispatchEvaluation(w) ==
    /\ pc[w] = "dispatch"
    /\ Push(QueueKey(EvaluateName), EJobOf[RecOf[wjob[w]]])
    /\ Reset(w)
    /\ UNCHANGED <<dbVars, outgoing, ctlVars>>

\* Run, gate decision, audit and outbox event are committed with the row.
CompleteEvaluation(w) ==
    LET j == wjob[w] IN
    /\ pc[w] = "ready" /\ j \in EJob
    /\ Fence(w)
    /\ job' = [job EXCEPT ![j] = Completed(w)]
    /\ runs' = [runs EXCEPT ![j] = @ + 1]
    /\ Reset(w)
    /\ UNCHANGED <<transcript, netVars, ctlVars>>

\* Mutant: a lease that ends right now is neither held nor lost.
LeaseLostLate(w) ==
    /\ pc[w] = "ready"
    /\ txn[w].lease < now
    /\ Reset(w)
    /\ UNCHANGED <<dbVars, netVars, ctlVars>>

\* LeaseLostError: the transaction is rolled back and the message is gone.
LeaseLost(w) ==
    /\ pc[w] = "ready"
    /\ ~Fence(w)
    /\ Reset(w)
    /\ UNCHANGED <<dbVars, netVars, ctlVars>>

\* Any other exception in a handler, or the death of the process.
Fail(w) ==
    /\ pc[w] # "idle"
    /\ faults < MaxFaults
    /\ faults' = faults + 1
    /\ Reset(w)
    /\ UNCHANGED <<dbVars, netVars, now, reruns>>

---------------------------------------------------------------------------
(* execute_smoke_job: two commits, no claim and no fence *)

SmokeLoad(w) ==
    /\ pc[w] = "smoke_load"
    /\ job[wjob[w]].status # "ABSENT"
    /\ txn' = [txn EXCEPT ![w] = job[wjob[w]]]
    /\ pc' = [pc EXCEPT ![w] = "smoke_lease"]
    /\ UNCHANGED <<dbVars, netVars, wjob, issued, gen, staged, stale, ctlVars>>

\* acquire_lease on a domain object whose generation starts at 0 again.
SmokeRow(w) ==
    [txn[w] EXCEPT !.status = "RUNNING", !.owner = WorkerId[w],
                   !.lease = now + LeaseDuration, !.gen = 1]

\* The ORM writes the columns that differ from the values it loaded; the
\* others keep what the table holds by now.
Dirty(new, loaded, current) == IF new # loaded THEN new ELSE current

Flush(loaded, new, current) ==
    [status |-> Dirty(new.status, loaded.status, current.status),
     owner  |-> Dirty(new.owner, loaded.owner, current.owner),
     lease  |-> Dirty(new.lease, loaded.lease, current.lease),
     gen    |-> Dirty(new.gen, loaded.gen, current.gen),
     retry  |-> Dirty(new.retry, loaded.retry, current.retry)]

SmokeLease(w) ==
    LET j == wjob[w] IN
    /\ pc[w] = "smoke_lease"
    /\ job' = [job EXCEPT ![j] = Flush(txn[w], SmokeRow(w), @)]
    /\ txn' = [txn EXCEPT ![w] = SmokeRow(w)]
    /\ pc' = [pc EXCEPT ![w] = "smoke_run"]
    /\ UNCHANGED <<transcript, runs, netVars, wjob, issued, gen, staged,
                   stale, ctlVars>>

SmokeFinish(w) ==
    LET j == wjob[w] IN
    /\ pc[w] = "smoke_run"
    /\ job' = [job EXCEPT ![j] = Flush(txn[w], Completed(w), @)]
    /\ Reset(w)
    /\ UNCHANGED <<transcript, runs, netVars, ctlVars>>

---------------------------------------------------------------------------
(* recover_stale_jobs *)

RecoverLoad(w) ==
    LET found == {j \in Job : /\ job[j].status = "RUNNING"
                              /\ job[j].lease # NULL
                              /\ job[j].lease < now}
    IN
    /\ pc[w] = "idle"
    /\ found # {}
    /\ stale' = [stale EXCEPT ![w] = {[id |-> j, row |-> job[j]] : j \in found}]
    /\ pc' = [pc EXCEPT ![w] = "recovering"]
    /\ UNCHANGED <<dbVars, netVars, wjob, issued, txn, gen, staged, ctlVars>>

\* Mutant: one retry too many.
RecoveredOnceMore(row) ==
    IF row.retry <= MaxRetries
    THEN [row EXCEPT !.retry = @ + 1, !.status = "QUEUED", !.lease = NULL]
    ELSE [row EXCEPT !.status = "DEAD_LETTER", !.lease = NULL]

Recovered(row) ==
    IF row.retry < MaxRetries
    THEN [row EXCEPT !.retry = @ + 1, !.status = "QUEUED", !.lease = NULL]
    ELSE [row EXCEPT !.status = "DEAD_LETTER", !.lease = NULL]

\* One commit for all rows; nothing is pushed to Redis.
RecoverCommit(w) ==
    /\ pc[w] = "recovering"
    /\ \A s \in stale[w] : RowFree(w, s.id)
    /\ job' = [j \in Job |->
                 IF \E s \in stale[w] : s.id = j
                 THEN LET s == CHOOSE s \in stale[w] : s.id = j
                      IN  Flush(s.row, Recovered(s.row), job[j])
                 ELSE job[j]]
    /\ Reset(w)
    /\ UNCHANGED <<transcript, runs, netVars, ctlVars>>

---------------------------------------------------------------------------

Tick ==
    /\ now < MaxTime
    /\ now' = now + 1
    /\ UNCHANGED <<dbVars, netVars, wkVars, faults, reruns>>

\* One step of worker w other than taking new work.
Step(w) ==
    \/ Claim(w) \/ NotClaimable(w)
    \/ Replay(w) \/ BeginTranscription(w) \/ SaveTranscript(w)
    \/ Evaluate(w) \/ MissingInput(w)
    \/ CompleteTranscription(w) \/ DispatchEvaluation(w)
    \/ CompleteEvaluation(w) \/ LeaseLost(w)
    \/ SmokeLoad(w) \/ SmokeLease(w) \/ SmokeFinish(w)
    \/ RecoverCommit(w)

Next ==
    \/ Tick
    \/ \E j \in TJob : Ingest(j)
    \/ \E j \in SJob : CreateSmoke(j)
    \/ \E r \in Recording : RequestRerun(r)
    \/ \E m \in outgoing : Dispatch(m) \/ LoseDispatch(m)
    \/ \E w \in Worker :
          \/ Pop(w) \/ RecoverLoad(w) \/ Fail(w)
          \/ \E j \in Called : CallHandler(w, j)
          \/ Step(w)

Spec == Init /\ [][Next]_vars

\* The worker loop never stops popping, every statement it issues is
\* answered, and an API request that has committed goes on to its push.
\* A direct call runs in a process of its own and does not keep the loop from
\* its next pop: hence the strong fairness of Pop.
\* Recovery runs every tenth cycle of the loop.  Requests, direct calls,
\* faults and the clock owe nothing.
Fairness ==
    /\ \A w \in Worker : SF_vars(Pop(w)) /\ WF_vars(Step(w))
                         /\ WF_vars(RecoverLoad(w))
    /\ WF_vars(\E m \in outgoing : Dispatch(m))

FairSpec == Spec /\ Fairness

---------------------------------------------------------------------------
(* Properties *)

\* Type invariant of the job engine.
TypeOK ==
    /\ now \in Nat /\ faults \in Nat /\ reruns \in Nat
    /\ job \in [Job -> Row]
    /\ transcript \in [TKey -> [rec : Recording \cup {None}, available : BOOLEAN]]
    /\ runs \in [EJob -> Nat]
    /\ queue \in [Keys -> Seq(MsgId)]
    /\ outgoing \subseteq Message
    /\ pc \in [Worker -> WorkerState]
    /\ wjob \in [Worker -> MsgId \cup {None}]
    /\ issued \in [Worker -> Nat]
    /\ txn \in [Worker -> Row]
    /\ gen \in [Worker -> Nat]
    /\ staged \in [Worker -> [tx : BOOLEAN, ev : BOOLEAN, available : BOOLEAN]]
    /\ stale \in [Worker -> SUBSET [id : Job, row : Row]]

\* A sale is decided once per evaluation job: however often the job is
\* delivered, claimed by rival workers, aborted or finished late, the run,
\* gate decision and outbox event are committed exactly when the row turns
\* COMPLETED (execute_evaluation_job, steps 1 to 9).
EvaluationCommittedOnce ==
    \A e \in EJob : runs[e] = IF job[e].status = "COMPLETED" THEN 1 ELSE 0

\* The hand-off is one transaction: a transcription job is COMPLETED only
\* with a transcript under its key and an evaluation job for its recording
\* (execute_transcription_job, steps 12 to 16).
HandOffIsAtomic ==
    \A t \in TJob :
        job[t].status = "COMPLETED" =>
            /\ transcript[TKeyOf[RecOf[t]]].rec # None
            /\ job[EJobOf[RecOf[t]]].status # "ABSENT"

\* No decision without the recording's own transcript.
DecisionsHaveTranscripts ==
    \A e \in EJob : runs[e] > 0 => HasTranscript(Rec(e))

\* The claim and the result are one transaction, so no other session ever
\* sees a pipeline job RUNNING or leased: the row is QUEUED at generation 0
\* until it is COMPLETED at generation 1, and recover_stale_jobs, which
\* looks for RUNNING rows, never has one of these jobs to reclaim.
LeaseNeverVisible ==
    /\ \A j \in Leased :
          /\ job[j].status \in {"ABSENT", "QUEUED", "COMPLETED"}
          /\ job[j].lease = NULL /\ job[j].retry = 0
          /\ job[j].gen = IF job[j].status = "COMPLETED" THEN 1 ELSE 0
    /\ \A w \in Worker : \A s \in stale[w] : s.id \in SJob

\* Messages are pushed strictly after the commit that inserts the row they
\* name, so a worker that pops one always finds the row.
MessagesNameRows ==
    LET named == {m.id : m \in outgoing}
                   \cup UNION {{queue[k][i] : i \in DOMAIN queue[k]} : k \in Keys}
    IN  \A id \in named : id \in Job /\ job[id].status # "ABSENT"

\* A finished pipeline job is never re-entered and a stored transcript is
\* never replaced, whatever is redelivered and whoever races.
ResultsAreFinal ==
    [][/\ \A j \in Leased : job[j].status = "COMPLETED" => job'[j] = job[j]
       /\ \A k \in TKey : transcript[k].rec # None
                              => transcript'[k] = transcript[k]]_vars

\* Row locks and unique keys never leave two workers waiting on each other:
\* a worker that took a job comes back for the next one.
WorkerReturns == \A w \in Worker : pc[w] # "idle" ~> pc[w] = "idle"

\* With no fault and leases that outlast the work, every ingested recording
\* is transcribed.
TranscriptionFinishes ==
    [](faults = 0 /\ now < LeaseDuration) =>
        \A t \in TJob : job[t].status # "ABSENT" ~> job[t].status = "COMPLETED"

\* The transcription handler dispatches the evaluation of what it has
\* transcribed, and the decision follows.
EvaluationReached ==
    \A t \in TJob :
        job[t].status = "COMPLETED" ~> runs[EJobOf[RecOf[t]]] > 0

\* A job that meets a transient failure is retried: it does not stay QUEUED.
FailedJobIsRetried ==
    \A t \in TJob :
        job[t].status = "QUEUED" ~> job[t].status \in {"COMPLETED", "DEAD_LETTER"}

\* Recovery writes back what it read before, without a lock, while other
\* workers lease, finish and recover the same row.  What it overwrites may
\* lose a retry, but never goes past the budget, and a job that was never
\* retried is not dead-lettered.
RetryBudget ==
    \A j \in Job :
        /\ job[j].retry <= MaxRetries
        /\ job[j].status = "DEAD_LETTER" /\ MaxRetries > 0 => job[j].retry > 0

\* The stages seen through the committed tables.
Stages == INSTANCE PipelineStages WITH
    stored    <- {k \in TKey : transcript[k].rec # None},
    scheduled <- {e \in EJob : job[e].status # "ABSENT"},
    decisions <- runs

\* The engine implements the stages: no interleaving, fault or redelivery
\* shows the database a step that PipelineStages does not allow.
ImplementsStages == Stages!Spec

---------------------------------------------------------------------------
(* The inductive invariant behind the safety properties *)

\* A row locked by one open transaction is locked by no other.
RowsLocked ==
    \A v, w \in Worker :
        v # w /\ InTxn(v) /\ InTxn(w) => wjob[v] # wjob[w]

\* A claimed row is QUEUED at generation 0 in the table, and RUNNING at
\* generation 1 for its transaction alone.
ClaimedRows ==
    \A w \in Worker :
        InTxn(w) => /\ job[wjob[w]].status = "QUEUED"
                    /\ txn[w].gen = 1 /\ txn[w].retry = 0

SavedFor(w) == RecOf[wjob[w]]

\* What a transaction has inserted is in no table yet and in no other
\* transaction, and what it found there already still is.
StagedInserts ==
    /\ \A w \in Worker :
          /\ pc[w] # "ready" \/ wjob[w] \in EJob => staged[w] = NoInsert
          /\ pc[w] = "ready" /\ wjob[w] \in TJob =>
               /\ staged[w].tx = (transcript[TKeyOf[SavedFor(w)]].rec = None)
               /\ staged[w].ev = (job[EJobOf[SavedFor(w)]].status = "ABSENT")
    /\ \A v, w \in Worker : v # w =>
          /\ staged[v].tx /\ staged[w].tx
               => TKeyOf[SavedFor(v)] # TKeyOf[SavedFor(w)]
          /\ staged[v].ev /\ staged[w].ev => SavedFor(v) # SavedFor(w)

\* A transcript lies under its recording's key, next to the evaluation job.
TranscriptLineage ==
    \A k \in TKey : \A r \in Recording :
        transcript[k].rec = r =>
            k = TKeyOf[r] /\ job[EJobOf[r]].status # "ABSENT"

\* An evaluation about to commit has its transcript.
ReadyEvaluations ==
    \A w \in Worker :
        pc[w] = "ready" /\ wjob[w] \in EJob => HasTranscript(Rec(wjob[w]))

\* A row that recovery holds is within the budget, and the table has not
\* forgotten that it was retried.
StaleRetries ==
    \A w \in Worker : \A s \in stale[w] :
        /\ s.row.retry <= MaxRetries
        /\ job[s.id].status # "ABSENT"
        /\ s.row.retry > 0 => job[s.id].retry > 0

JobInv ==
    /\ RowsLocked /\ ClaimedRows /\ StagedInserts
    /\ TranscriptLineage /\ ReadyEvaluations
    /\ LeaseNeverVisible /\ EvaluationCommittedOnce
    /\ HandOffIsAtomic /\ DecisionsHaveTranscripts

=============================================================================
