------------------------------ MODULE Ingestion ------------------------------
(***************************************************************************)
(* IngestionService.ingest_uploaded_audio: every upload runs in one        *)
(* database transaction of its own and stores the audio in the object      *)
(* store, which takes no part in that transaction.  The inserts are        *)
(* idempotent: a row under a unique key is taken over when it is           *)
(* committed, waited for while another transaction has it open, and        *)
(* inserted in a savepoint otherwise.                                      *)
(*                                                                         *)
(* A row is named by the upload that inserts it.  The worker's             *)
(* AudioMaterializer reads the stored objects back.                        *)
(***************************************************************************)
EXTENDS Integers, FiniteSets

CONSTANTS
    Request,     \* calls of the two endpoints
    Dialler,     \* dialler call ids
    Hash,        \* SHA-256 of the audio
    DiallerOf,   \* DiallerOf[r], HashOf[r]: what request r uploads
    HashOf,
    None,
    MaxFaults    \* bound: failed requests and damaged objects

ASSUME RequestAssumption ==
    /\ DiallerOf \in [Request -> Dialler]
    /\ HashOf \in [Request -> Hash]
    /\ None \notin Request \cup Hash
    /\ None \notin [id : Request, artifact : Request]   \* no row is None
    /\ "refused" \notin Request

ASSUME FaultAssumption == MaxFaults \in Nat

VARIABLES
    pc,          \* pc[r]: what request r does next
    artifactOf,  \* artifactOf[r]: the artifact r resolved, or None
    copy,        \* copy[r]: is_content_duplicate
    open,        \* open[r]: the rows r has inserted and not committed
    answer,      \* answer[r]: the response
    artifacts,   \* artifacts[h]: committed row with content_hash h, or None
    recordings,  \* recordings[d]: committed row with dialler_call_id d
    jobs,        \* jobs[h]: committed job with the key transcription:h:version
    audits,      \* committed INGESTED events
    pushed,      \* pushed[r]: messages for the job of r
    objects,     \* objects[h]: what the object store has under the key of h
    reader,      \* reader[h]: the materializer of the artifact of h
    damaged,     \* hashes whose object was damaged after its upload
    faults       \* faults so far

reqVars == <<pc, artifactOf, copy, open, answer>>
rowVars == <<artifacts, recordings, jobs, audits>>
vars    == <<pc, artifactOf, copy, open, answer, artifacts, recordings, jobs,
             audits, pushed, objects, reader, damaged, faults>>

Kind == {"artifact", "recording", "job"}

Stage == {"new", "dialler", "buffer", "lookup", "object", "upload", "artifact",
          "recording", "job", "commit", "dispatch", "done"}

Content == {"gone", "empty", "altered", "intact"}

Answer == [recording : Request, artifact : Request, hash : Hash,
           duplicate : BOOLEAN, job : Request \cup {None}]

Recording == [id : Request, artifact : Request]

NoAnswer == [recording |-> None]
Refused  == [recording |-> "refused"]

\* The recording under r's dialler id, the artifact and job of r's audio.
Recorded(r) == recordings[DiallerOf[r]]

Init ==
    /\ pc = [r \in Request |-> "new"]
    /\ artifactOf = [r \in Request |-> None]
    /\ copy = [r \in Request |-> FALSE]
    /\ open = [r \in Request |-> {}]
    /\ answer = [r \in Request |-> NoAnswer]
    /\ artifacts = [h \in Hash |-> None]
    /\ recordings = [d \in Dialler |-> None]
    /\ jobs = [h \in Hash |-> None]
    /\ audits = {}
    /\ pushed = [r \in Request |-> 0]
    /\ objects = [h \in Hash |-> "gone"]
    /\ reader = [h \in Hash |-> "idle"]
    /\ damaged = {}
    /\ faults = 0

---------------------------------------------------------------------------
(* The steps of a request *)

At(r, here) == pc[r] = here

Goto(r, there) == pc' = [pc EXCEPT ![r] = there]

\* Mutant: the session of a request that is answered stays open.
RespondOpen(r, response) ==
    /\ Goto(r, "done")
    /\ answer' = [answer EXCEPT ![r] = response]
    /\ UNCHANGED open

\* The response, after which the session is closed: what the transaction has
\* not committed is rolled back.
Respond(r, response) ==
    /\ Goto(r, "done")
    /\ answer' = [answer EXCEPT ![r] = response]
    /\ open' = [open EXCEPT ![r] = {}]

\* 422 and 404: an unparsable date, an unknown sale, an empty, oversized,
\* truncated or too short file, a pre-staged object that is not there.
Refuse(r) ==
    /\ Respond(r, Refused)
    /\ UNCHANGED <<artifactOf, copy, rowVars, pushed, objects, reader, damaged,
                   faults>>

Proceed(r, there) ==
    /\ Goto(r, there)
    /\ UNCHANGED <<artifactOf, copy, open, answer, rowVars, pushed, objects,
                   reader, damaged, faults>>

\* The endpoints, /ingest with its look for the pre-staged object, and
\* _verify_sale_exists.
Begin(r) ==
    /\ At(r, "new")
    /\ Proceed(r, "dialler") \/ Refuse(r)

\* _check_dialler_call_id
CheckDialler(r) ==
    /\ At(r, "dialler")
    /\ IF Recorded(r) = None THEN Proceed(r, "buffer")
       ELSE /\ Respond(r, [recording |-> Recorded(r).id,
                           artifact  |-> Recorded(r).artifact,
                           hash      |-> HashOf[Recorded(r).artifact],
                           duplicate |-> TRUE, job |-> None])
            /\ UNCHANGED <<artifactOf, copy, rowVars, pushed, objects, reader,
                           damaged, faults>>

\* _buffer_and_inspect_audio
Buffer(r) ==
    /\ At(r, "buffer")
    /\ Proceed(r, "lookup") \/ Refuse(r)

\* _resolve_artifact: the hash is looked up first ...
LookUpArtifact(r) ==
    LET row == artifacts[HashOf[r]] IN
    /\ At(r, "lookup")
    /\ IF row = None THEN Proceed(r, "object")
       ELSE /\ Goto(r, "recording")
            /\ artifactOf' = [artifactOf EXCEPT ![r] = row]
            /\ copy' = [copy EXCEPT ![r] = TRUE]
            /\ UNCHANGED <<open, answer, rowVars, pushed, objects, reader,
                           damaged, faults>>

\* Mutant: the artifact is inserted first, the object is stored if it is new.
UploadLater(r) ==
    /\ At(r, "object")
    /\ Proceed(r, "artifact")

\* ... the object is uploaded unless its key exists, whatever it holds, ...
CheckObject(r) ==
    /\ At(r, "object")
    /\ Proceed(r, IF objects[HashOf[r]] = "gone" THEN "upload" ELSE "artifact")

UploadFile(r) ==
    /\ At(r, "upload")
    /\ Goto(r, "artifact")
    /\ objects' = [objects EXCEPT ![HashOf[r]] = "intact"]
    /\ damaged' = damaged \ {HashOf[r]}
    /\ UNCHANGED <<artifactOf, copy, open, answer, rowVars, pushed, reader,
                   faults>>

\* Another transaction has inserted the row of r's key and is still open.
Blocked(r, kind) ==
    \E q \in Request \ {r} :
        /\ kind \in open[q]
        /\ IF kind = "recording" THEN DiallerOf[q] = DiallerOf[r]
                                 ELSE HashOf[q] = HashOf[r]

Insert(r, kind) == open' = [open EXCEPT ![r] = @ \cup {kind}]

\* ... and save_artifact_idempotent.
SaveArtifact(r) ==
    LET row == artifacts[HashOf[r]] IN
    /\ At(r, "artifact")
    /\ ~Blocked(r, "artifact")
    /\ Goto(r, "recording")
    /\ artifactOf' = [artifactOf EXCEPT ![r] = IF row = None THEN r ELSE row]
    /\ copy' = [copy EXCEPT ![r] = row # None]
    /\ IF row = None THEN Insert(r, "artifact") ELSE UNCHANGED open
    /\ UNCHANGED <<answer, rowVars, pushed, objects, reader, damaged, faults>>

\* Mutant: the winner's recording is read without waiting for its commit.
TakeRecordingUnlocked(r) ==
    /\ At(r, "recording")
    /\ Goto(r, "job")
    /\ Insert(r, "recording")
    /\ UNCHANGED <<artifactOf, copy, answer, rowVars, pushed, objects, reader,
                   damaged, faults>>

\* _save_recording.  A duplicate is answered with the recording that won and
\* the hash of the file that lost, and nothing is committed.
SaveRecording(r) ==
    /\ At(r, "recording")
    /\ ~Blocked(r, "recording")
    /\ IF Recorded(r) = None
       THEN /\ Goto(r, "job")
            /\ Insert(r, "recording")
            /\ UNCHANGED answer
       ELSE Respond(r, [recording |-> Recorded(r).id,
                        artifact  |-> Recorded(r).artifact,
                        hash      |-> HashOf[r],
                        duplicate |-> TRUE, job |-> None])
    /\ UNCHANGED <<artifactOf, copy, rowVars, pushed, objects, reader, damaged,
                   faults>>

\* _resolve_transcription_job
ResolveJob(r) ==
    /\ At(r, "job")
    /\ ~Blocked(r, "job")
    /\ Goto(r, "commit")
    /\ IF jobs[HashOf[r]] = None THEN Insert(r, "job") ELSE UNCHANGED open
    /\ UNCHANGED <<artifactOf, copy, answer, rowVars, pushed, objects, reader,
                   damaged, faults>>

JobOf(r) == IF "job" \in open[r] THEN r ELSE jobs[HashOf[r]]

Accepted(r) == [recording |-> r, artifact |-> artifactOf[r],
                hash |-> HashOf[r], duplicate |-> FALSE, job |-> JobOf(r)]

\* Mutant: the job is committed by a transaction of its own, after the rest.
CommitWithoutJob(r) ==
    /\ At(r, "commit")
    /\ artifacts' = [h \in Hash |-> IF "artifact" \in open[r] /\ h = HashOf[r]
                                    THEN r ELSE artifacts[h]]
    /\ recordings' = [recordings EXCEPT
                        ![DiallerOf[r]] = [id |-> r, artifact |-> artifactOf[r]]]
    /\ audits' = audits \cup {[recording |-> r, artifact |-> artifactOf[r],
                               copy |-> copy[r], job |-> JobOf(r)]}
    /\ open' = [open EXCEPT ![r] = @ \cap {"job"}]
    /\ IF "job" \in open[r]
       THEN Goto(r, "dispatch") /\ UNCHANGED answer
       ELSE Respond(r, Accepted(r))
    /\ UNCHANGED <<artifactOf, copy, jobs, pushed, objects, reader, damaged,
                   faults>>

\* _record_audit_event and commit.
Commit(r) ==
    /\ At(r, "commit")
    /\ artifacts' = [h \in Hash |-> IF "artifact" \in open[r] /\ h = HashOf[r]
                                    THEN r ELSE artifacts[h]]
    /\ recordings' = [recordings EXCEPT
                        ![DiallerOf[r]] = [id |-> r, artifact |-> artifactOf[r]]]
    /\ jobs' = [h \in Hash |-> IF "job" \in open[r] /\ h = HashOf[r]
                               THEN r ELSE jobs[h]]
    /\ audits' = audits \cup {[recording |-> r, artifact |-> artifactOf[r],
                               copy |-> copy[r], job |-> JobOf(r)]}
    /\ open' = [open EXCEPT ![r] = {}]
    /\ IF "job" \in open[r]
       THEN Goto(r, "dispatch") /\ UNCHANGED answer
       ELSE Goto(r, "done") /\ answer' = [answer EXCEPT ![r] = Accepted(r)]
    /\ UNCHANGED <<artifactOf, copy, pushed, objects, reader, damaged, faults>>

\* _dispatch_to_queue: an exception of the queue is only logged.
Dispatch(r) ==
    /\ At(r, "dispatch")
    /\ Respond(r, Accepted(r))
    /\ \/ pushed' = [pushed EXCEPT ![r] = @ + 1]
       \/ UNCHANGED pushed
    /\ UNCHANGED <<artifactOf, copy, rowVars, objects, reader, damaged, faults>>

\* An exception, a lost connection or the end of the process: no response.
Abort(r) ==
    /\ pc[r] \notin {"new", "done"}
    /\ faults < MaxFaults
    /\ faults' = faults + 1
    /\ Respond(r, NoAnswer)
    /\ UNCHANGED <<artifactOf, copy, rowVars, pushed, objects, reader, damaged>>

---------------------------------------------------------------------------
(* The object store and its reader *)

\* The store loses or spoils an object (external).
Damage(h) ==
    /\ objects[h] # "gone"
    /\ faults < MaxFaults
    /\ faults' = faults + 1
    /\ \E c \in Content \ {"intact"} : objects' = [objects EXCEPT ![h] = c]
    /\ damaged' = damaged \cup {h}
    /\ UNCHANGED <<reqVars, rowVars, pushed, reader>>

Read(h, result) ==
    /\ reader' = [reader EXCEPT ![h] = result]
    /\ UNCHANGED <<reqVars, rowVars, pushed, objects, damaged, faults>>

\* materialize: object_exists for the artifact of a job, ...
FindObject(h) ==
    /\ reader[h] \in {"idle", "rejected"}
    /\ jobs[h] # None
    /\ Read(h, IF objects[h] = "gone" THEN "rejected" ELSE "found")

\* ... then the download and the checks of its size and hash.
VerifyObject(h) ==
    /\ reader[h] = "found"
    /\ Read(h, IF objects[h] = "intact" THEN "intact" ELSE "rejected")

---------------------------------------------------------------------------

Step(r) ==
    \/ CheckDialler(r)
    \/ Buffer(r)
    \/ LookUpArtifact(r)
    \/ CheckObject(r)
    \/ UploadFile(r)
    \/ SaveArtifact(r)
    \/ SaveRecording(r)
    \/ ResolveJob(r)
    \/ Commit(r)
    \/ Dispatch(r)

Next ==
    \/ \E r \in Request : Begin(r) \/ Step(r) \/ Abort(r)
    \/ \E h \in Hash : Damage(h) \/ FindObject(h) \/ VerifyObject(h)

Spec == Init /\ [][Next]_vars

\* The event loop runs the handlers of the requests it has accepted.
Fairness == \A r \in Request : WF_vars(Step(r))

FairSpec == Spec /\ Fairness

---------------------------------------------------------------------------
(* Properties *)

\* Types of the columns, the stages and the answers.
TypeOK ==
    /\ pc \in [Request -> Stage]
    /\ artifactOf \in [Request -> Request \cup {None}]
    /\ copy \in [Request -> BOOLEAN]
    /\ open \in [Request -> SUBSET Kind]
    /\ answer \in [Request -> Answer \cup {NoAnswer, Refused}]
    /\ artifacts \in [Hash -> Request \cup {None}]
    /\ recordings \in [Dialler -> Recording \cup {None}]
    /\ jobs \in [Hash -> Request \cup {None}]
    /\ audits \subseteq [recording : Request, artifact : Request,
                         copy : BOOLEAN, job : Request \cup {None}]
    /\ pushed \in [Request -> Nat]
    /\ objects \in [Hash -> Content]
    /\ reader \in [Hash -> {"idle", "found", "rejected"} \cup Content]
    /\ damaged \subseteq Hash
    /\ faults \in 0..MaxFaults

\* The audio is stored before its row: wherever uploads race or fail, an
\* artifact that is committed, or about to be, has its object unless the store
\* damaged it.
ArtifactsStored ==
    \A h \in Hash \ damaged :
        (artifacts[h] # None
            \/ \E r \in Request : HashOf[r] = h /\ "artifact" \in open[r])
        => objects[h] = "intact"

\* A recording becomes visible with everything it needs: the artifact of the
\* audio that was uploaded, a job under the audio's key, one audit event that
\* names them.
RecordingsComplete ==
    \A d \in Dialler : recordings[d] # None =>
        LET id == recordings[d].id
            h  == HashOf[id]
        IN  /\ DiallerOf[id] = d
            /\ artifacts[h] # None /\ artifacts[h] = recordings[d].artifact
            /\ jobs[h] # None
            /\ \E e \in audits :
                  /\ e.recording = id
                  /\ e.artifact = artifacts[h] /\ e.job = jobs[h]
                  /\ \A f \in audits : f.recording = id => f = e

\* Losers of a race and failed requests leave no rows: an artifact or job
\* that is committed belongs to a recording that is.
NoLooseRows ==
    \A h \in Hash :
        \A r \in {artifacts[h], jobs[h]} \ {None} :
            /\ HashOf[r] = h
            /\ Recorded(r) # None /\ Recorded(r).id = r

\* Of the recordings of one artifact exactly one was audited as its original.
OneOriginal ==
    \A h \in Hash : artifacts[h] # None =>
        \E e \in audits :
            /\ ~e.copy
            /\ \A f \in audits : f.artifact = artifacts[h] /\ ~f.copy => f = e

Answered == {r \in Request : answer[r].recording \in Request}

\* Whatever two uploads raced for, their responses agree with the rows and with
\* each other: one recording per call, one artifact and one job per audio, and
\* exactly one of the responses for a call says that it is no duplicate, at
\* most.
AnswersAgree ==
    /\ \A r \in Answered :
          /\ Recorded(r) # None
          /\ answer[r].recording = Recorded(r).id
          /\ answer[r].artifact = Recorded(r).artifact
    /\ \A r, s \in Answered :
          /\ ~answer[r].duplicate /\ ~answer[s].duplicate
                 /\ DiallerOf[r] = DiallerOf[s] => r = s
          /\ ~answer[r].duplicate /\ ~answer[s].duplicate
                 /\ HashOf[r] = HashOf[s]
                 => /\ answer[r].artifact = answer[s].artifact
                    /\ answer[r].job = answer[s].job

\* A worker never hears of a job that could still be rolled back, and hears of
\* each at most once from its upload.
DispatchedAfterCommit ==
    \A r \in Request : pushed[r] > 0 => pushed[r] = 1 /\ jobs[HashOf[r]] = r

\* A job that a worker can see has its audio: the materializer rejects nothing
\* but what the store has damaged, although the object is stored by a request
\* of its own and trusted by others.
AudioIsThere ==
    [][\A h \in Hash : reader'[h] = "rejected" /\ reader[h] # "rejected"
                           => h \in damaged]_vars

\* Requests that wait for each other's rows all get their response or fail.
UploadsReturn ==
    \A r \in Request : (pc[r] # "new") ~> (pc[r] = "done")

\* What is committed is the catalogue: each commit is one Catalogue step.
Catalogue == INSTANCE RecordingCatalogue WITH
    audio <- [d \in Dialler |-> IF recordings[d] = None THEN None
                                ELSE HashOf[recordings[d].artifact]],
    artifacts <- {h \in Hash : artifacts[h] # None},
    jobs <- {h \in Hash : jobs[h] # None}

ImplementsCatalogue == Catalogue!Spec

---------------------------------------------------------------------------
(* The inductive invariant *)

\* What r has inserted and not committed is in no table yet.
OpenRows(r) ==
    /\ "artifact" \in open[r] => /\ pc[r] \in {"recording", "job", "commit"}
                                 /\ artifactOf[r] = r
                                 /\ artifacts[HashOf[r]] = None
    /\ "recording" \in open[r] => pc[r] \in {"job", "commit"} /\ Recorded(r) = None
    /\ pc[r] \in {"job", "commit"} => "recording" \in open[r]
    /\ "job" \in open[r] => pc[r] = "commit" /\ jobs[HashOf[r]] = None
    /\ pc[r] = "commit" /\ "job" \notin open[r] => jobs[HashOf[r]] # None

\* From _save_recording on, r has the artifact of its audio: the committed one
\* or its own.
Resolved(r) ==
    pc[r] \in {"recording", "job", "commit"} =>
        IF "artifact" \in open[r] THEN ~copy[r]
        ELSE /\ copy[r]
             /\ artifactOf[r] = artifacts[HashOf[r]]
             /\ artifactOf[r] # None

\* No two open transactions have inserted the same key.
OneInserts ==
    \A r, s \in Request : r # s =>
        /\ "artifact" \in open[r] /\ "artifact" \in open[s] => HashOf[r] # HashOf[s]
        /\ "recording" \in open[r] /\ "recording" \in open[s]
              => DiallerOf[r] # DiallerOf[s]
        /\ "job" \in open[r] /\ "job" \in open[s] => HashOf[r] # HashOf[s]

\* Only damage makes a stored object anything but what was uploaded, and an
\* upload that is about to insert its artifact has found or stored one.
ObjectsBeforeRows ==
    /\ \A h \in Hash : objects[h] \in {"empty", "altered"} => h \in damaged
    /\ \A r \in Request : pc[r] = "artifact" =>
          objects[HashOf[r]] = "intact" \/ HashOf[r] \in damaged

\* Audit events are of committed recordings, one each, and an event is of a
\* copy unless the recording came with the artifact.
Audited ==
    \A e \in audits :
        /\ Recorded(e.recording) # None
        /\ Recorded(e.recording).id = e.recording
        /\ e.copy => e.artifact # e.recording
        /\ ~e.copy => e.artifact = e.recording
        /\ \A f \in audits : f.recording = e.recording => f = e

\* A message is the last thing r does, for the job it has committed.
LastMessage(r) ==
    /\ pushed[r] > 0 => pc[r] = "done"
    /\ pc[r] = "dispatch" =>
          /\ jobs[HashOf[r]] = r /\ artifacts[HashOf[r]] = artifactOf[r]
          /\ Recorded(r) = [id |-> r, artifact |-> artifactOf[r]]

\* The materializer reads what a committed job asks for.
ReadersHaveJobs == \A h \in Hash : reader[h] # "idle" => jobs[h] # None

\* A response speaks of committed rows.
AnswerOfRows(r) ==
    answer[r].recording \in Request =>
        /\ Recorded(r) # None
        /\ answer[r].recording = Recorded(r).id
        /\ answer[r].artifact = Recorded(r).artifact
        /\ ~answer[r].duplicate => /\ answer[r].recording = r
                                   /\ answer[r].artifact = artifacts[HashOf[r]]
                                   /\ answer[r].job = jobs[HashOf[r]]

\* What is committed, and what is about to be, agrees across the tables, the
\* object store, the audit trail and the queue, wherever requests race, lose or
\* fail.
IngestionInv ==
    /\ TypeOK
    /\ ArtifactsStored /\ RecordingsComplete /\ NoLooseRows /\ OneOriginal
    /\ DispatchedAfterCommit
    /\ \A r \in Request : /\ OpenRows(r) /\ Resolved(r)
                           /\ LastMessage(r) /\ AnswerOfRows(r)
    /\ OneInserts /\ ObjectsBeforeRows /\ Audited /\ ReadersHaveJobs

=============================================================================
