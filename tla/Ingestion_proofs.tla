--------------------------- MODULE Ingestion_proofs ---------------------------
(***************************************************************************)
(* Theorems about Ingestion, for any sets of requests, calls and files and *)
(* any number of faults.                                                   *)
(***************************************************************************)
EXTENDS Ingestion, TLAPS

\* The invariant of one request.
RequestInv(r) == OpenRows(r) /\ Resolved(r) /\ LastMessage(r) /\ AnswerOfRows(r)

\* The tables and the audit trail by themselves.
RowsInv == RecordingsComplete /\ NoLooseRows /\ OneOriginal /\ Audited

LEMMA InvParts ==
    IngestionInv <=> /\ TypeOK /\ RowsInv
                     /\ ArtifactsStored /\ DispatchedAfterCommit
                     /\ \A r \in Request : RequestInv(r)
                     /\ OneInserts /\ ObjectsBeforeRows /\ ReadersHaveJobs
  BY DEF IngestionInv, RowsInv, RequestInv

\* What the assumptions say of one request.
LEMMA RequestFacts ==
    ASSUME NEW r \in Request
    PROVE  /\ DiallerOf[r] \in Dialler /\ HashOf[r] \in Hash
           /\ r # None /\ r # "refused"
  BY RequestAssumption

\* A row in a table is no None.
LEMMA RowIsSome ==
    ASSUME NEW a \in Request, NEW b \in Request
    PROVE  [id |-> a, artifact |-> b] # None
<1>1. [id |-> a, artifact |-> b] \in [id : Request, artifact : Request]
  OBVIOUS
<1> QED
  BY <1>1, RequestAssumption

LEMMA InitInv == Init => IngestionInv
<1> SUFFICES ASSUME Init PROVE IngestionInv
  OBVIOUS
<1>1. TypeOK
  BY FaultAssumption DEF Init, TypeOK, Stage, Kind, Content
<1>2. RowsInv /\ ArtifactsStored
  BY RequestFacts DEF Init, RowsInv, RecordingsComplete, NoLooseRows, OneOriginal,
     Audited, ArtifactsStored
<1>3. DispatchedAfterCommit /\ OneInserts /\ ObjectsBeforeRows /\ ReadersHaveJobs
  BY DEF Init, DispatchedAfterCommit, OneInserts, ObjectsBeforeRows, ReadersHaveJobs
<1>4. ASSUME NEW r \in Request PROVE RequestInv(r)
  BY RequestFacts DEF Init, RequestInv, OpenRows, Resolved, LastMessage,
     AnswerOfRows, NoAnswer
<1> QED
  BY <1>1, <1>2, <1>3, <1>4, InvParts

\* A step that leaves the tables alone leaves them in order.
LEMMA RowsKept ==
    ASSUME RowsInv, UNCHANGED rowVars
    PROVE  RowsInv'
  BY DEF RowsInv, rowVars, RecordingsComplete, NoLooseRows, OneOriginal, Audited,
     Recorded

\* ... and the requests that take no part in it.
LEMMA OthersKept ==
    ASSUME NEW q \in Request, RequestInv(q), UNCHANGED rowVars,
           pc'[q] = pc[q], artifactOf'[q] = artifactOf[q], copy'[q] = copy[q],
           open'[q] = open[q], answer'[q] = answer[q], pushed'[q] = pushed[q]
    PROVE  RequestInv(q)'
  BY DEF RequestInv, OpenRows, Resolved, LastMessage, AnswerOfRows, rowVars, Recorded

\* A request goes on before it has resolved an artifact.
LEMMA MovesOn ==
    ASSUME IngestionInv, NEW r \in Request,
           pc[r] \in {"new", "dialler", "buffer", "lookup", "object"},
           NEW there \in {"dialler", "buffer", "lookup", "object", "upload", "artifact"},
           there = "artifact" => objects[HashOf[r]] = "intact" \/ HashOf[r] \in damaged,
           Proceed(r, there)
    PROVE  IngestionInv'
<1>1. TypeOK
  BY InvParts
<1>2. /\ UNCHANGED <<artifactOf, copy, open, answer, pushed, objects, reader, damaged, faults>>
      /\ UNCHANGED rowVars
      /\ UNCHANGED <<artifacts, recordings, jobs, audits>>
  BY DEF Proceed, rowVars
<1>3. pc'[r] = there /\ \A q \in Request : q # r => pc'[q] = pc[q]
  BY <1>1 DEF TypeOK, Proceed, Goto
<1>4. TypeOK'
  BY <1>1, <1>2 DEF TypeOK, Proceed, Goto, Stage
<1>5. RowsInv'
  BY <1>2, RowsKept, InvParts
<1>6. ArtifactsStored'
  BY <1>2, InvParts DEF ArtifactsStored
<1>7. ASSUME NEW q \in Request PROVE RequestInv(q)'
  <2>1. RequestInv(q)
    BY InvParts
  <2>2. CASE q = r
    BY <1>2, <1>3, <2>1, <2>2 DEF RequestInv, OpenRows, Resolved, LastMessage,
       AnswerOfRows, Recorded
  <2>3. CASE q # r
    BY <1>2, <1>3, <2>1, <2>3, OthersKept
  <2> QED
    BY <2>2, <2>3
<1>8. DispatchedAfterCommit' /\ OneInserts' /\ ReadersHaveJobs'
  BY <1>2, InvParts DEF DispatchedAfterCommit, OneInserts, ReadersHaveJobs
<1>9. ObjectsBeforeRows'
  BY <1>2, <1>3, InvParts DEF ObjectsBeforeRows
<1> QED
  BY <1>4, <1>5, <1>6, <1>7, <1>8, <1>9 DEF IngestionInv, RowsInv, RequestInv

\* What a response may say: nothing of rows, or what they say.
Truthful(r, response) ==
    response.recording \in Request =>
        /\ Recorded(r) # None
        /\ response.recording = Recorded(r).id
        /\ response.artifact = Recorded(r).artifact
        /\ ~response.duplicate => /\ response.recording = r
                                 /\ response.artifact = artifacts[HashOf[r]]
                                 /\ response.job = jobs[HashOf[r]]

\* A request ends: its session is closed and nothing of it is committed.
LEMMA Ends ==
    ASSUME IngestionInv, NEW r \in Request, pc[r] # "done",
           NEW response \in Answer \cup {NoAnswer, Refused}, Truthful(r, response),
           Respond(r, response), faults' \in 0..MaxFaults,
           UNCHANGED <<artifactOf, copy, rowVars, objects, reader, damaged>>,
           \/ UNCHANGED pushed
           \/ pc[r] = "dispatch" /\ pushed' = [pushed EXCEPT ![r] = @ + 1]
    PROVE  IngestionInv'
<1>1. TypeOK
  BY InvParts
<1>2. /\ UNCHANGED <<artifactOf, copy, objects, reader, damaged>>
      /\ UNCHANGED rowVars
      /\ UNCHANGED <<artifacts, recordings, jobs, audits>>
  BY DEF rowVars
<1>3. /\ pc'[r] = "done" /\ open'[r] = {} /\ answer'[r] = response
      /\ \A q \in Request : q # r =>
            pc'[q] = pc[q] /\ open'[q] = open[q] /\ answer'[q] = answer[q]
  BY <1>1 DEF TypeOK, Respond, Goto
<1>4. /\ pushed'[r] \in {pushed[r], pushed[r] + 1}
      /\ pushed'[r] # pushed[r] => pc[r] = "dispatch"
      /\ \A q \in Request : q # r => pushed'[q] = pushed[q]
      /\ pushed' \in [Request -> Nat]
  BY <1>1 DEF TypeOK
<1>5. TypeOK'
  BY <1>1, <1>2, <1>4 DEF TypeOK, Respond, Goto, Stage
<1>6. RowsInv'
  BY <1>2, RowsKept, InvParts
<1>7. ArtifactsStored'
  BY <1>2, <1>3, InvParts DEF ArtifactsStored
<1>8. pushed[r] = 0
  <2>1. ~(pushed[r] > 0)
    BY InvParts DEF RequestInv, LastMessage
  <2>2. pushed[r] \in Nat
    BY <1>1 DEF TypeOK
  <2> QED
    BY <2>1, <2>2
<1>9. ASSUME NEW q \in Request PROVE RequestInv(q)'
  <2>1. RequestInv(q)
    BY InvParts
  <2>2. CASE q = r
    BY <1>2, <1>3, <2>2 DEF RequestInv, OpenRows, Resolved, LastMessage,
       AnswerOfRows, Truthful, Recorded
  <2>3. CASE q # r
    BY <1>2, <1>3, <1>4, <2>1, <2>3, OthersKept
  <2> QED
    BY <2>2, <2>3
<1>10. DispatchedAfterCommit'
  <2> SUFFICES ASSUME NEW q \in Request, pushed'[q] > 0
               PROVE  pushed'[q] = 1 /\ jobs'[HashOf[q]] = q
    BY DEF DispatchedAfterCommit
  <2>1. CASE q = r
    BY <1>2, <1>4, <1>8, <2>1, InvParts DEF RequestInv, LastMessage
  <2>2. CASE q # r
    BY <1>2, <1>4, <2>2, InvParts DEF DispatchedAfterCommit
  <2> QED
    BY <2>1, <2>2
<1>11. OneInserts' /\ ReadersHaveJobs'
  BY <1>2, <1>3, InvParts DEF OneInserts, ReadersHaveJobs
<1>12. ObjectsBeforeRows'
  BY <1>2, <1>3, InvParts DEF ObjectsBeforeRows
<1> QED
  BY <1>5, <1>6, <1>7, <1>9, <1>10, <1>11, <1>12
     DEF IngestionInv, RowsInv, RequestInv

\* A request takes the artifact that is there, or inserts its own.
LEMMA ArtifactResolved ==
    ASSUME IngestionInv, NEW r \in Request, NEW a, NEW c, Goto(r, "recording"),
           artifactOf' = [artifactOf EXCEPT ![r] = a],
           copy' = [copy EXCEPT ![r] = c],
           UNCHANGED <<answer, rowVars, pushed, objects, reader, damaged, faults>>,
           \/ /\ pc[r] \in {"lookup", "artifact"} /\ UNCHANGED open
              /\ a = artifacts[HashOf[r]] /\ a # None /\ c = TRUE
           \/ /\ pc[r] = "artifact" /\ Insert(r, "artifact") /\ ~Blocked(r, "artifact")
              /\ a = r /\ artifacts[HashOf[r]] = None /\ c = FALSE
    PROVE  IngestionInv'
<1>1. TypeOK
  BY InvParts
<1>2. /\ UNCHANGED <<answer, pushed, objects, reader, damaged, faults>>
      /\ UNCHANGED rowVars
      /\ UNCHANGED <<artifacts, recordings, jobs, audits>>
  BY DEF rowVars
<1>3. open[r] = {}
  <2>1. OpenRows(r)
    BY InvParts DEF RequestInv
  <2>2. open[r] \subseteq {"artifact", "recording", "job"}
    BY <1>1 DEF TypeOK, Kind
  <2> QED
    BY <2>1, <2>2 DEF OpenRows
<1>4. a \in Request /\ c \in BOOLEAN
  <2>1. artifacts[HashOf[r]] \in Request \cup {None}
    BY <1>1, RequestFacts DEF TypeOK
  <2> QED
    BY <2>1
<1>5. /\ pc'[r] = "recording" /\ artifactOf'[r] = a /\ copy'[r] = c
      /\ \A q \in Request : q # r =>
            /\ pc'[q] = pc[q] /\ artifactOf'[q] = artifactOf[q]
            /\ copy'[q] = copy[q] /\ open'[q] = open[q]
  BY <1>1 DEF TypeOK, Goto, Insert
<1>6. \/ open'[r] = {} /\ a = artifacts[HashOf[r]] /\ c = TRUE
      \/ /\ open'[r] = {"artifact"} /\ a = r /\ artifacts[HashOf[r]] = None
         /\ c = FALSE /\ pc[r] = "artifact"
         /\ \A q \in Request : q # r /\ "artifact" \in open[q] => HashOf[q] # HashOf[r]
  BY <1>1, <1>3 DEF TypeOK, Insert, Blocked
<1>7. TypeOK'
  <2>1. open' \in [Request -> SUBSET Kind]
    BY <1>1 DEF TypeOK, Insert, Kind
  <2> QED
    BY <1>1, <1>2, <1>4, <2>1 DEF TypeOK, Goto, Stage
<1>8. RowsInv'
  BY <1>2, RowsKept, InvParts
<1>9. ArtifactsStored'
  <2> SUFFICES ASSUME NEW h \in Hash \ damaged',
                      \/ artifacts'[h] # None
                      \/ \E q \in Request : HashOf[q] = h /\ "artifact" \in open'[q]
               PROVE  objects'[h] = "intact"
    BY DEF ArtifactsStored
  <2>1. CASE /\ "artifact" \in open'[r] /\ HashOf[r] = h
    BY <1>2, <1>6, <2>1, InvParts DEF ObjectsBeforeRows
  <2>2. CASE ~("artifact" \in open'[r] /\ HashOf[r] = h)
    BY <1>2, <1>5, <2>2, InvParts DEF ArtifactsStored
  <2> QED
    BY <2>1, <2>2
<1>10. ASSUME NEW q \in Request PROVE RequestInv(q)'
  <2>1. RequestInv(q)
    BY InvParts
  <2>2. CASE q = r
    BY <1>2, <1>4, <1>5, <1>6, <2>1, <2>2, RequestFacts
       DEF RequestInv, OpenRows, Resolved, LastMessage, AnswerOfRows, Recorded
  <2>3. CASE q # r
    BY <1>2, <1>5, <2>1, <2>3, OthersKept
  <2> QED
    BY <2>2, <2>3
<1>11. DispatchedAfterCommit' /\ ReadersHaveJobs'
  BY <1>2, InvParts DEF DispatchedAfterCommit, ReadersHaveJobs
<1>12. OneInserts'
  <2>1. \A q \in Request : "recording" \in open'[q] => "recording" \in open[q] /\ q # r
    BY <1>5, <1>6
  <2>2. \A q \in Request : "job" \in open'[q] => "job" \in open[q] /\ q # r
    BY <1>5, <1>6
  <2>3. \A q \in Request : "artifact" \in open'[q] =>
            q = r \/ ("artifact" \in open[q] /\ q # r)
    BY <1>5
  <2> QED
    BY <1>6, <2>1, <2>2, <2>3, InvParts DEF OneInserts
<1>13. ObjectsBeforeRows'
  BY <1>2, <1>5, InvParts DEF ObjectsBeforeRows
<1> QED
  BY <1>7, <1>8, <1>9, <1>10, <1>11, <1>12, <1>13
     DEF IngestionInv, RowsInv, RequestInv

\* The object is stored before the artifact is inserted.
LEMMA Uploads ==
    ASSUME IngestionInv, NEW r \in Request, UploadFile(r)
    PROVE  IngestionInv'
<1>1. TypeOK
  BY InvParts
<1>2. /\ UNCHANGED <<artifactOf, copy, open, answer, pushed, reader, faults>>
      /\ UNCHANGED rowVars
      /\ UNCHANGED <<artifacts, recordings, jobs, audits>>
  BY DEF UploadFile, rowVars
<1>3. /\ pc[r] = "upload" /\ pc'[r] = "artifact"
      /\ \A q \in Request : q # r => pc'[q] = pc[q]
      /\ objects'[HashOf[r]] = "intact" /\ damaged' = damaged \ {HashOf[r]}
      /\ \A h \in Hash : h # HashOf[r] => objects'[h] = objects[h]
  BY <1>1, RequestFacts DEF TypeOK, UploadFile, At, Goto
<1>4. TypeOK'
  BY <1>1, <1>2 DEF TypeOK, UploadFile, Goto, Stage, Content
<1>5. RowsInv'
  BY <1>2, RowsKept, InvParts
<1>6. ArtifactsStored'
  BY <1>2, <1>3, InvParts DEF ArtifactsStored
<1>7. ASSUME NEW q \in Request PROVE RequestInv(q)'
  <2>1. RequestInv(q)
    BY InvParts
  <2>2. CASE q = r
    BY <1>2, <1>3, <2>1, <2>2 DEF RequestInv, OpenRows, Resolved, LastMessage,
       AnswerOfRows, Recorded
  <2>3. CASE q # r
    BY <1>2, <1>3, <2>1, <2>3, OthersKept
  <2> QED
    BY <2>2, <2>3
<1>8. DispatchedAfterCommit' /\ OneInserts' /\ ReadersHaveJobs'
  BY <1>2, InvParts DEF DispatchedAfterCommit, OneInserts, ReadersHaveJobs
<1>9. ObjectsBeforeRows'
  BY <1>3, RequestFacts, InvParts DEF ObjectsBeforeRows
<1> QED
  BY <1>4, <1>5, <1>6, <1>7, <1>8, <1>9 DEF IngestionInv, RowsInv, RequestInv

\* A recording or a job is inserted, or the committed job is taken.
LEMMA Inserts ==
    ASSUME IngestionInv, NEW r \in Request, NEW kind \in {"recording", "job"},
           UNCHANGED <<artifactOf, copy, answer, rowVars, pushed, objects, reader,
                       damaged, faults>>,
           \/ /\ kind = "recording" /\ pc[r] = "recording" /\ Goto(r, "job")
              /\ Recorded(r) = None
           \/ kind = "job" /\ pc[r] = "job" /\ Goto(r, "commit"),
           \/ Insert(r, kind) /\ ~Blocked(r, kind) /\ (kind = "job" => jobs[HashOf[r]] = None)
           \/ kind = "job" /\ UNCHANGED open /\ jobs[HashOf[r]] # None
    PROVE  IngestionInv'
<1>1. TypeOK
  BY InvParts
<1>2. /\ UNCHANGED <<artifactOf, copy, answer, pushed, objects, reader, damaged, faults>>
      /\ UNCHANGED rowVars
      /\ UNCHANGED <<artifacts, recordings, jobs, audits>>
  BY DEF rowVars
<1>3. \/ open'[r] = open[r] \cup {kind}
         /\ \A q \in Request : q # r /\ kind \in open[q] =>
               IF kind = "recording" THEN DiallerOf[q] # DiallerOf[r]
                                     ELSE HashOf[q] # HashOf[r]
      \/ kind = "job" /\ open'[r] = open[r] /\ jobs[HashOf[r]] # None
  BY <1>1 DEF TypeOK, Insert, Blocked
<1>4. /\ pc'[r] = IF kind = "recording" THEN "job" ELSE "commit"
      /\ pc[r] = kind
      /\ \A q \in Request : q # r => pc'[q] = pc[q] /\ open'[q] = open[q]
  BY <1>1 DEF TypeOK, Goto, Insert
<1>5. TypeOK'
  <2>1. open' \in [Request -> SUBSET Kind]
    BY <1>1 DEF TypeOK, Insert, Kind
  <2> QED
    BY <1>1, <1>2, <2>1 DEF TypeOK, Goto, Stage
<1>6. RowsInv'
  BY <1>2, RowsKept, InvParts
<1>7. \A q \in Request : "artifact" \in open'[q] => "artifact" \in open[q]
  BY <1>3, <1>4
<1>8. ArtifactsStored'
  BY <1>2, <1>7, InvParts DEF ArtifactsStored
<1>9. ASSUME NEW q \in Request PROVE RequestInv(q)'
  <2>1. RequestInv(q)
    BY InvParts
  <2>2. CASE q = r
    <3>1. OpenRows(r)'
      BY <1>2, <1>3, <1>4, <2>1, <2>2 DEF RequestInv, OpenRows, Recorded
    <3>2. Resolved(r)'
      BY <1>2, <1>3, <1>4, <2>1, <2>2 DEF RequestInv, Resolved
    <3> QED
      BY <1>2, <1>4, <2>1, <2>2, <3>1, <3>2 DEF RequestInv, LastMessage, AnswerOfRows, Recorded
  <2>3. CASE q # r
    BY <1>2, <1>4, <2>1, <2>3, OthersKept
  <2> QED
    BY <2>2, <2>3
<1>10. DispatchedAfterCommit' /\ ReadersHaveJobs'
  BY <1>2, InvParts DEF DispatchedAfterCommit, ReadersHaveJobs
<1>11. OneInserts'
  <2>1. CASE kind = "recording"
    BY <1>3, <1>4, <1>7, <2>1, InvParts DEF OneInserts
  <2>2. CASE kind = "job"
    BY <1>3, <1>4, <1>7, <2>2, InvParts DEF OneInserts
  <2> QED
    BY <2>1, <2>2
<1>12. ObjectsBeforeRows'
  BY <1>2, <1>4, InvParts DEF ObjectsBeforeRows
<1> QED
  BY <1>5, <1>6, <1>8, <1>9, <1>10, <1>11, <1>12
     DEF IngestionInv, RowsInv, RequestInv

\* The commit makes the rows of a request visible, all of them at once.
LEMMA Commits ==
    ASSUME IngestionInv, NEW r \in Request, Commit(r)
    PROVE  IngestionInv'
<1> DEFINE d == DiallerOf[r]
           h == HashOf[r]
           a == artifactOf[r]
           j == JobOf(r)
           event == [recording |-> r, artifact |-> a, copy |-> copy[r], job |-> j]
<1>1. TypeOK /\ RowsInv
  BY InvParts
<1>2. UNCHANGED <<artifactOf, copy, pushed, objects, reader, damaged, faults>>
  BY DEF Commit
<1>3. d \in Dialler /\ h \in Hash /\ r # None
  BY RequestFacts
<1>4. OpenRows(r) /\ Resolved(r) /\ LastMessage(r)
  BY InvParts DEF RequestInv
<1>5. pc[r] = "commit" /\ recordings[d] = None
  BY <1>4 DEF Commit, At, OpenRows, Recorded
\* The artifact of the audio: r's own, if there is none yet.
<1>6. /\ a \in Request /\ artifacts'[h] = a /\ HashOf[a] = h
      /\ artifacts[h] # None => a = artifacts[h] /\ a # r
      /\ artifacts[h] = None => a = r
      /\ copy[r] => a # r
      /\ ~copy[r] => a = r
      /\ \A g \in Hash : g # h => artifacts'[g] = artifacts[g]
  <2>1. artifacts[h] \in Request \cup {None} /\ copy[r] \in BOOLEAN
    BY <1>1, <1>3 DEF TypeOK
  <2>2. artifacts[h] # None => HashOf[artifacts[h]] = h /\ artifacts[h] # r
    BY <1>1, <1>3, <1>5, <2>1 DEF RowsInv, NoLooseRows, Recorded
  <2>3. /\ \A g \in Hash : g # h => artifacts'[g] = artifacts[g]
        /\ artifacts'[h] = IF "artifact" \in open[r] THEN r ELSE artifacts[h]
    BY <1>3 DEF Commit
  <2> HIDE DEF h
  <2> QED
    BY <1>4, <1>5, <2>1, <2>2, <2>3 DEF OpenRows, Resolved, h
\* The job for the audio, likewise.
<1>7. /\ j \in Request /\ jobs'[h] = j
      /\ jobs[h] # None => j = jobs[h]
      /\ jobs[h] = None => j = r
      /\ \A g \in Hash : g # h => jobs'[g] = jobs[g]
      /\ "job" \in open[r] => j = r
  <2>1. jobs[h] \in Request \cup {None}
    BY <1>1, <1>3 DEF TypeOK
  <2>2. /\ \A g \in Hash : g # h => jobs'[g] = jobs[g]
        /\ jobs'[h] = IF "job" \in open[r] THEN r ELSE jobs[h]
    BY <1>3 DEF Commit
  <2> QED
    BY <1>4, <1>5, <2>1, <2>2 DEF OpenRows, JobOf
<1>8. /\ recordings'[d] = [id |-> r, artifact |-> a] /\ recordings'[d] # None
      /\ \A c \in Dialler : c # d => recordings'[c] = recordings[c]
      /\ audits' = audits \cup {event}
  BY <1>1, <1>3, <1>6, RowIsSome DEF Commit, TypeOK
<1>9. /\ open'[r] = {} /\ pc'[r] = (IF "job" \in open[r] THEN "dispatch" ELSE "done")
      /\ answer'[r] = (IF "job" \in open[r] THEN answer[r] ELSE Accepted(r))
      /\ \A q \in Request : q # r =>
            pc'[q] = pc[q] /\ open'[q] = open[q] /\ answer'[q] = answer[q]
  BY <1>1 DEF Commit, TypeOK, Goto
<1>10. Accepted(r) = [recording |-> r, artifact |-> a, hash |-> h, duplicate |-> FALSE, job |-> j]
  BY DEF Accepted
<1>11. TypeOK'
  <2>1. artifacts' \in [Hash -> Request \cup {None}]
    BY <1>1 DEF TypeOK, Commit
  <2>2. jobs' \in [Hash -> Request \cup {None}]
    BY <1>1 DEF TypeOK, Commit
  <2>3. recordings' \in [Dialler -> Recording \cup {None}]
    BY <1>1, <1>6 DEF TypeOK, Commit, Recording
  <2>4. event \in [recording : Request, artifact : Request, copy : BOOLEAN,
                   job : Request \cup {None}]
    BY <1>1, <1>6, <1>7 DEF TypeOK
  <2>5. Accepted(r) \in Answer
    BY <1>3, <1>6, <1>7, <1>10 DEF Answer
  <2>6. answer' \in [Request -> Answer \cup {NoAnswer, Refused}]
    BY <1>1, <2>5 DEF TypeOK, Commit
  <2>7. pc' \in [Request -> Stage] /\ open' \in [Request -> SUBSET Kind]
    BY <1>1 DEF TypeOK, Commit, Goto, Stage
  <2>8. audits' \subseteq [recording : Request, artifact : Request, copy : BOOLEAN,
                           job : Request \cup {None}]
    BY <1>1, <1>8, <2>4 DEF TypeOK
  <2> QED
    BY <1>1, <1>2, <2>1, <2>2, <2>3, <2>6, <2>7, <2>8 DEF TypeOK
\* No event speaks of r yet, and what is committed stays.
<1>12. \A e \in audits : e.recording \in Request /\ e.recording # r
  <2>1. \A e \in audits : e.recording \in Request
    BY <1>1 DEF TypeOK
  <2>2. \A e \in audits : Recorded(e.recording) # None
    BY <1>1 DEF RowsInv, Audited
  <2> QED
    BY <1>5, <2>1, <2>2 DEF Recorded
<1>13. /\ \A q \in Request : Recorded(q) # None => DiallerOf[q] # d /\ Recorded(q)' = Recorded(q)
       /\ \A g \in Hash : artifacts[g] # None => artifacts'[g] = artifacts[g]
       /\ \A g \in Hash : jobs[g] # None => jobs'[g] = jobs[g]
  BY <1>3, <1>5, <1>6, <1>7, <1>8, RequestFacts DEF Recorded
<1>14. Recorded(r)' = [id |-> r, artifact |-> a] /\ Recorded(r)' # None
  BY <1>8 DEF Recorded
<1> HIDE DEF d, h, a, j, event
<1>15. Audited'
  <2>1. event.recording = r /\ event.artifact = a /\ event.copy = copy[r]
    BY DEF event
  <2>2. ASSUME NEW e \in audits'
        PROVE  /\ Recorded(e.recording)' # None /\ Recorded(e.recording)'.id = e.recording
               /\ e.copy => e.artifact # e.recording
               /\ ~e.copy => e.artifact = e.recording
    <3>1. CASE e = event
      BY <1>6, <1>14, <2>1, <3>1
    <3>2. CASE e \in audits
      BY <1>1, <1>12, <1>13, <3>2 DEF RowsInv, Audited
    <3> QED
      BY <1>8, <3>1, <3>2
  <2>3. ASSUME NEW e \in audits', NEW f \in audits', f.recording = e.recording
        PROVE  f = e
    BY <1>1, <1>8, <1>12, <2>1, <2>3 DEF RowsInv, Audited
  <2> QED
    BY <2>2, <2>3 DEF Audited, Recorded
<1>16. RecordingsComplete'
  <2> SUFFICES ASSUME NEW c \in Dialler, recordings'[c] # None
               PROVE  LET id == recordings'[c].id
                          g  == HashOf[id]
                      IN  /\ DiallerOf[id] = c
                          /\ artifacts'[g] # None /\ artifacts'[g] = recordings'[c].artifact
                          /\ jobs'[g] # None
                          /\ \E e \in audits' :
                                /\ e.recording = id
                                /\ e.artifact = artifacts'[g] /\ e.job = jobs'[g]
                                /\ \A f \in audits' : f.recording = id => f = e
    BY DEF RecordingsComplete
  <2>1. \A e, f \in audits' : f.recording = e.recording => f = e
    BY <1>15 DEF Audited
  <2>2. CASE c = d
    <3>1. recordings'[c].id = r /\ recordings'[c].artifact = a
      BY <1>8, <2>2
    <3>2. event \in audits' /\ event.recording = r /\ event.artifact = a /\ event.job = j
      BY <1>8 DEF event
    <3>3. HashOf[r] = h /\ DiallerOf[r] = d
      BY DEF h, d
    <3>4. a # None /\ j # None
      BY <1>6, <1>7, RequestAssumption
    <3> QED
      BY <1>6, <1>7, <2>1, <2>2, <3>1, <3>2, <3>3, <3>4
  <2>3. CASE c # d
    <3>1. recordings'[c] = recordings[c] /\ recordings[c] \in Recording
      BY <1>1, <1>8, <2>3 DEF TypeOK
    <3> DEFINE id == recordings[c].id
               g  == HashOf[id]
    <3>2. id \in Request /\ g \in Hash
      BY <3>1, RequestFacts DEF Recording
    <3>3. /\ DiallerOf[id] = c /\ artifacts[g] # None
          /\ artifacts[g] = recordings[c].artifact /\ jobs[g] # None
          /\ \E e \in audits : e.recording = id /\ e.artifact = artifacts[g] /\ e.job = jobs[g]
      BY <1>1, <3>1 DEF RowsInv, RecordingsComplete
    <3>4. artifacts'[g] = artifacts[g] /\ jobs'[g] = jobs[g]
      BY <1>13, <3>2, <3>3
    <3>5. audits \subseteq audits'
      BY <1>8
    <3> QED
      BY <2>1, <3>1, <3>3, <3>4, <3>5
  <2> QED
    BY <2>2, <2>3
<1>17. NoLooseRows'
  <2> SUFFICES ASSUME NEW g \in Hash, NEW q \in {artifacts'[g], jobs'[g]} \ {None}
               PROVE  HashOf[q] = g /\ Recorded(q)' # None /\ Recorded(q)'.id = q
    BY DEF NoLooseRows, Recorded
  <2>1. (q = r /\ g = h) \/ q \in {artifacts[g], jobs[g]} \ {None}
    BY <1>6, <1>7
  <2>2. CASE q = r /\ g = h
    BY <1>14, <2>2 DEF h
  <2>3. CASE q \in {artifacts[g], jobs[g]} \ {None}
    <3>1. q \in Request
      BY <1>1, <2>3 DEF TypeOK
    <3>2. HashOf[q] = g /\ Recorded(q) # None /\ Recorded(q).id = q
      BY <1>1, <2>3 DEF RowsInv, NoLooseRows
    <3> QED
      BY <1>13, <3>1, <3>2
  <2> QED
    BY <2>1, <2>2, <2>3
<1>18. OneOriginal'
  <2> SUFFICES ASSUME NEW g \in Hash, artifacts'[g] # None
               PROVE  \E e \in audits' :
                         /\ ~e.copy
                         /\ \A f \in audits' : f.artifact = artifacts'[g] /\ ~f.copy => f = e
    BY DEF OneOriginal
  <2> DEFINE o == artifacts'[g]
  <2>1. HashOf[o] = g /\ recordings'[DiallerOf[o]] # None /\ recordings'[DiallerOf[o]].id = o
    BY <1>17 DEF NoLooseRows, Recorded
  <2>2. o \in Request /\ DiallerOf[o] \in Dialler
    <3>1. o \in Request
      BY <1>11 DEF TypeOK
    <3> QED
      BY <3>1, RequestFacts
  <2>3. PICK e \in audits' : e.recording = o /\ e.artifact = o
    BY <1>16, <2>1, <2>2 DEF RecordingsComplete
  <2>4. ~e.copy
    BY <1>15, <2>3 DEF Audited
  <2>5. \A f \in audits' : f.artifact = o /\ ~f.copy => f.recording = o
    BY <1>15 DEF Audited
  <2>6. \A f \in audits' : f.recording = o => f = e
    BY <1>15, <2>3 DEF Audited
  <2> QED
    BY <2>4, <2>5, <2>6
<1>19. ArtifactsStored'
  <2> SUFFICES ASSUME NEW g \in Hash \ damaged',
                      \/ artifacts'[g] # None
                      \/ \E q \in Request : HashOf[q] = g /\ "artifact" \in open'[q]
               PROVE  objects'[g] = "intact"
    BY DEF ArtifactsStored
  <2>1. \/ artifacts[g] # None
        \/ \E q \in Request : HashOf[q] = g /\ "artifact" \in open[q]
    BY <1>3, <1>4, <1>5, <1>6, <1>9 DEF Resolved, h
  <2> QED
    BY <1>2, <2>1, InvParts DEF ArtifactsStored
<1>20. DispatchedAfterCommit'
  BY <1>2, <1>7, <1>13, RequestFacts, InvParts DEF DispatchedAfterCommit
<1>21. ASSUME NEW q \in Request PROVE RequestInv(q)'
  <2>1. RequestInv(q)
    BY InvParts
  <2>2. CASE q = r
    <3>1. OpenRows(r)' /\ Resolved(r)'
      BY <1>9 DEF OpenRows, Resolved
    <3>2. LastMessage(r)'
      BY <1>2, <1>4, <1>5, <1>6, <1>7, <1>9, <1>14 DEF LastMessage, h, a
    <3>3. AnswerOfRows(r)'
      <4>1. CASE "job" \in open[r]
        <5>1. answer'[r] = answer[r]
          BY <1>9, <4>1
        <5>2. answer[r].recording \notin Request
          BY <1>5, <2>1, <2>2 DEF RequestInv, AnswerOfRows, Recorded, d
        <5> QED
          BY <5>1, <5>2 DEF AnswerOfRows
      <4>2. CASE "job" \notin open[r]
        BY <1>6, <1>7, <1>9, <1>10, <1>14, <4>2 DEF AnswerOfRows, h
      <4> QED
        BY <4>1, <4>2
    <3> QED
      BY <2>2, <3>1, <3>2, <3>3 DEF RequestInv
  <2>3. CASE q # r
    <3>1. /\ pc'[q] = pc[q] /\ artifactOf'[q] = artifactOf[q] /\ copy'[q] = copy[q]
          /\ open'[q] = open[q] /\ answer'[q] = answer[q] /\ pushed'[q] = pushed[q]
      BY <1>2, <1>9, <2>3
    \* What q has inserted, r has not.
    <3>2. /\ "artifact" \in open[q] => artifacts'[HashOf[q]] = None
          /\ "recording" \in open[q] => Recorded(q)' = None
          /\ "job" \in open[q] => jobs'[HashOf[q]] = None
      <4>1. OneInserts /\ OpenRows(q)
        BY <2>1, InvParts DEF RequestInv
      <4>2. "recording" \in open[r]
        BY <1>4, <1>5 DEF OpenRows
      <4>3. "recording" \in open[q] => DiallerOf[q] # d
        BY <2>3, <4>1, <4>2 DEF OneInserts, d
      <4> DEFINE g == HashOf[q]
      <4>4. g \in Hash
        BY RequestFacts
      <4>5. "artifact" \in open[q] => artifacts'[g] = artifacts[g]
        <5>1. "artifact" \in open[q] /\ "artifact" \in open[r] => g # HashOf[r]
          BY <2>3, <4>1 DEF OneInserts
        <5>2. artifacts'[g] = IF "artifact" \in open[r] /\ g = HashOf[r] THEN r ELSE artifacts[g]
          BY <4>4 DEF Commit
        <5> QED
          BY <5>1, <5>2
      <4>6. "job" \in open[q] => jobs'[g] = jobs[g]
        <5>1. "job" \in open[q] /\ "job" \in open[r] => g # HashOf[r]
          BY <2>3, <4>1 DEF OneInserts
        <5>2. jobs'[g] = IF "job" \in open[r] /\ g = HashOf[r] THEN r ELSE jobs[g]
          BY <4>4 DEF Commit
        <5> QED
          BY <5>1, <5>2
      <4> QED
        BY <1>8, <4>1, <4>3, <4>5, <4>6, RequestFacts DEF OpenRows, Recorded
    <3>3. OpenRows(q)'
      BY <1>13, <2>1, <3>1, <3>2, RequestFacts DEF RequestInv, OpenRows
    <3>4. Resolved(q)'
      BY <1>13, <2>1, <3>1, RequestFacts DEF RequestInv, Resolved
    <3>5. LastMessage(q)'
      <4>1. pc[q] = "dispatch" =>
              /\ jobs[HashOf[q]] = q /\ artifacts[HashOf[q]] = artifactOf[q]
              /\ Recorded(q) = [id |-> q, artifact |-> artifactOf[q]]
        BY <2>1 DEF RequestInv, LastMessage
      <4>2. pc[q] = "dispatch" => Recorded(q) # None /\ jobs[HashOf[q]] # None
        BY <1>1, <4>1, RequestFacts DEF RowsInv, NoLooseRows
      <4>3. pc[q] = "dispatch" => artifacts[HashOf[q]] # None
        BY <1>1, <4>1, <4>2, RequestFacts DEF RowsInv, RecordingsComplete, Recorded
      <4>4. pc[q] = "dispatch" => /\ jobs'[HashOf[q]] = jobs[HashOf[q]]
                                  /\ artifacts'[HashOf[q]] = artifacts[HashOf[q]]
                                  /\ Recorded(q)' = Recorded(q)
        BY <1>13, <4>2, <4>3, RequestFacts
      <4> QED
        BY <2>1, <3>1, <4>1, <4>4 DEF RequestInv, LastMessage
    <3>6. AnswerOfRows(q)'
      <4> SUFFICES ASSUME answer[q].recording \in Request
                   PROVE  AnswerOfRows(q)'
        BY <3>1 DEF AnswerOfRows
      <4>1. AnswerOfRows(q)
        BY <2>1 DEF RequestInv
      <4>2. Recorded(q)' = Recorded(q)
        BY <1>13, <4>1 DEF AnswerOfRows
      <4>3. ~answer[q].duplicate =>
              artifacts[HashOf[q]] # None /\ jobs[HashOf[q]] # None
        BY <1>1, <4>1, RequestFacts
           DEF RowsInv, RecordingsComplete, AnswerOfRows, Recorded
      <4>4. ~answer[q].duplicate => /\ jobs'[HashOf[q]] = jobs[HashOf[q]]
                                    /\ artifacts'[HashOf[q]] = artifacts[HashOf[q]]
        BY <1>13, <4>3, RequestFacts
      <4> QED
        BY <3>1, <4>1, <4>2, <4>4 DEF AnswerOfRows
    <3> QED
      BY <3>3, <3>4, <3>5, <3>6 DEF RequestInv
  <2> QED
    BY <2>2, <2>3
<1>22. OneInserts' /\ ReadersHaveJobs' /\ ObjectsBeforeRows'
  <2>1. OneInserts'
    BY <1>9, InvParts DEF OneInserts
  <2>2. ReadersHaveJobs'
    BY <1>2, <1>13, InvParts DEF ReadersHaveJobs
  <2>3. ObjectsBeforeRows'
    BY <1>2, <1>9, InvParts DEF ObjectsBeforeRows
  <2> QED
    BY <2>1, <2>2, <2>3
<1> QED
  BY <1>11, <1>15, <1>16, <1>17, <1>18, <1>19, <1>20, <1>21, <1>22
     DEF IngestionInv, RowsInv, RequestInv

\* The store damages an object.
LEMMA Damages ==
    ASSUME IngestionInv, NEW h \in Hash, Damage(h)
    PROVE  IngestionInv'
<1>1. TypeOK
  BY InvParts
<1>2. /\ UNCHANGED <<pc, artifactOf, copy, open, answer, pushed, reader>>
      /\ UNCHANGED rowVars
      /\ UNCHANGED <<artifacts, recordings, jobs, audits>>
  BY DEF Damage, reqVars, rowVars
<1>3. /\ damaged' = damaged \cup {h}
      /\ \A g \in Hash : g # h => objects'[g] = objects[g]
  BY <1>1 DEF TypeOK, Damage
<1>4. TypeOK'
  <2>1. faults' \in 0..MaxFaults
    BY <1>1, FaultAssumption DEF TypeOK, Damage
  <2>2. objects' \in [Hash -> Content]
    BY <1>1 DEF TypeOK, Damage
  <2> QED
    BY <1>1, <1>2, <1>3, <2>1, <2>2 DEF TypeOK
<1>5. RowsInv'
  BY <1>2, RowsKept, InvParts
<1>6. ArtifactsStored' /\ ObjectsBeforeRows'
  BY <1>2, <1>3, RequestFacts, InvParts DEF ArtifactsStored, ObjectsBeforeRows
<1>7. ASSUME NEW q \in Request PROVE RequestInv(q)'
  BY <1>2, OthersKept, InvParts
<1>8. DispatchedAfterCommit' /\ OneInserts' /\ ReadersHaveJobs'
  BY <1>2, InvParts DEF DispatchedAfterCommit, OneInserts, ReadersHaveJobs
<1> QED
  BY <1>4, <1>5, <1>6, <1>7, <1>8 DEF IngestionInv, RowsInv, RequestInv

\* The materializer goes on with the audio of a job.
LEMMA Reads ==
    ASSUME IngestionInv, NEW h \in Hash, jobs[h] # None,
           NEW result \in {"found", "rejected", "intact"}, Read(h, result)
    PROVE  IngestionInv'
<1>1. TypeOK
  BY InvParts
<1>2. /\ UNCHANGED <<pc, artifactOf, copy, open, answer, pushed, objects, damaged, faults>>
      /\ UNCHANGED rowVars
      /\ UNCHANGED <<artifacts, recordings, jobs, audits>>
  BY DEF Read, reqVars, rowVars
<1>3. TypeOK'
  BY <1>1, <1>2 DEF TypeOK, Read, Content
<1>4. RowsInv'
  BY <1>2, RowsKept, InvParts
<1>5. ASSUME NEW q \in Request PROVE RequestInv(q)'
  BY <1>2, OthersKept, InvParts
<1>6. DispatchedAfterCommit' /\ OneInserts' /\ ArtifactsStored' /\ ObjectsBeforeRows'
  BY <1>2, InvParts
     DEF DispatchedAfterCommit, OneInserts, ArtifactsStored, ObjectsBeforeRows
<1>7. ReadersHaveJobs'
  <2>1. \A g \in Hash : g # h => reader'[g] = reader[g]
    BY <1>1 DEF TypeOK, Read
  <2> QED
    BY <1>2, <2>1, InvParts DEF ReadersHaveJobs
<1> QED
  BY <1>3, <1>4, <1>5, <1>6, <1>7 DEF IngestionInv, RowsInv, RequestInv

\* A refusal says nothing of rows.
LEMMA EmptyAnswers ==
    ASSUME NEW r \in Request
    PROVE  Truthful(r, NoAnswer) /\ Truthful(r, Refused)
  BY RequestAssumption DEF Truthful, NoAnswer, Refused

LEMMA Refuses ==
    ASSUME IngestionInv, NEW r \in Request, pc[r] # "done", Refuse(r)
    PROVE  IngestionInv'
<1>1. faults' \in 0..MaxFaults
  BY InvParts DEF TypeOK, Refuse
<1> QED
  BY <1>1, EmptyAnswers, Ends DEF Refuse

\* A duplicate is answered with the recording that is there.
LEMMA AnswersDuplicate ==
    ASSUME IngestionInv, NEW r \in Request, pc[r] # "done", Recorded(r) # None,
           NEW h \in Hash,
           Respond(r, [recording |-> Recorded(r).id, artifact |-> Recorded(r).artifact,
                       hash |-> h, duplicate |-> TRUE, job |-> None]),
           UNCHANGED <<artifactOf, copy, rowVars, pushed, objects, reader, damaged,
                       faults>>
    PROVE  IngestionInv'
<1> DEFINE response == [recording |-> Recorded(r).id, artifact |-> Recorded(r).artifact,
                        hash |-> h, duplicate |-> TRUE, job |-> None]
<1>1. Recorded(r) \in Recording
  BY RequestFacts, InvParts DEF TypeOK, Recorded
<1>2. response \in Answer
  BY <1>1 DEF Answer, Recording
<1>3. Truthful(r, response)
  BY DEF Truthful
<1>4. faults' \in 0..MaxFaults
  BY InvParts DEF TypeOK
<1>5. Respond(r, response)
  OBVIOUS
<1> HIDE DEF response
<1> QED
  BY <1>2, <1>3, <1>4, <1>5, Ends

\* The response that follows the commit.
LEMMA Dispatches ==
    ASSUME IngestionInv, NEW r \in Request, Dispatch(r)
    PROVE  IngestionInv'
<1>1. TypeOK /\ LastMessage(r) /\ pc[r] = "dispatch"
  BY InvParts DEF RequestInv, Dispatch, At
<1>2. /\ jobs[HashOf[r]] = r /\ artifacts[HashOf[r]] = artifactOf[r]
      /\ Recorded(r) = [id |-> r, artifact |-> artifactOf[r]]
  BY <1>1 DEF LastMessage
<1>3. Recorded(r) # None
  BY <1>1, <1>2, RequestFacts, InvParts DEF RowsInv, NoLooseRows
<1>4. artifactOf[r] \in Request
  <2>1. Recorded(r) \in Recording
    BY <1>1, <1>3, RequestFacts DEF TypeOK, Recorded
  <2> QED
    BY <1>2, <2>1 DEF Recording
<1>5. JobOf(r) = r
  BY <1>2 DEF JobOf
<1>6. Accepted(r) = [recording |-> r, artifact |-> artifactOf[r], hash |-> HashOf[r],
                     duplicate |-> FALSE, job |-> r]
  BY <1>5 DEF Accepted
<1>7. Accepted(r) \in Answer
  BY <1>4, <1>6, RequestFacts DEF Answer
<1>8. Truthful(r, Accepted(r))
  BY <1>2, <1>3, <1>6 DEF Truthful
<1>9. faults' \in 0..MaxFaults
  BY <1>1 DEF TypeOK, Dispatch
<1> QED
  BY <1>1, <1>7, <1>8, <1>9, Ends DEF Dispatch

LEMMA NextInv == IngestionInv /\ [Next]_vars => IngestionInv'
<1> SUFFICES ASSUME IngestionInv, [Next]_vars PROVE IngestionInv'
  OBVIOUS
<1>1. ASSUME NEW r \in Request, Begin(r) PROVE IngestionInv'
  BY <1>1, MovesOn, Refuses DEF Begin, At
<1>2. ASSUME NEW r \in Request, CheckDialler(r) PROVE IngestionInv'
  <2>1. CASE Recorded(r) = None
    BY <1>2, <2>1, MovesOn DEF CheckDialler, At
  <2>2. CASE Recorded(r) # None
    <3>1. Recorded(r) \in Recording
      BY <2>2, RequestFacts, InvParts DEF TypeOK, Recorded
    <3>2. HashOf[Recorded(r).artifact] \in Hash
      BY <3>1, RequestFacts DEF Recording
    <3> QED
      BY <1>2, <2>2, <3>2, AnswersDuplicate DEF CheckDialler, At
  <2> QED
    BY <2>1, <2>2
<1>3. ASSUME NEW r \in Request, Buffer(r) PROVE IngestionInv'
  BY <1>3, MovesOn, Refuses DEF Buffer, At
<1>4. ASSUME NEW r \in Request, LookUpArtifact(r) PROVE IngestionInv'
  <2>1. CASE artifacts[HashOf[r]] = None
    BY <1>4, <2>1, MovesOn DEF LookUpArtifact, At
  <2>2. CASE artifacts[HashOf[r]] # None
    BY <1>4, <2>2, ArtifactResolved DEF LookUpArtifact, At
  <2> QED
    BY <2>1, <2>2
<1>5. ASSUME NEW r \in Request, CheckObject(r) PROVE IngestionInv'
  <2>1. pc[r] = "object"
    BY <1>5 DEF CheckObject, At
  <2>2. CASE objects[HashOf[r]] = "gone"
    BY <1>5, <2>1, <2>2, MovesOn DEF CheckObject
  <2>3. CASE objects[HashOf[r]] # "gone"
    <3>1. objects[HashOf[r]] \in Content
      BY RequestFacts, InvParts DEF TypeOK
    <3>2. objects[HashOf[r]] = "intact" \/ HashOf[r] \in damaged
      BY <2>3, <3>1, RequestFacts, InvParts DEF Content, ObjectsBeforeRows
    <3> QED
      BY <1>5, <2>1, <2>3, <3>2, MovesOn DEF CheckObject
  <2> QED
    BY <2>2, <2>3
<1>6. ASSUME NEW r \in Request, SaveArtifact(r) PROVE IngestionInv'
  <2>1. CASE artifacts[HashOf[r]] = None
    BY <1>6, <2>1, ArtifactResolved DEF SaveArtifact, At
  <2>2. CASE artifacts[HashOf[r]] # None
    BY <1>6, <2>2, ArtifactResolved DEF SaveArtifact, At
  <2> QED
    BY <2>1, <2>2
<1>7. ASSUME NEW r \in Request, SaveRecording(r) PROVE IngestionInv'
  <2>1. CASE Recorded(r) = None
    BY <1>7, <2>1, Inserts DEF SaveRecording, At
  <2>2. CASE Recorded(r) # None
    BY <1>7, <2>2, RequestFacts, AnswersDuplicate DEF SaveRecording, At
  <2> QED
    BY <2>1, <2>2
<1>8. ASSUME NEW r \in Request, ResolveJob(r) PROVE IngestionInv'
  BY <1>8, Inserts DEF ResolveJob, At
<1>9. ASSUME NEW r \in Request, Abort(r) PROVE IngestionInv'
  <2>1. faults' \in 0..MaxFaults
    BY <1>9, FaultAssumption, InvParts DEF Abort, TypeOK
  <2> QED
    BY <1>9, <2>1, EmptyAnswers, Ends DEF Abort
<1>10. ASSUME NEW h \in Hash, FindObject(h) \/ VerifyObject(h) PROVE IngestionInv'
  <2>1. jobs[h] # None
    BY <1>10, InvParts DEF FindObject, VerifyObject, ReadersHaveJobs
  <2> QED
    BY <1>10, <2>1, Reads DEF FindObject, VerifyObject
<1>11. CASE UNCHANGED vars
  <2>1. /\ UNCHANGED rowVars
        /\ UNCHANGED <<pc, artifactOf, copy, open, answer, artifacts, recordings, jobs,
                       audits, pushed, objects, reader, damaged, faults>>
    BY <1>11 DEF vars, rowVars
  <2>2. TypeOK' /\ RowsInv' /\ \A q \in Request : RequestInv(q)'
    BY <2>1, RowsKept, OthersKept, InvParts DEF TypeOK
  <2>3. /\ ArtifactsStored' /\ DispatchedAfterCommit' /\ OneInserts'
        /\ ObjectsBeforeRows' /\ ReadersHaveJobs'
    BY <2>1, InvParts DEF ArtifactsStored, DispatchedAfterCommit, OneInserts,
       ObjectsBeforeRows, ReadersHaveJobs
  <2> QED
    BY <2>2, <2>3 DEF IngestionInv, RowsInv, RequestInv
<1> QED
  BY <1>1, <1>2, <1>3, <1>4, <1>5, <1>6, <1>7, <1>8, <1>9, <1>10, <1>11,
     Uploads, Commits, Dispatches, Damages DEF Next, Step

\* The rows, the objects, the audit trail, the messages and the responses agree,
\* however requests race, lose or fail.
THEOREM IngestionInvariant == Spec => []IngestionInv
  BY InitInv, NextInv, PTL DEF Spec

\* The responses of all uploads agree with the committed rows and with each
\* other.
THEOREM AnswersAgreeAlways == Spec => []AnswersAgree
<1>1. ASSUME IngestionInv PROVE AnswersAgree
  <2>1. \A r \in Request : AnswerOfRows(r)
    BY <1>1, InvParts DEF RequestInv
  <2>2. ASSUME NEW r \in Answered, NEW s \in Answered,
               ~answer[r].duplicate, ~answer[s].duplicate, DiallerOf[r] = DiallerOf[s]
        PROVE  r = s
    BY <2>1, <2>2 DEF Answered, AnswerOfRows, Recorded
  <2>3. ASSUME NEW r \in Answered, NEW s \in Answered,
               ~answer[r].duplicate, ~answer[s].duplicate, HashOf[r] = HashOf[s]
        PROVE  answer[r].artifact = answer[s].artifact /\ answer[r].job = answer[s].job
    BY <2>1, <2>3 DEF Answered, AnswerOfRows
  <2> QED
    BY <2>1, <2>2, <2>3 DEF AnswersAgree, Answered, AnswerOfRows
<1> QED
  BY <1>1, IngestionInvariant, PTL

\* A job that is committed has an artifact, and its object unless it was
\* damaged.
LEMMA JobsHaveAudio ==
    ASSUME IngestionInv, NEW h \in Hash, jobs[h] # None, h \notin damaged
    PROVE  objects[h] = "intact"
<1>1. RecordingsComplete /\ NoLooseRows /\ ArtifactsStored /\ TypeOK
  BY InvParts DEF RowsInv
<1>2. jobs[h] \in Request
  BY <1>1 DEF TypeOK
<1>3. HashOf[jobs[h]] = h /\ Recorded(jobs[h]) # None /\ Recorded(jobs[h]).id = jobs[h]
  BY <1>1 DEF NoLooseRows
<1>4. artifacts[h] # None
  BY <1>1, <1>2, <1>3, RequestFacts DEF RecordingsComplete, Recorded
<1> QED
  BY <1>1, <1>4 DEF ArtifactsStored

\* The materializer rejects only what the store has damaged.
THEOREM AudioAlwaysThere == Spec => AudioIsThere
<1> DEFINE Justified == \A h \in Hash :
                            reader'[h] = "rejected" /\ reader[h] # "rejected" => h \in damaged
<1>1. ASSUME IngestionInv, [Next]_vars PROVE [Justified]_vars
  <2> SUFFICES ASSUME NEW h \in Hash, reader'[h] = "rejected", reader[h] # "rejected"
               PROVE  h \in damaged
    OBVIOUS
  <2>1. TypeOK /\ ReadersHaveJobs
    BY <1>1, InvParts
  <2>2. ASSUME NEW g \in Hash, FindObject(g) \/ VerifyObject(g) PROVE h \in damaged
    <3>1. g = h
      BY <2>1, <2>2 DEF TypeOK, FindObject, VerifyObject, Read
    <3>2. jobs[h] # None
      BY <2>1, <2>2, <3>1 DEF FindObject, VerifyObject, ReadersHaveJobs
    <3>3. objects[h] # "intact"
      BY <2>1, <2>2, <3>1 DEF TypeOK, FindObject, VerifyObject, Read
    <3> QED
      BY <1>1, <3>2, <3>3, JobsHaveAudio
  <2>3. CASE \E r \in Request : Begin(r) \/ Step(r) \/ Abort(r)
    <3>1. reader' = reader
      BY <2>3 DEF Begin, Step, Abort, Proceed, Refuse, CheckDialler, Buffer,
         LookUpArtifact, CheckObject, UploadFile, SaveArtifact, SaveRecording,
         ResolveJob, Commit, Dispatch
    <3> QED
      BY <3>1
  <2>4. CASE UNCHANGED vars \/ \E g \in Hash : Damage(g)
    <3>1. reader' = reader
      BY <2>4 DEF vars, Damage
    <3> QED
      BY <3>1
  <2> QED
    BY <1>1, <2>2, <2>3, <2>4 DEF Next
<1> QED
  BY <1>1, IngestionInvariant, PTL DEF Spec, AudioIsThere

\* The tables, seen as the catalogue, change by whole entries: a recording with
\* the artifact of its audio and the job for it.
THEOREM CatalogueImplemented == Spec => ImplementsCatalogue
<1> DEFINE audioOf == [d \in Dialler |-> IF recordings[d] = None THEN None
                                         ELSE HashOf[recordings[d].artifact]]
           stored  == {h \in Hash : artifacts[h] # None}
           queued  == {h \in Hash : jobs[h] # None}
<1>1. Init => Catalogue!Init
  BY DEF Init, Catalogue!Init
<1>2. ASSUME IngestionInv, [Next]_vars
      PROVE  [Catalogue!Next]_<<audioOf, stored, queued>>
  <2>1. ASSUME NEW r \in Request, Commit(r)
        PROVE  Catalogue!Catalogue(DiallerOf[r], HashOf[r])
    <3> DEFINE d == DiallerOf[r]
               h == HashOf[r]
               a == artifactOf[r]
    <3>1. TypeOK /\ RowsInv /\ OpenRows(r) /\ Resolved(r) /\ pc[r] = "commit"
      BY <1>2, <2>1, InvParts DEF RequestInv, Commit, At
    <3>2. d \in Dialler /\ h \in Hash /\ r # None /\ recordings[d] = None
      BY <3>1, RequestFacts DEF OpenRows, Recorded
    <3>3. a \in Request /\ HashOf[a] = h
      <4>1. artifacts[h] \in Request \cup {None}
        BY <3>1, <3>2 DEF TypeOK
      <4>2. artifacts[h] # None => HashOf[artifacts[h]] = h
        BY <3>1, <3>2 DEF RowsInv, NoLooseRows
      <4> QED
        BY <3>1, <4>1, <4>2 DEF OpenRows, Resolved
    <3>4. /\ recordings'[d] = [id |-> r, artifact |-> a]
          /\ [id |-> r, artifact |-> a] # None
          /\ \A c \in Dialler : c # d => recordings'[c] = recordings[c]
      BY <2>1, <3>1, <3>2, <3>3, RowIsSome DEF Commit, TypeOK
    <3>5. stored' = stored \cup {h}
      BY <2>1, <3>1, <3>2 DEF Commit, OpenRows, Resolved
    <3>6. queued' = queued \cup {h}
      BY <2>1, <3>1, <3>2 DEF Commit, OpenRows
    <3>7. audioOf[d] = None
      BY <3>2
    <3>8. audioOf' = [audioOf EXCEPT ![d] = h]
      <4>1. recordings'[d] # None /\ recordings'[d].artifact = a
        BY <3>4
      <4>2. \A c \in Dialler : (IF recordings'[c] = None THEN None
                                ELSE HashOf[recordings'[c].artifact])
                             = (IF c = d THEN h ELSE audioOf[c])
        BY <3>3, <3>4, <4>1
      <4>3. audioOf' = [c \in Dialler |-> IF c = d THEN h ELSE audioOf[c]]
        BY <4>2
      <4>4. [audioOf EXCEPT ![d] = h] = [c \in Dialler |-> IF c = d THEN h ELSE audioOf[c]]
        OBVIOUS
      <4> QED
        BY <4>3, <4>4
    <3> QED
      BY <3>5, <3>6, <3>7, <3>8 DEF Catalogue!Catalogue
  <2>2. ASSUME \/ \E r \in Request :
                    \/ Begin(r) \/ CheckDialler(r) \/ Buffer(r) \/ LookUpArtifact(r)
                    \/ CheckObject(r) \/ UploadFile(r) \/ SaveArtifact(r)
                    \/ SaveRecording(r) \/ ResolveJob(r) \/ Dispatch(r) \/ Abort(r)
               \/ \E h \in Hash : Damage(h) \/ FindObject(h) \/ VerifyObject(h)
               \/ UNCHANGED vars
        PROVE  UNCHANGED <<audioOf, stored, queued>>
    <3>1. UNCHANGED <<artifacts, recordings, jobs>>
      BY <2>2 DEF Begin, Abort, Proceed, Refuse, CheckDialler, Buffer,
         LookUpArtifact, CheckObject, UploadFile, SaveArtifact, SaveRecording,
         ResolveJob, Dispatch, Damage, FindObject, VerifyObject, Read, vars, rowVars
    <3> QED
      BY <3>1
  <2>3. ASSUME NEW r \in Request, Commit(r) PROVE Catalogue!Next
    BY <2>1, <2>3, RequestFacts DEF Catalogue!Next
  <2> QED
    BY <1>2, <2>2, <2>3 DEF Next, Step
<1> QED
  BY <1>1, <1>2, IngestionInvariant, PTL DEF Spec, ImplementsCatalogue, Catalogue!Spec

===============================================================================
