---------------------------- MODULE Documents_proofs ----------------------------
(***************************************************************************)
(* Proofs about Documents, for any documents, jobs and requests and any    *)
(* number of tries.  StoreAndTable rests on where uploads and deletions    *)
(* are (UploadsInv, RequestsInv).  IndexConsistent rests on whose chunks a *)
(* run's are (OwnRuns), and, for a document whose jobs never overlapped,   *)
(* on what the one job in progress has seen of it (OnceInv).               *)
(***************************************************************************)
EXTENDS Documents, TLAPS

JobsInv ==
    \A j \in Jobs :
        /\ phase[j] = "idle" => starts[j] = 0 /\ chosen[j] = {} /\ doomed[j] = {}
        /\ phase[j] = "queued" => starts[j] < MaxTries
        /\ phase[j] # "idle" => doc[j] \in Docs
        /\ InProgress(j) => starts[j] # 0
        /\ phase[j] = "fetched" => kind[j] = "generate"
        /\ phase[j] \in {"deleting", "deleted"} => kind[j] = "reindex"

UploadsInv ==
    \A u \in Uploads :
        /\ doc[u] = u
        /\ upload[u] # "done" => phase[u] = "idle"
        /\ upload[u] \notin {"inserted", "done"} => ~HasRow(u)
        /\ upload[u] \in {"stored", "inserted", "done"} => u \in store \cup emptied

RequestsInv ==
    \A x \in Deletes :
        /\ request[x] \in {"loaded", "emptied"} =>
              /\ subject[x] \in Docs
              /\ subject[x] \in Uploads => upload[subject[x]] \in {"inserted", "done"}
        /\ request[x] = "emptied" => subject[x] \notin store

ChunksHaveRows == \A d \in Docs : ~HasRow(d) => batches[d] = {}

PlacesInv == TypeOK /\ JobsInv /\ UploadsInv /\ RequestsInv /\ ChunksHaveRows /\ StoreAndTable

------------------------------------------------------------------------------
LEMMA PlacesStart == Init => PlacesInv
  <1> SUFFICES ASSUME Init PROVE PlacesInv
    OBVIOUS
  <1> USE DocumentsAssumption DEF Init, Docs, Jobs
  <1>1. TypeOK
    BY DEF TypeOK, Kinds, Phases
  <1>2. JobsInv
    BY DEF JobsInv, InProgress, Running
  <1>3. UploadsInv
    BY DEF UploadsInv, HasRow
  <1>4. RequestsInv
    BY DEF RequestsInv
  <1>5. StoreAndTable
    BY DEF StoreAndTable, HasRow
  <1>6. ChunksHaveRows
    BY DEF ChunksHaveRows
  <1> QED
    BY <1>1, <1>2, <1>3, <1>4, <1>5, <1>6 DEF PlacesInv

------------------------------------------------------------------------------
(* Types. *)

LEMMA RunIsRun ==
    ASSUME TypeOK, JobsInv, NEW j \in Jobs, InProgress(j)
    PROVE  Run(j) \in Runs
  <1>1. starts[j] \in 0 .. MaxTries /\ starts[j] # 0
    BY DEF TypeOK, JobsInv
  <1>2. starts[j] \in 1 .. MaxTries
    BY <1>1, DocumentsAssumption
  <1> QED
    BY <1>2 DEF Run, Runs

LEMMA UploadTypes ==
    ASSUME TypeOK, NEW u \in Uploads, UploadStep(u)
    PROVE  TypeOK'
  <1> USE DEF TypeOK, Uploading, tables, objects, jobs, requests
  <1>0. u \in Docs /\ u \in Jobs
    BY DEF Docs, Jobs
  <1>1. CASE HeadBucket(u)
    BY <1>1 DEF HeadBucket
  <1>2. CASE CreateBucket(u)
    BY <1>2 DEF CreateBucket
  <1>3. CASE PutObject(u)
    BY <1>0, <1>3 DEF PutObject
  <1>4. CASE InsertRow(u)
    BY <1>0, <1>4 DEF InsertRow
  <1>5. CASE EnqueueUpload(u)
    BY <1>0, <1>5 DEF EnqueueUpload, Phases
  <1>6. CASE UploadFails(u)
    BY <1>6 DEF UploadFails
  <1> QED
    BY <1>1, <1>2, <1>3, <1>4, <1>5, <1>6 DEF UploadStep

LEMMA DeleteTypes ==
    ASSUME TypeOK, RequestsInv, NEW x \in Deletes, DeleteStep(x)
    PROVE  TypeOK'
  <1> USE DEF TypeOK, Requesting, tables, objects, jobs, requests
  <1>1. ASSUME NEW d \in Docs, LoadForDelete(x, d) PROVE TypeOK'
    BY <1>1 DEF LoadForDelete
  <1>2. CASE DeleteObject(x)
    <2>1. subject[x] \in Docs
      BY <1>2 DEF DeleteObject, RequestsInv
    <2> QED
      BY <1>2, <2>1 DEF DeleteObject
  <1>3. CASE DeleteRow(x)
    BY <1>3 DEF DeleteRow, RowAfterObject, Cascade
  <1>4. CASE DeleteFails(x)
    BY <1>4 DEF DeleteFails
  <1> QED
    BY <1>1, <1>2, <1>3, <1>4 DEF DeleteStep

LEMMA JobTypes ==
    ASSUME TypeOK, JobsInv, NEW j \in Jobs, JobStep(j) \/ JobFails(j) \/ WorkerDies(j)
    PROVE  TypeOK'
  <1> USE DocumentsAssumption DEF TypeOK, At, Goes, Phases, Running, tables, objects, jobs, requests
  <1>1. CASE Start(j)
    <2>1. starts[j] + 1 \in 0 .. MaxTries
      BY <1>1 DEF Start, JobsInv
    <2>2. disturbed' \subseteq Docs /\ phase' \in [Jobs -> Phases]
      BY <1>1 DEF Start, JobsInv
    <2> QED
      BY <1>1, <2>1, <2>2 DEF Start
  <1>2. CASE Download(j)
    BY <1>2 DEF Download
  <1>3. CASE GenerateAndCommit(j)
    <2> DEFINE d == doc[j]
               mine == IF d \in Blank THEN {} ELSE {Run(j)}
               all == batches[d] \cup mine
    <2>1. d \in Docs /\ Run(j) \in Runs
      BY <1>3, RunIsRun DEF GenerateAndCommit, JobsInv, InProgress
    <2>2. all \subseteq Runs
      BY <2>1
    <2>3. Embeds(Run(j), all) \subseteq Runs \X Runs
      BY <2>1, <2>2 DEF Embeds
    <2>4. /\ status' \in [Docs -> {"none", "uploaded", "chunked", "indexed"}]
          /\ phase' \in [Jobs -> Phases]
      BY <1>3 DEF GenerateAndCommit
    <2>5. batches' \in [Docs -> SUBSET Runs]
      BY <1>3, <2>2 DEF GenerateAndCommit
    <2>6. embedded' \subseteq Runs \X Runs
      BY <1>3, <2>3 DEF GenerateAndCommit
    <2> QED
      BY <1>3, <2>4, <2>5, <2>6 DEF GenerateAndCommit
  <1>4. CASE ChooseEmbeddings(j)
    BY <1>4 DEF ChooseEmbeddings
  <1>5. CASE DeleteEmbeddings(j)
    BY <1>5 DEF DeleteEmbeddings
  <1>6. CASE RegenerateAndCommit(j)
    <2>1. doc[j] \in Docs /\ Run(j) \in Runs
      BY <1>6, RunIsRun DEF RegenerateAndCommit, JobsInv, InProgress
    <2>2. Embeds(Run(j), batches[doc[j]]) \subseteq Runs \X Runs
      BY <2>1 DEF Embeds
    <2>3. status' \in [Docs -> {"none", "uploaded", "chunked", "indexed"}]
      BY <1>6, <2>1 DEF RegenerateAndCommit
    <2> QED
      BY <1>6, <2>2, <2>3 DEF RegenerateAndCommit
  <1>7. CASE Finish(j)
    BY <1>7 DEF Finish
  <1>8. CASE JobFails(j)
    BY <1>8 DEF JobFails
  <1>9. CASE WorkerDies(j)
    BY <1>9 DEF WorkerDies
  <1> QED
    BY <1>1, <1>2, <1>3, <1>4, <1>5, <1>6, <1>7, <1>8, <1>9 DEF JobStep

------------------------------------------------------------------------------
(* What a step leaves alone. *)

\* A job's document and kind are settled when it is enqueued, and it never is idle again.
LEMMA JobsSettled ==
    ASSUME TypeOK, JobsInv, Next, NEW j \in Jobs, phase[j] # "idle"
    PROVE  doc'[j] = doc[j] /\ kind'[j] = kind[j] /\ phase'[j] # "idle"
  <1> USE DEF TypeOK, Goes, At, jobs, vars
  <1>1. ASSUME NEW u \in Uploads, UploadStep(u) PROVE doc'[j] = doc[j] /\ kind'[j] = kind[j] /\ phase'[j] # "idle"
    <2>1. CASE EnqueueUpload(u)
      BY <2>1 DEF EnqueueUpload
    <2>2. CASE ~EnqueueUpload(u)
      BY <1>1, <2>2 DEF UploadStep, HeadBucket, CreateBucket, PutObject, InsertRow, UploadFails
    <2> QED
      BY <2>1, <2>2
  <1>2. ASSUME NEW x \in Deletes, DeleteStep(x) PROVE doc'[j] = doc[j] /\ kind'[j] = kind[j] /\ phase'[j] # "idle"
    BY <1>2 DEF DeleteStep, LoadForDelete, DeleteObject, DeleteRow, DeleteFails
  <1>3. ASSUME NEW i \in Calls, NEW k \in Kinds, NEW d \in Docs, Enqueue(i, k, d)
        PROVE  doc'[j] = doc[j] /\ kind'[j] = kind[j] /\ phase'[j] # "idle"
    BY <1>3 DEF Enqueue
  <1>4. ASSUME NEW i \in Jobs, JobStep(i) \/ JobFails(i) \/ WorkerDies(i)
        PROVE  doc'[j] = doc[j] /\ kind'[j] = kind[j] /\ phase'[j] # "idle"
    <2>1. doc' = doc /\ kind' = kind
      BY <1>4 DEF JobStep, Start, Download, GenerateAndCommit, ChooseEmbeddings, DeleteEmbeddings,
                  RegenerateAndCommit, Finish, JobFails, WorkerDies
    <2>2. phase'[j] # "idle"
      BY <1>4 DEF JobStep, Start, Download, GenerateAndCommit, ChooseEmbeddings, DeleteEmbeddings,
                  RegenerateAndCommit, Finish, JobFails, WorkerDies
    <2> QED
      BY <2>1, <2>2
  <1>5. CASE Terminated
    BY <1>5 DEF Terminated
  <1> QED
    BY <1>1, <1>2, <1>3, <1>4, <1>5 DEF Next

\* No job makes or takes away a row, and none touches the store or a request.
LEMMA JobsKeepRows ==
    ASSUME PlacesInv, NEW j \in Jobs, JobStep(j) \/ JobFails(j) \/ WorkerDies(j)
    PROVE  UNCHANGED objects /\ UNCHANGED requests /\ UNCHANGED doc /\ \A d \in Docs : HasRow(d)' <=> HasRow(d)
  <1>1. UNCHANGED objects /\ UNCHANGED requests /\ UNCHANGED doc
    BY DEF JobStep, Start, Download, GenerateAndCommit, ChooseEmbeddings, DeleteEmbeddings,
           RegenerateAndCommit, Finish, JobFails, WorkerDies
  <1>2. TypeOK /\ JobsInv /\ ChunksHaveRows
    BY DEF PlacesInv
  <1>3. ASSUME NEW d \in Docs PROVE HasRow(d)' <=> HasRow(d)
    <2>1. CASE GenerateAndCommit(j)
      BY <1>2, <2>1 DEF GenerateAndCommit, TypeOK, HasRow, tables
    <2>2. CASE RegenerateAndCommit(j)
      <3>1. batches[doc[j]] # {} /\ doc[j] \in Docs => HasRow(doc[j])
        BY <1>2 DEF ChunksHaveRows
      <3>2. doc[j] \in Docs
        BY <1>2, <2>2 DEF RegenerateAndCommit, At, JobsInv
      <3> QED
        BY <1>2, <2>2, <3>1, <3>2 DEF RegenerateAndCommit, TypeOK, HasRow
    <2>3. CASE ~GenerateAndCommit(j) /\ ~RegenerateAndCommit(j)
      BY <2>3 DEF JobStep, Start, Download, ChooseEmbeddings, DeleteEmbeddings, Finish, JobFails,
                  WorkerDies, tables, HasRow
    <2> QED
      BY <2>1, <2>2, <2>3
  <1> QED
    BY <1>1, <1>3

------------------------------------------------------------------------------
(* Jobs. *)

LEMMA JobsStep ==
    ASSUME PlacesInv, Next
    PROVE  JobsInv'
  <1>1. TypeOK /\ JobsInv /\ UploadsInv
    BY DEF PlacesInv
  <1>2. MaxTries \in Nat \ {0} /\ \A j \in Jobs : starts[j] \in 0 .. MaxTries
    BY <1>1, DocumentsAssumption DEF TypeOK
  <1>3. CASE UNCHANGED jobs
    BY <1>1, <1>3 DEF JobsInv, InProgress, jobs
  <1> USE <1>1, <1>2 DEF TypeOK, JobsInv, InProgress, Running, Goes, At
  <1>4. ASSUME NEW u \in Uploads, EnqueueUpload(u), phase' # phase PROVE JobsInv'
    <2>1. u \in Jobs /\ u \in Docs
      BY DEF Jobs, Docs
    <2>2. phase[u] = "idle" /\ doc[u] = u
      BY <1>4 DEF EnqueueUpload, Uploading, UploadsInv
    <2> QED
      BY <1>4, <2>1, <2>2 DEF EnqueueUpload
  <1>5. ASSUME NEW j \in Calls, NEW k \in Kinds, NEW d \in Docs, Enqueue(j, k, d) PROVE JobsInv'
    <2>1. j \in Jobs
      BY DEF Jobs
    <2> QED
      BY <1>5, <2>1 DEF Enqueue
  <1>6. ASSUME NEW j \in Jobs, Start(j) PROVE JobsInv'
    <2>1. starts[j] + 1 # 0
      BY <1>2
    <2> QED
      BY <1>6, <2>1 DEF Start
  <1>7. ASSUME NEW j \in Jobs, Download(j) PROVE JobsInv'
    BY <1>7 DEF Download
  <1>8. ASSUME NEW j \in Jobs, GenerateAndCommit(j) PROVE JobsInv'
    <2>1. phase' \in {[phase EXCEPT ![j] = "committed"], [phase EXCEPT ![j] = "failed"]}
      BY <1>8 DEF GenerateAndCommit
    <2> QED
      BY <1>8, <2>1 DEF GenerateAndCommit
  <1>9. ASSUME NEW j \in Jobs, ChooseEmbeddings(j) PROVE JobsInv'
    BY <1>9 DEF ChooseEmbeddings
  <1>10. ASSUME NEW j \in Jobs, DeleteEmbeddings(j) PROVE JobsInv'
    BY <1>10 DEF DeleteEmbeddings
  <1>11. ASSUME NEW j \in Jobs, RegenerateAndCommit(j) PROVE JobsInv'
    BY <1>11 DEF RegenerateAndCommit
  <1>12. ASSUME NEW j \in Jobs, Finish(j) \/ JobFails(j) PROVE JobsInv'
    BY <1>12 DEF Finish, JobFails
  <1>13. ASSUME NEW j \in Jobs, WorkerDies(j) PROVE JobsInv'
    BY <1>13 DEF WorkerDies, HasTries
  <1>14. ASSUME NEW u \in Uploads, UploadStep(u) PROVE JobsInv'
    <2>1. CASE EnqueueUpload(u)
      BY <1>3, <1>4, <2>1 DEF EnqueueUpload, jobs
    <2>2. CASE ~EnqueueUpload(u)
      BY <1>3, <1>14, <2>2 DEF UploadStep, HeadBucket, CreateBucket, PutObject, InsertRow, UploadFails
    <2> QED
      BY <2>1, <2>2
  <1>15. ASSUME NEW x \in Deletes, DeleteStep(x) PROVE JobsInv'
    BY <1>3, <1>15 DEF DeleteStep, LoadForDelete, DeleteObject, DeleteRow, DeleteFails
  <1>16. CASE Terminated
    BY <1>3, <1>16 DEF Terminated, vars
  <1> QED
    BY <1>5, <1>6, <1>7, <1>8, <1>9, <1>10, <1>11, <1>12, <1>13, <1>14, <1>15, <1>16 DEF Next, JobStep

------------------------------------------------------------------------------
(* Uploads, requests, rows and objects, and what a step of each does to them. *)

Places == UploadsInv /\ RequestsInv /\ ChunksHaveRows /\ StoreAndTable

LEMMA PlacesUpload ==
    ASSUME PlacesInv, NEW u \in Uploads, UploadStep(u)
    PROVE  Places'
  <1>1. TypeOK /\ UploadsInv /\ RequestsInv /\ ChunksHaveRows /\ StoreAndTable
    BY DEF PlacesInv
  <1>2. u \in Docs /\ u \in Jobs
    BY DEF Docs, Jobs
  <1> USE <1>1, <1>2 DEF TypeOK, Uploading, HasRow, objects, tables, jobs
  <1>3. CASE HeadBucket(u) \/ CreateBucket(u) \/ UploadFails(u)
    <2>1. /\ UNCHANGED <<store, tables, doc, phase, request, subject, emptied>>
          /\ upload[u] \in {"new", "create", "put", "stored"}
          /\ \E to \in {"create", "put", "failed"} : upload' = [upload EXCEPT ![u] = to]
      BY <1>3 DEF HeadBucket, CreateBucket, UploadFails
    <2>2. UploadsInv'
      BY <2>1 DEF UploadsInv
    <2>3. RequestsInv'
      BY <2>1 DEF RequestsInv
    <2>4. ChunksHaveRows'
      BY <2>1 DEF ChunksHaveRows
    <2>5. StoreAndTable'
      <3>1. u \in store => upload'[u] = "failed"
        BY <1>3 DEF HeadBucket, CreateBucket, UploadFails, StoreAndTable, UploadsInv
      <3> QED
        BY <2>1, <3>1 DEF StoreAndTable
    <2> QED
      BY <2>2, <2>3, <2>4, <2>5 DEF Places
  <1>4. CASE PutObject(u)
    <2>1. UploadsInv'
      BY <1>4 DEF PutObject, UploadsInv
    <2>2. RequestsInv'
      BY <1>4 DEF PutObject, RequestsInv
    <2>3. ChunksHaveRows' /\ StoreAndTable'
      BY <1>4 DEF PutObject, ChunksHaveRows, StoreAndTable
    <2> QED
      BY <2>1, <2>2, <2>3 DEF Places
  <1>5. CASE InsertRow(u)
    <2>1. UploadsInv'
      BY <1>5 DEF InsertRow, UploadsInv
    <2>2. RequestsInv'
      BY <1>5 DEF InsertRow, RequestsInv
    <2>3. ChunksHaveRows'
      BY <1>5 DEF InsertRow, ChunksHaveRows
    <2>4. StoreAndTable'
      BY <1>5 DEF InsertRow, StoreAndTable, UploadsInv
    <2> QED
      BY <2>1, <2>2, <2>3, <2>4 DEF Places
  <1>6. CASE EnqueueUpload(u)
    <2>1. UploadsInv'
      <3>1. Uploads \subseteq Jobs
        BY DEF Jobs
      <3>2. \A w \in Uploads \ {u} : phase'[w] = phase[w] /\ upload'[w] = upload[w]
        BY <1>6, <3>1 DEF EnqueueUpload
      <3>3. upload[u] = "inserted" /\ upload'[u] = "done" /\ UNCHANGED <<store, status, doc, emptied>>
        BY <1>6 DEF EnqueueUpload
      <3> QED
        BY <3>2, <3>3 DEF UploadsInv
    <2>2. RequestsInv'
      BY <1>6 DEF EnqueueUpload, RequestsInv
    <2>3. ChunksHaveRows' /\ StoreAndTable'
      BY <1>6 DEF EnqueueUpload, ChunksHaveRows, StoreAndTable
    <2> QED
      BY <2>1, <2>2, <2>3 DEF Places
  <1> QED
    BY <1>3, <1>4, <1>5, <1>6 DEF UploadStep

LEMMA PlacesDelete ==
    ASSUME PlacesInv, NEW x \in Deletes, DeleteStep(x)
    PROVE  Places'
  <1>1. TypeOK /\ UploadsInv /\ RequestsInv /\ ChunksHaveRows /\ StoreAndTable
    BY DEF PlacesInv
  <1> USE <1>1 DEF TypeOK, Requesting, HasRow, objects, tables, jobs
  <1>2. ASSUME NEW d \in Docs, LoadForDelete(x, d) PROVE Places'
    <2>1. RequestsInv'
      <3>1. d \in Uploads /\ HasRow(d) => upload[d] \in {"inserted", "done"}
        BY DEF UploadsInv
      <3> QED
        BY <1>2, <3>1 DEF LoadForDelete, RequestsInv
    <2>2. UploadsInv'
      BY <1>2 DEF LoadForDelete, UploadsInv
    <2>3. ChunksHaveRows' /\ StoreAndTable'
      BY <1>2 DEF LoadForDelete, ChunksHaveRows, StoreAndTable
    <2> QED
      BY <2>1, <2>2, <2>3 DEF Places
  <1>3. CASE DeleteObject(x)
    <2>1. UploadsInv'
      BY <1>3 DEF DeleteObject, UploadsInv
    <2>2. RequestsInv'
      BY <1>3 DEF DeleteObject, RequestsInv
    <2>3. ChunksHaveRows' /\ StoreAndTable'
      BY <1>3 DEF DeleteObject, ChunksHaveRows, StoreAndTable
    <2> QED
      BY <2>1, <2>2, <2>3 DEF Places
  <1>4. CASE DeleteRow(x)
    <2>1. subject[x] \in Docs /\ subject[x] \notin store
      BY <1>4 DEF DeleteRow, RowAfterObject, RequestsInv
    <2>2. /\ status' = [status EXCEPT ![subject[x]] = "none"]
          /\ batches' = [batches EXCEPT ![subject[x]] = {}]
          /\ UNCHANGED <<store, upload, subject, emptied, doc, phase>>
          /\ request' = [request EXCEPT ![x] = "done"]
      BY <1>4 DEF DeleteRow, RowAfterObject, Cascade
    <2> HIDE DEF Requesting
    <2>3. UploadsInv'
      BY <2>2 DEF UploadsInv
    <2>4. RequestsInv'
      BY <2>2 DEF RequestsInv
    <2>5. ChunksHaveRows'
      BY <2>2 DEF ChunksHaveRows
    <2>6. StoreAndTable'
      BY <2>1, <2>2 DEF StoreAndTable
    <2> QED
      BY <2>3, <2>4, <2>5, <2>6 DEF Places
  <1>5. CASE DeleteFails(x)
    <2>1. UploadsInv'
      BY <1>5 DEF DeleteFails, UploadsInv
    <2>2. RequestsInv'
      BY <1>5 DEF DeleteFails, RequestsInv
    <2>3. ChunksHaveRows' /\ StoreAndTable'
      BY <1>5 DEF DeleteFails, ChunksHaveRows, StoreAndTable
    <2> QED
      BY <2>1, <2>2, <2>3 DEF Places
  <1> QED
    BY <1>2, <1>3, <1>4, <1>5 DEF DeleteStep

LEMMA PlacesEnqueue ==
    ASSUME PlacesInv, NEW j \in Calls, NEW k \in Kinds, NEW d \in Docs, Enqueue(j, k, d)
    PROVE  Places'
  <1>1. TypeOK /\ UploadsInv /\ RequestsInv /\ ChunksHaveRows /\ StoreAndTable
    BY DEF PlacesInv
  <1>2. j \in Jobs /\ j \notin Uploads /\ Uploads \subseteq Jobs
    BY DocumentsAssumption DEF Jobs
  <1> USE <1>1, <1>2 DEF TypeOK, Goes, At, HasRow, objects, tables, requests, Enqueue
  <1>3. UploadsInv'
    BY DEF UploadsInv
  <1>4. RequestsInv' /\ ChunksHaveRows' /\ StoreAndTable'
    BY DEF RequestsInv, ChunksHaveRows, StoreAndTable
  <1> QED
    BY <1>3, <1>4 DEF Places

LEMMA PlacesJob ==
    ASSUME PlacesInv, NEW j \in Jobs, JobStep(j) \/ JobFails(j) \/ WorkerDies(j)
    PROVE  Places'
  <1>1. TypeOK /\ JobsInv /\ UploadsInv /\ RequestsInv /\ ChunksHaveRows /\ StoreAndTable
    BY DEF PlacesInv
  <1>2. UNCHANGED objects /\ UNCHANGED requests /\ UNCHANGED doc
    BY JobsKeepRows
  <1>3. \A d \in Docs : HasRow(d)' <=> HasRow(d)
    BY JobsKeepRows
  <1>4. \A i \in Jobs : phase[i] = "idle" => phase'[i] = "idle"
    <2>1. phase[j] # "idle"
      BY DEF JobStep, Start, Download, GenerateAndCommit, ChooseEmbeddings, DeleteEmbeddings,
             RegenerateAndCommit, Finish, JobFails, WorkerDies, InProgress, Running, At
    <2>2. \E p \in Phases : phase' = [phase EXCEPT ![j] = p]
      BY DEF JobStep, Start, Download, GenerateAndCommit, ChooseEmbeddings, DeleteEmbeddings,
             RegenerateAndCommit, Finish, JobFails, WorkerDies, Goes, Phases, Running
    <2> QED
      BY <1>1, <2>1, <2>2 DEF TypeOK
  <1>5. UploadsInv'
    <2>1. Uploads \subseteq Docs /\ Uploads \subseteq Jobs
      BY DEF Docs, Jobs
    <2> QED
      BY <1>1, <1>2, <1>3, <1>4, <2>1 DEF UploadsInv, objects, requests
  <1>6. RequestsInv'
    BY <1>1, <1>2 DEF RequestsInv, objects, requests
  <1>7. ChunksHaveRows'
    <2>1. ASSUME NEW d \in Docs, ~HasRow(d) PROVE batches'[d] = {}
      <3>1. CASE GenerateAndCommit(j)
        BY <1>1, <2>1, <3>1 DEF GenerateAndCommit, tables, TypeOK, ChunksHaveRows
      <3>2. CASE ~GenerateAndCommit(j)
        <4>1. batches' = batches
          BY <3>2 DEF JobStep, Start, Download, ChooseEmbeddings, DeleteEmbeddings,
                      RegenerateAndCommit, Finish, JobFails, WorkerDies, tables
        <4> QED
          BY <1>1, <2>1, <4>1 DEF ChunksHaveRows
      <3> QED
        BY <3>1, <3>2
    <2> QED
      BY <1>3, <2>1 DEF ChunksHaveRows
  <1>8. StoreAndTable'
    <2>1. store \subseteq Docs
      BY <1>1 DEF TypeOK
    <2> QED
      BY <1>1, <1>2, <1>3, <2>1 DEF StoreAndTable, objects, requests
  <1> QED
    BY <1>5, <1>6, <1>7, <1>8 DEF Places

LEMMA PlacesStep == PlacesInv /\ [Next]_vars => PlacesInv'
  <1>1. ASSUME PlacesInv, Next PROVE TypeOK'
    <2>1. TypeOK /\ JobsInv /\ RequestsInv
      BY <1>1 DEF PlacesInv
    <2>2. ASSUME NEW j \in Calls, NEW k \in Kinds, NEW d \in Docs, Enqueue(j, k, d) PROVE TypeOK'
      BY <2>1, <2>2 DEF Enqueue, TypeOK, Goes, Phases, Running, Jobs, objects, tables, requests
    <2>3. CASE Terminated
      BY <2>1, <2>3 DEF Terminated, vars, TypeOK, objects, tables, requests, jobs
    <2> QED
      BY <1>1, <2>1, <2>2, <2>3, UploadTypes, DeleteTypes, JobTypes DEF Next
  <1>2. ASSUME PlacesInv, UNCHANGED vars PROVE Places' /\ JobsInv' /\ TypeOK'
    <2>1. TypeOK /\ JobsInv /\ UploadsInv /\ RequestsInv /\ ChunksHaveRows /\ StoreAndTable
      BY <1>2 DEF PlacesInv
    <2> USE <1>2, <2>1 DEF vars, objects, tables, requests, jobs
    <2>2. TypeOK'
      BY DEF TypeOK
    <2>3. JobsInv'
      BY DEF JobsInv, InProgress
    <2>4. UploadsInv' /\ RequestsInv'
      BY DEF UploadsInv, RequestsInv, HasRow
    <2>5. ChunksHaveRows' /\ StoreAndTable'
      BY DEF ChunksHaveRows, StoreAndTable, HasRow
    <2> QED
      BY <2>2, <2>3, <2>4, <2>5 DEF Places
  <1>3. ASSUME PlacesInv, Next PROVE Places'
    <2>1. CASE Terminated
      BY <1>2, <1>3, <2>1 DEF Terminated
    <2> QED
      BY <1>3, <2>1, PlacesUpload, PlacesDelete, PlacesEnqueue, PlacesJob DEF Next
  <1>4. ASSUME PlacesInv, Next PROVE JobsInv'
    BY <1>4, JobsStep
  <1> QED
    BY <1>1, <1>2, <1>3, <1>4 DEF PlacesInv, Places

------------------------------------------------------------------------------
(* Chunks and embeddings. *)

\* The chunks of a document were made by jobs for it, and a reindex has chosen among
\* the embeddings of its document's chunks.
OwnRuns ==
    /\ \A d \in Docs : \A b \in batches[d] : phase[b[1]] # "idle" /\ doc[b[1]] = d
    /\ \A j \in Jobs : \A e \in chosen[j] \cup doomed[j] :
          phase[e[1][1]] # "idle" /\ doc[e[1][1]] = doc[j]

\* The embeddings of d's chunks.
Shown(d) == {e \in embedded : e[1] \in batches[d]}

\* What a job that is alone with d knows of it.
Knows(j, d) ==
    /\ kind[j] = "generate" /\ phase[j] \in {"loaded", "fetched"} => batches[d] = {}
    /\ phase[j] = "deleting" => Shown(d) \subseteq chosen[j]
    /\ phase[j] = "deleted" => Shown(d) \subseteq doomed[j]

Alone(d) == \A i, j \in Jobs : InProgress(i) /\ InProgress(j) /\ doc[i] = d /\ doc[j] = d => i = j

Single(d) == \A e, f \in Shown(d) : e = f

OnceInv ==
    \A d \in Docs \ disturbed : Alone(d) /\ Single(d) /\ \A j \in Jobs : doc[j] = d => Knows(j, d)

IndexInv == PlacesInv /\ IndexComplete /\ OwnRuns /\ OnceInv

LEMMA IndexStarts == Init => IndexInv
  <1> SUFFICES ASSUME Init PROVE IndexInv
    OBVIOUS
  <1>1. PlacesInv
    BY PlacesStart
  <1>2. IndexComplete
    BY DEF Init, IndexComplete
  <1>3. OwnRuns
    BY DEF Init, OwnRuns
  <1>4. OnceInv
    BY DEF Init, OnceInv, Alone, Single, Knows, Shown, InProgress, Running
  <1> QED
    BY <1>1, <1>2, <1>3, <1>4 DEF IndexInv

LEMMA IndexImplies == IndexInv => TypeOK /\ StoreAndTable /\ IndexConsistent
  <1> SUFFICES ASSUME IndexInv PROVE TypeOK /\ StoreAndTable /\ IndexConsistent
    OBVIOUS
  <1>1. IndexedOnce
    BY DEF IndexInv, OnceInv, Single, Shown, IndexedOnce, SearchRows
  <1> QED
    BY <1>1 DEF IndexInv, PlacesInv, IndexConsistent

------------------------------------------------------------------------------
\* Chunks are added by a job in progress for their document, and chosen by one.
LEMMA OwnRunsStep ==
    ASSUME IndexInv, Next
    PROVE  OwnRuns'
  <1>1. TypeOK /\ JobsInv /\ OwnRuns
    BY DEF IndexInv, PlacesInv
  <1>2. ASSUME NEW d \in Docs, NEW b \in batches'[d]
        PROVE  b \in batches[d] \/ (b[1] \in Jobs /\ phase[b[1]] # "idle" /\ doc[b[1]] = d)
    <2>1. CASE \E j \in Jobs : GenerateAndCommit(j)
      <3>1. PICK j \in Jobs : GenerateAndCommit(j)
        BY <2>1
      <3>2. Run(j)[1] = j /\ phase[j] # "idle"
        BY <3>1 DEF Run, GenerateAndCommit, At
      <3> QED
        BY <1>1, <1>2, <3>1, <3>2 DEF GenerateAndCommit, TypeOK, tables
    <2>2. CASE \E x \in Deletes : DeleteRow(x)
      BY <1>1, <1>2, <2>2 DEF DeleteRow, Cascade, TypeOK
    <2>3. CASE ~(\E j \in Jobs : GenerateAndCommit(j)) /\ ~(\E x \in Deletes : DeleteRow(x))
      <3>1. batches' = batches
        BY <2>3 DEF Next, UploadStep, HeadBucket, CreateBucket, PutObject, InsertRow, EnqueueUpload, UploadFails,
                    DeleteStep, LoadForDelete, DeleteObject, DeleteFails, Enqueue, JobStep, Start, Download,
                    ChooseEmbeddings, DeleteEmbeddings, RegenerateAndCommit, Finish, JobFails, WorkerDies,
                    Terminated, vars, tables
      <3> QED
        BY <1>2, <3>1
    <2> QED
      BY <2>1, <2>2, <2>3
  <1>3. ASSUME NEW j \in Jobs, NEW e \in chosen'[j] \cup doomed'[j]
        PROVE  e \in chosen[j] \cup doomed[j] \/ (phase[j] # "idle" /\ e[1] \in batches[doc[j]])
    <2>1. CASE \E i \in Jobs : ChooseEmbeddings(i)
      BY <1>1, <1>3, <2>1 DEF ChooseEmbeddings, At, TypeOK
    <2>2. CASE \E i \in Jobs : DeleteEmbeddings(i)
      BY <1>1, <1>3, <2>2 DEF DeleteEmbeddings, TypeOK
    <2>3. CASE ~(\E i \in Jobs : ChooseEmbeddings(i)) /\ ~(\E i \in Jobs : DeleteEmbeddings(i))
      <3>1. UNCHANGED <<chosen, doomed>>
        BY <2>3 DEF Next, UploadStep, HeadBucket, CreateBucket, PutObject, InsertRow, EnqueueUpload, UploadFails,
                    DeleteStep, LoadForDelete, DeleteObject, DeleteRow, DeleteFails, Enqueue, JobStep, Start,
                    Download, GenerateAndCommit, RegenerateAndCommit, Finish, JobFails, WorkerDies,
                    Terminated, vars, jobs
      <3> QED
        BY <1>3, <3>1
    <2> QED
      BY <2>1, <2>2, <2>3
  <1>4. ASSUME NEW d \in Docs, NEW b \in batches'[d] PROVE phase'[b[1]] # "idle" /\ doc'[b[1]] = d
    <2>1. phase[b[1]] # "idle" /\ doc[b[1]] = d
      BY <1>1, <1>2, <1>4 DEF OwnRuns
    <2>2. b[1] \in Jobs
      BY <1>1, <1>2, <1>4 DEF TypeOK, Runs
    <2> QED
      BY <1>1, <2>1, <2>2, JobsSettled
  <1>5. ASSUME NEW j \in Jobs, NEW e \in chosen'[j] \cup doomed'[j]
        PROVE  phase'[e[1][1]] # "idle" /\ doc'[e[1][1]] = doc'[j]
    <2>1. phase[j] # "idle"
      BY <1>1, <1>3, <1>5 DEF JobsInv
    <2>2. doc[j] \in Docs
      BY <1>1, <2>1 DEF JobsInv
    <2>3. phase[e[1][1]] # "idle" /\ doc[e[1][1]] = doc[j]
      BY <1>1, <1>3, <1>5, <2>2 DEF OwnRuns
    <2>4. e[1][1] \in Jobs
      <3>1. CASE e \in chosen[j] \cup doomed[j]
        BY <1>1, <3>1 DEF TypeOK, Runs
      <3>2. CASE e[1] \in batches[doc[j]]
        BY <1>1, <2>2, <3>2 DEF TypeOK, Runs
      <3> QED
        BY <1>3, <1>5, <3>1, <3>2
    <2> QED
      BY <1>1, <2>1, <2>3, <2>4, JobsSettled
  <1> QED
    BY <1>4, <1>5 DEF OwnRuns

\* The steps that change rows, chunks or embeddings are four.
LEMMA TablesStay ==
    ASSUME Next,
           ~(\E u \in Uploads : InsertRow(u)), ~(\E x \in Deletes : DeleteRow(x)),
           ~(\E j \in Jobs : GenerateAndCommit(j)), ~(\E j \in Jobs : RegenerateAndCommit(j))
    PROVE  UNCHANGED tables
  BY DEF Next, UploadStep, HeadBucket, CreateBucket, PutObject, EnqueueUpload, UploadFails,
         DeleteStep, LoadForDelete, DeleteObject, DeleteFails, Enqueue, JobStep, Start, Download,
         ChooseEmbeddings, DeleteEmbeddings, Finish, JobFails, WorkerDies, Terminated, vars, tables

\* No chunk is of two documents.
LEMMA ChunksDisjoint ==
    ASSUME OwnRuns, NEW d \in Docs, NEW c \in Docs, NEW b \in batches[d], b \in batches[c]
    PROVE  c = d
  BY DEF OwnRuns

LEMMA CompleteStep ==
    ASSUME IndexInv, PlacesInv', Next
    PROVE  IndexComplete'
  <1>1. TypeOK /\ JobsInv /\ UploadsInv /\ ChunksHaveRows /\ OwnRuns
    BY DEF IndexInv, PlacesInv
  <1>2. /\ \A e \in embedded : \E d \in Docs : e[1] \in batches[d]
        /\ \A d \in Docs : \A b \in batches[d] : \E e \in embedded : e[1] = b
        /\ \A d \in Docs : status[d] = "indexed" <=> batches[d] # {}
    BY DEF IndexInv, IndexComplete
  <1>3. \A d \in Docs : ~HasRow(d)' => batches'[d] = {}
    BY DEF PlacesInv, ChunksHaveRows
  <1> DEFINE Goal == /\ \A e \in embedded' : \E d \in Docs : e[1] \in batches'[d]
                     /\ \A d \in Docs : \A b \in batches'[d] : \E e \in embedded' : e[1] = b
                     /\ \A d \in Docs : status'[d] = "indexed" <=> batches'[d] # {}
  <1>4. ASSUME UNCHANGED tables PROVE Goal
    BY <1>2, <1>4 DEF tables
  <1>5. ASSUME NEW u \in Uploads, InsertRow(u) PROVE Goal
    <2>1. u \in Docs /\ batches[u] = {}
      BY <1>1, <1>5 DEF Docs, InsertRow, Uploading, UploadsInv, ChunksHaveRows
    <2> QED
      BY <1>1, <1>2, <1>5, <2>1 DEF InsertRow, TypeOK
  <1>6. ASSUME NEW x \in Deletes, DeleteRow(x) PROVE Goal
    <2> DEFINE c == subject[x]
    <2>1. c \in Docs
      BY <1>6 DEF DeleteRow, RowAfterObject, Requesting, RequestsInv, IndexInv, PlacesInv
    <2>2. /\ status' = [status EXCEPT ![c] = "none"] /\ batches' = [batches EXCEPT ![c] = {}]
          /\ embedded' = {e \in embedded : e[1] \notin batches[c]}
      BY <1>6 DEF DeleteRow, Cascade
    <2>3. batches'[c] = {} /\ status'[c] = "none"
      BY <1>1, <2>1, <2>2 DEF TypeOK
    <2>4. \A d \in Docs \ {c} : batches'[d] = batches[d] /\ status'[d] = status[d]
      BY <1>1, <2>2 DEF TypeOK
    <2>5. ASSUME NEW e \in embedded' PROVE \E d \in Docs : e[1] \in batches'[d]
      BY <1>2, <2>2, <2>4
    <2>6. ASSUME NEW d \in Docs, NEW b \in batches'[d] PROVE \E e \in embedded' : e[1] = b
      <3>1. d # c /\ b \in batches[d]
        BY <2>3, <2>4
      <3>2. b \notin batches[c]
        BY <1>1, <2>1, <3>1, ChunksDisjoint
      <3> QED
        BY <1>2, <2>2, <3>1, <3>2
    <2> QED
      BY <1>2, <2>3, <2>4, <2>5, <2>6
  <1>7. ASSUME NEW j \in Jobs, GenerateAndCommit(j), HasRow(doc[j]) PROVE Goal
    <2> DEFINE c == doc[j]
               mine == IF c \in Blank THEN {} ELSE {Run(j)}
               all == batches[c] \cup mine
    <2>1. c \in Docs
      BY <1>1, <1>7 DEF GenerateAndCommit, At, JobsInv
    <2>2. /\ batches' = [batches EXCEPT ![c] = all]
          /\ embedded' = embedded \cup Embeds(Run(j), all)
          /\ status' = [status EXCEPT ![c] = IF all = {} THEN "chunked" ELSE "indexed"]
      BY <1>7 DEF GenerateAndCommit
    <2> HIDE DEF mine
    <2>3. batches'[c] = all /\ (status'[c] = "indexed" <=> all # {})
      BY <1>1, <2>1, <2>2 DEF TypeOK
    <2>4. \A d \in Docs \ {c} : batches'[d] = batches[d] /\ status'[d] = status[d]
      BY <1>1, <2>2 DEF TypeOK
    <2>5. ASSUME NEW e \in embedded' PROVE \E d \in Docs : e[1] \in batches'[d]
      <3>1. CASE e \in embedded
        BY <1>2, <2>1, <2>3, <2>4, <3>1
      <3>2. CASE e \in Embeds(Run(j), all)
        BY <2>1, <2>3, <3>2 DEF Embeds
      <3> QED
        BY <2>2, <3>1, <3>2
    <2>6. ASSUME NEW d \in Docs, NEW b \in batches'[d] PROVE \E e \in embedded' : e[1] = b
      <3>1. CASE d = c
        <4>1. <<b, Run(j)>> \in embedded' /\ <<b, Run(j)>>[1] = b
          BY <2>2, <2>3, <2>6, <3>1 DEF Embeds
        <4> QED
          BY <4>1
      <3>2. CASE d # c
        BY <1>2, <2>2, <2>4, <2>6, <3>2
      <3> QED
        BY <3>1, <3>2
    <2> HIDE DEF all
    <2> QED
      BY <1>2, <2>3, <2>4, <2>5, <2>6
  <1>8. ASSUME NEW j \in Jobs, RegenerateAndCommit(j) PROVE Goal
    <2> DEFINE c == doc[j]
    <2>1. c \in Docs
      BY <1>1, <1>8 DEF RegenerateAndCommit, At, JobsInv
    <2>2. /\ batches' = batches
          /\ embedded' = (embedded \ doomed[j]) \cup Embeds(Run(j), batches[c])
          /\ status' = [status EXCEPT ![c] = IF batches[c] = {} THEN @ ELSE "indexed"]
      BY <1>8 DEF RegenerateAndCommit
    <2>3. \A d \in Docs : status'[d] = "indexed" <=> batches'[d] # {}
      BY <1>1, <1>2, <2>1, <2>2 DEF TypeOK
    <2>4. ASSUME NEW e \in embedded' PROVE \E d \in Docs : e[1] \in batches'[d]
      BY <1>2, <2>1, <2>2 DEF Embeds
    <2>5. ASSUME NEW d \in Docs, NEW b \in batches'[d] PROVE \E e \in embedded' : e[1] = b
      <3>1. CASE d = c
        <4>1. <<b, Run(j)>> \in embedded' /\ <<b, Run(j)>>[1] = b
          BY <2>2, <2>5, <3>1 DEF Embeds
        <4> QED
          BY <4>1
      <3>2. CASE d # c
        <4>1. PICK e \in embedded : e[1] = b
          BY <1>2, <2>2, <2>5
        <4>2. e \notin doomed[j]
          BY <1>1, <2>2, <2>5, <3>2, <4>1 DEF OwnRuns
        <4> QED
          BY <2>2, <4>1, <4>2
      <3> QED
        BY <3>1, <3>2
    <2> QED
      BY <2>3, <2>4, <2>5
  <1>9. ASSUME NEW j \in Jobs, GenerateAndCommit(j) PROVE Goal
    <2>1. CASE HasRow(doc[j])
      BY <1>7, <1>9, <2>1
    <2>2. CASE ~HasRow(doc[j])
      BY <1>4, <1>9, <2>2 DEF GenerateAndCommit
    <2> QED
      BY <2>1, <2>2
  <1>10. Goal
    BY <1>4, <1>5, <1>6, <1>8, <1>9, TablesStay
  <1> QED
    BY <1>3, <1>10 DEF IndexComplete

------------------------------------------------------------------------------
(* Once: a document whose jobs never overlapped. *)

LEMMA DisturbedGrows == Next => disturbed \subseteq disturbed'
  BY DEF Next, UploadStep, HeadBucket, CreateBucket, PutObject, InsertRow, EnqueueUpload, UploadFails,
         DeleteStep, LoadForDelete, DeleteObject, DeleteRow, DeleteFails, Enqueue, JobStep, Start,
         Download, GenerateAndCommit, ChooseEmbeddings, DeleteEmbeddings, RegenerateAndCommit, Finish,
         JobFails, WorkerDies, Terminated, vars, jobs

\* Only a start puts a job in progress.
LEMMA InProgressBefore ==
    ASSUME PlacesInv, Next, NEW i \in Jobs, InProgress(i)', ~Start(i)
    PROVE  InProgress(i)
  <1>1. TypeOK /\ UploadsInv
    BY DEF PlacesInv
  <1> USE <1>1 DEF TypeOK, InProgress, Running, Goes, At, jobs, vars
  <1>2. ASSUME NEW u \in Uploads, UploadStep(u) PROVE InProgress(i)
    <2>1. CASE EnqueueUpload(u)
      BY <2>1 DEF EnqueueUpload
    <2>2. CASE ~EnqueueUpload(u)
      BY <1>2, <2>2 DEF UploadStep, HeadBucket, CreateBucket, PutObject, InsertRow, UploadFails
    <2> QED
      BY <2>1, <2>2
  <1>3. ASSUME NEW x \in Deletes, DeleteStep(x) PROVE InProgress(i)
    BY <1>3 DEF DeleteStep, LoadForDelete, DeleteObject, DeleteRow, DeleteFails
  <1>4. ASSUME NEW j \in Calls, NEW k \in Kinds, NEW d \in Docs, Enqueue(j, k, d) PROVE InProgress(i)
    BY <1>4 DEF Enqueue
  <1>5. ASSUME NEW j \in Jobs, JobStep(j) \/ JobFails(j) \/ WorkerDies(j) PROVE InProgress(i)
    <2>1. CASE i = j
      BY <1>5, <2>1 DEF JobStep, Download, GenerateAndCommit, ChooseEmbeddings, DeleteEmbeddings,
                        RegenerateAndCommit, Finish, JobFails, WorkerDies
    <2>2. CASE i # j
      <3>1. \E p \in Phases : phase' = [phase EXCEPT ![j] = p]
        BY <1>5 DEF JobStep, Start, Download, GenerateAndCommit, ChooseEmbeddings, DeleteEmbeddings,
                    RegenerateAndCommit, Finish, JobFails, WorkerDies, Phases
      <3> QED
        BY <2>2, <3>1
    <2> QED
      BY <2>1, <2>2
  <1>6. CASE Terminated
    BY <1>6 DEF Terminated
  <1> QED
    BY <1>2, <1>3, <1>4, <1>5, <1>6 DEF Next

LEMMA AloneStep ==
    ASSUME IndexInv, Next, NEW d \in Docs \ disturbed'
    PROVE  Alone(d)'
  <1>1. TypeOK /\ JobsInv /\ PlacesInv /\ OnceInv
    BY DEF IndexInv, PlacesInv
  <1>2. Alone(d)
    BY <1>1, DisturbedGrows DEF OnceInv
  <1>3. ASSUME NEW i \in Jobs, NEW j \in Jobs, InProgress(i)', InProgress(j)', doc'[i] = d, doc'[j] = d
        PROVE  i = j
    <2>1. CASE ~Start(i) /\ ~Start(j)
      <3>1. InProgress(i) /\ InProgress(j)
        BY <1>1, <1>3, <2>1, InProgressBefore
      <3>2. phase[i] # "idle" /\ phase[j] # "idle"
        BY <3>1 DEF InProgress, Running
      <3>3. doc[i] = d /\ doc[j] = d
        BY <1>1, <1>3, <3>2, JobsSettled
      <3> QED
        BY <1>2, <3>1, <3>3 DEF Alone
    <2>2. ASSUME NEW k \in Jobs, NEW l \in Jobs, Start(k), InProgress(l)', doc'[l] = d, doc'[k] = d,
                 InProgress(k)', k # l
          PROVE  FALSE
      <3>1. doc' = doc /\ phase' \in {[phase EXCEPT ![k] = "loaded"], [phase EXCEPT ![k] = "failed"]}
        BY <2>2 DEF Start, Goes
      <3>2. phase'[k] = "loaded" /\ phase'[l] = phase[l]
        BY <1>1, <2>2, <3>1 DEF TypeOK, InProgress, Running
      <3>3. phase' # [phase EXCEPT ![k] = "failed"]
        BY <1>1, <3>2 DEF TypeOK
      <3>4. InProgress(l) /\ doc[l] = doc[k] /\ l \in Jobs \ {k}
        BY <2>2, <3>1, <3>2 DEF InProgress
      <3>5. d \in disturbed'
        BY <2>2, <3>1, <3>3, <3>4 DEF Start, Goes
      <3> QED
        BY <3>5
    <2> QED
      BY <1>3, <2>1, <2>2
  <1> QED
    BY <1>3 DEF Alone

\* A step that adds no chunk and no embedding of d, and leaves the jobs in progress alone.
LEMMA KnowledgeStays ==
    ASSUME NEW d \in Docs, NEW j \in Jobs, Knows(j, d), Shown(d)' \subseteq Shown(d), batches'[d] \subseteq batches[d],
           kind'[j] = kind[j], phase'[j] = phase[j], chosen'[j] = chosen[j], doomed'[j] = doomed[j]
    PROVE  Knows(j, d)'
  <1>1. kind'[j] = "generate" /\ phase'[j] \in {"loaded", "fetched"} => batches'[d] = {}
    BY DEF Knows
  <1>2. phase'[j] = "deleting" => Shown(d)' \subseteq chosen'[j]
    BY DEF Knows
  <1>3. phase'[j] = "deleted" => Shown(d)' \subseteq doomed'[j]
    BY DEF Knows
  <1> QED
    BY <1>1, <1>2, <1>3 DEF Knows

\* What is shown of d when a job of another document commits, or one of d does.
LEMMA ShownStep ==
    ASSUME IndexInv, Next, NEW d \in Docs \ disturbed'
    PROVE  \/ /\ Shown(d)' \subseteq Shown(d)
              /\ batches'[d] \subseteq batches[d]
           \/ /\ \E j \in Jobs : doc[j] = d /\ (GenerateAndCommit(j) \/ RegenerateAndCommit(j))
              /\ Single(d)'
  <1>1. TypeOK /\ JobsInv /\ OwnRuns /\ IndexComplete /\ OnceInv
    BY DEF IndexInv, PlacesInv
  <1>2. d \in Docs \ disturbed
    BY DisturbedGrows
  <1>3. Single(d) /\ \A j \in Jobs : doc[j] = d => Knows(j, d)
    BY <1>1, <1>2 DEF OnceInv
  <1> DEFINE Fewer == Shown(d)' \subseteq Shown(d) /\ batches'[d] \subseteq batches[d]
  <1>4. ASSUME UNCHANGED <<batches, embedded>> PROVE Fewer
    BY <1>4 DEF Shown
  <1>5. ASSUME NEW x \in Deletes, DeleteRow(x) PROVE Fewer
    <2>1. batches'[d] \subseteq batches[d] /\ embedded' \subseteq embedded
      BY <1>1, <1>5 DEF DeleteRow, Cascade, TypeOK
    <2> QED
      BY <2>1 DEF Shown
  <1>6. ASSUME NEW u \in Uploads, InsertRow(u) PROVE Fewer
    BY <1>4, <1>6 DEF InsertRow
  <1>7. ASSUME NEW j \in Jobs, GenerateAndCommit(j) PROVE Fewer \/ (doc[j] = d /\ Single(d)')
    <2> DEFINE c == doc[j]
               mine == IF c \in Blank THEN {} ELSE {Run(j)}
               all == batches[c] \cup mine
    <2>0. j \in Jobs /\ c \in Docs /\ phase[j] = "fetched" /\ kind[j] = "generate" /\ Run(j)[1] = j
      BY <1>1, <1>7 DEF GenerateAndCommit, At, JobsInv, Run
    <2>1. CASE ~HasRow(c)
      BY <1>4, <1>7, <2>1 DEF GenerateAndCommit, tables
    <2>2. ASSUME HasRow(c)
          PROVE  /\ batches' = [batches EXCEPT ![c] = all]
                 /\ embedded' = embedded \cup Embeds(Run(j), all)
      BY <1>7, <2>2 DEF GenerateAndCommit
    <2>3. ASSUME HasRow(c), c = d PROVE Single(d)'
      <3>1. batches[d] = {}
        BY <1>3, <2>0, <2>3 DEF Knows
      <3>2. batches'[d] = mine
        BY <1>1, <2>0, <2>2, <2>3, <3>1 DEF TypeOK
      <3>3. \A e \in embedded : e[1] \notin mine
        <4>1. SUFFICES ASSUME NEW e \in embedded, e[1] \in mine PROVE FALSE
          OBVIOUS
        <4>2. PICK b \in Docs : e[1] \in batches[b]
          BY <1>1 DEF IndexComplete
        <4>3. e[1] = Run(j)
          BY <4>1
        <4>4. doc[j] = b
          BY <1>1, <2>0, <4>2, <4>3 DEF OwnRuns
        <4> QED
          BY <2>3, <3>1, <4>2, <4>4
      <3>4. \A e \in Shown(d)' : e = <<Run(j), Run(j)>>
        <4>1. SUFFICES ASSUME NEW e \in embedded', e[1] \in mine PROVE e = <<Run(j), Run(j)>>
          BY <3>2 DEF Shown
        <4>2. e \in Embeds(Run(j), all)
          BY <2>2, <2>3, <3>3, <4>1
        <4>3. all = mine
          BY <2>3, <3>1
        <4> QED
          BY <4>1, <4>2, <4>3 DEF Embeds
      <3> QED
        BY <3>4 DEF Single
    <2>4. ASSUME HasRow(c), c # d PROVE Fewer
      <3>1. batches'[d] = batches[d]
        BY <1>1, <2>0, <2>2, <2>4 DEF TypeOK
      <3>2. ASSUME NEW e \in Embeds(Run(j), all), e[1] \in batches[d] PROVE FALSE
        <4>1. e[1] \in batches[c] \/ e[1] = Run(j)
          BY <3>2 DEF Embeds
        <4>2. doc[e[1][1]] = c
          BY <1>1, <2>0, <4>1 DEF OwnRuns
        <4>3. doc[e[1][1]] = d
          BY <1>1, <3>2 DEF OwnRuns
        <4> QED
          BY <2>4, <4>2, <4>3
      <3> QED
        BY <2>2, <2>4, <3>1, <3>2 DEF Shown
    <2> QED
      BY <2>1, <2>3, <2>4
  <1>8. ASSUME NEW j \in Jobs, RegenerateAndCommit(j) PROVE Fewer \/ (doc[j] = d /\ Single(d)')
    <2> DEFINE c == doc[j]
    <2>1. c \in Docs /\ phase[j] = "deleted"
      BY <1>1, <1>8 DEF RegenerateAndCommit, At, JobsInv
    <2>2. /\ batches' = batches
          /\ embedded' = (embedded \ doomed[j]) \cup Embeds(Run(j), batches[c])
      BY <1>8 DEF RegenerateAndCommit
    <2>3. ASSUME c = d PROVE Single(d)'
      <3>1. Shown(d) \subseteq doomed[j]
        BY <1>3, <2>1, <2>3 DEF Knows
      <3>2. \A b, q \in batches[d] : b = q
        <4>1. SUFFICES ASSUME NEW b \in batches[d], NEW q \in batches[d] PROVE b = q
          OBVIOUS
        <4>2. PICK e \in embedded : e[1] = b
          BY <1>1, <4>1 DEF IndexComplete
        <4>3. PICK f \in embedded : f[1] = q
          BY <1>1, <4>1 DEF IndexComplete
        <4> QED
          BY <1>3, <4>2, <4>3 DEF Single, Shown
      <3>3. \A e \in Shown(d)' : \E b \in batches[d] : e = <<b, Run(j)>>
        <4>1. SUFFICES ASSUME NEW e \in embedded', e[1] \in batches[d]
                       PROVE  \E b \in batches[d] : e = <<b, Run(j)>>
          BY <2>2 DEF Shown
        <4>2. e \in Embeds(Run(j), batches[d])
          BY <2>2, <2>3, <3>1, <4>1 DEF Shown
        <4> QED
          BY <4>2 DEF Embeds
      <3> QED
        BY <3>2, <3>3 DEF Single
    <2>4. ASSUME c # d PROVE Fewer
      <3>1. ASSUME NEW e \in Embeds(Run(j), batches[c]), e[1] \in batches[d] PROVE FALSE
        BY <1>1, <2>1, <2>4, <3>1, ChunksDisjoint DEF Embeds
      <3> QED
        BY <2>2, <3>1 DEF Shown
    <2> QED
      BY <2>3, <2>4
  <1>9. Fewer \/ \E j \in Jobs : doc[j] = d /\ (GenerateAndCommit(j) \/ RegenerateAndCommit(j)) /\ Single(d)'
    BY <1>4, <1>5, <1>6, <1>7, <1>8, TablesStay DEF tables
  <1> QED
    BY <1>9

\* A job of an undisturbed document goes on with what it knows of it.
LEMMA KnowledgeStep ==
    ASSUME IndexInv, Next, NEW d \in Docs \ disturbed', NEW j \in Jobs, doc'[j] = d
    PROVE  Knows(j, d)'
  <1>1. TypeOK /\ JobsInv /\ UploadsInv /\ PlacesInv /\ OnceInv
    BY DEF IndexInv, PlacesInv
  <1>2. d \in Docs \ disturbed
    BY DisturbedGrows
  <1>3. CASE phase'[j] \notin {"loaded", "fetched", "deleting", "deleted"}
    BY <1>3 DEF Knows
  <1>4. CASE Start(j)
    <2>1. doc[j] = d /\ UNCHANGED tables /\ kind' = kind
      BY <1>4 DEF Start
    <2>2. phase'[j] \in {"loaded", "failed"}
      BY <1>1, <1>4 DEF Start, Goes, TypeOK
    <2>3. ASSUME phase'[j] = "loaded", kind[j] = "generate" PROVE batches[d] = {}
      <3>1. phase' # [phase EXCEPT ![j] = "failed"]
        BY <1>1, <2>3 DEF TypeOK
      <3> QED
        BY <1>4, <2>1, <2>3, <3>1 DEF Start, Goes
    <2> QED
      BY <2>1, <2>2, <2>3 DEF Knows, tables
  <1>5. ASSUME phase'[j] \in {"loaded", "fetched", "deleting", "deleted"}, ~Start(j) PROVE Knows(j, d)'
    <2>1. InProgress(j)' /\ InProgress(j)
      BY <1>1, <1>5, InProgressBefore DEF InProgress, Running
    <2>2. phase[j] # "idle"
      BY <2>1 DEF InProgress, Running
    <2>3. doc[j] = d /\ kind'[j] = kind[j]
      BY <1>1, <2>2, JobsSettled
    <2>4. Knows(j, d) /\ Alone(d)
      BY <1>1, <1>2, <2>3 DEF OnceInv
    <2>5. ~(GenerateAndCommit(j) \/ RegenerateAndCommit(j) \/ Finish(j) \/ JobFails(j) \/ WorkerDies(j))
      <3>1. phase'[j] \notin {"committed", "failed", "done", "queued"}
        BY <1>5
      <3>2. j \in Jobs /\ phase \in [Jobs -> Phases]
        BY <1>1 DEF TypeOK
      <3>3. ~GenerateAndCommit(j)
        BY <3>1, <3>2 DEF GenerateAndCommit, Goes
      <3>4. ~RegenerateAndCommit(j) /\ ~Finish(j)
        BY <3>1, <3>2 DEF RegenerateAndCommit, Finish, Goes
      <3>5. ~JobFails(j) /\ ~WorkerDies(j)
        BY <3>1, <3>2 DEF JobFails, WorkerDies, Goes
      <3> QED
        BY <3>3, <3>4, <3>5
    <2>6. ASSUME NEW i \in Jobs, doc[i] = d, GenerateAndCommit(i) \/ RegenerateAndCommit(i) PROVE FALSE
      <3>1. InProgress(i)
        BY <2>6 DEF GenerateAndCommit, RegenerateAndCommit, At, InProgress, Running
      <3>2. i = j
        BY <2>1, <2>3, <2>4, <2>6, <3>1 DEF Alone
      <3> QED
        BY <2>5, <2>6, <3>2
    <2>7. Shown(d)' \subseteq Shown(d) /\ batches'[d] \subseteq batches[d]
      BY <2>6, ShownStep
    <2>8. CASE Download(j)
      <3>1. phase[j] = "loaded" /\ kind[j] = "generate" /\ UNCHANGED tables
        BY <2>8 DEF Download, At
      <3>2. batches'[d] = {}
        BY <2>4, <3>1 DEF Knows, tables
      <3>3. phase'[j] \in {"fetched", "failed"}
        BY <1>1, <2>8 DEF Download, Goes, TypeOK
      <3> QED
        BY <3>2, <3>3 DEF Knows
    <2>9. CASE ChooseEmbeddings(j)
      <3>1. phase'[j] = "deleting" /\ chosen'[j] = Shown(d) /\ UNCHANGED tables
        BY <1>1, <2>3, <2>9 DEF ChooseEmbeddings, Goes, Shown, TypeOK
      <3> QED
        BY <2>7, <3>1 DEF Knows
    <2>10. CASE DeleteEmbeddings(j)
      <3>1. phase[j] = "deleting" /\ phase'[j] = "deleted" /\ doomed'[j] = chosen[j] \cap embedded
        BY <1>1, <2>10 DEF DeleteEmbeddings, At, Goes, TypeOK
      <3>2. Shown(d) \subseteq chosen[j] /\ Shown(d) \subseteq embedded
        BY <2>4, <3>1 DEF Knows, Shown
      <3> QED
        BY <2>7, <3>1, <3>2 DEF Knows
    <2>11. ASSUME ~Download(j), ~ChooseEmbeddings(j), ~DeleteEmbeddings(j)
           PROVE  phase'[j] = phase[j] /\ chosen'[j] = chosen[j] /\ doomed'[j] = doomed[j]
      <3> USE <1>1 DEF TypeOK, Goes, At, jobs, vars
      <3>1. ASSUME NEW u \in Uploads, UploadStep(u)
            PROVE  phase'[j] = phase[j] /\ chosen'[j] = chosen[j] /\ doomed'[j] = doomed[j]
        <4>1. CASE EnqueueUpload(u)
          <5>1. phase[u] = "idle"
            BY <4>1 DEF EnqueueUpload, Uploading, UploadsInv
          <5> QED
            BY <2>2, <4>1, <5>1 DEF EnqueueUpload
        <4>2. CASE ~EnqueueUpload(u)
          BY <3>1, <4>2 DEF UploadStep, HeadBucket, CreateBucket, PutObject, InsertRow, UploadFails
        <4> QED
          BY <4>1, <4>2
      <3>2. ASSUME NEW x \in Deletes, DeleteStep(x)
            PROVE  phase'[j] = phase[j] /\ chosen'[j] = chosen[j] /\ doomed'[j] = doomed[j]
        BY <3>2 DEF DeleteStep, LoadForDelete, DeleteObject, DeleteRow, DeleteFails
      <3>3. ASSUME NEW i \in Calls, NEW k \in Kinds, NEW c \in Docs, Enqueue(i, k, c)
            PROVE  phase'[j] = phase[j] /\ chosen'[j] = chosen[j] /\ doomed'[j] = doomed[j]
        BY <2>2, <3>3 DEF Enqueue
      <3>4. ASSUME NEW i \in Jobs, JobStep(i) \/ JobFails(i) \/ WorkerDies(i)
            PROVE  phase'[j] = phase[j] /\ chosen'[j] = chosen[j] /\ doomed'[j] = doomed[j]
        <4>1. i # j
          BY <1>5, <2>5, <2>11, <3>4 DEF JobStep
        <4>2. \E p \in Phases : phase' = [phase EXCEPT ![i] = p]
          BY <3>4 DEF JobStep, Start, Download, GenerateAndCommit, ChooseEmbeddings, DeleteEmbeddings,
                      RegenerateAndCommit, Finish, JobFails, WorkerDies, Phases, Running
        <4>3. chosen'[j] = chosen[j] /\ doomed'[j] = doomed[j]
          BY <3>4, <4>1 DEF JobStep, Start, Download, GenerateAndCommit, ChooseEmbeddings, DeleteEmbeddings,
                      RegenerateAndCommit, Finish, JobFails, WorkerDies
        <4> QED
          BY <4>1, <4>2, <4>3
      <3>5. CASE Terminated
        BY <3>5 DEF Terminated
      <3> QED
        BY <3>1, <3>2, <3>3, <3>4, <3>5 DEF Next
    <2>12. CASE ~Download(j) /\ ~ChooseEmbeddings(j) /\ ~DeleteEmbeddings(j)
      BY <2>3, <2>4, <2>7, <2>11, <2>12, KnowledgeStays
    <2> QED
      BY <2>8, <2>9, <2>10, <2>12
  <1> QED
    BY <1>3, <1>4, <1>5

LEMMA OnceStep ==
    ASSUME IndexInv, Next
    PROVE  OnceInv'
  <1>1. ASSUME NEW d \in Docs \ disturbed' PROVE Single(d)'
    <2>1. Single(d)
      BY DisturbedGrows DEF IndexInv, OnceInv
    <2>2. CASE Shown(d)' \subseteq Shown(d)
      BY <2>1, <2>2 DEF Single
    <2> QED
      BY <2>2, ShownStep
  <1>2. ASSUME NEW d \in Docs \ disturbed' PROVE Alone(d)'
    BY AloneStep
  <1>3. ASSUME NEW d \in Docs \ disturbed', NEW j \in Jobs, doc'[j] = d PROVE Knows(j, d)'
    BY <1>3, KnowledgeStep
  <1> QED
    BY <1>1, <1>2, <1>3 DEF OnceInv

------------------------------------------------------------------------------
LEMMA IndexStep == IndexInv /\ [Next]_vars => IndexInv'
  <1>1. ASSUME IndexInv, Next PROVE IndexInv'
    <2>1. PlacesInv'
      BY <1>1, PlacesStep DEF IndexInv
    <2>2. IndexComplete' /\ OwnRuns' /\ OnceInv'
      BY <1>1, <2>1, CompleteStep, OwnRunsStep, OnceStep
    <2> QED
      BY <2>1, <2>2 DEF IndexInv
  <1>2. ASSUME IndexInv, UNCHANGED vars PROVE IndexInv'
    <2>1. PlacesInv'
      BY <1>2, PlacesStep DEF IndexInv
    <2> USE <1>2 DEF IndexInv, vars, objects, tables, requests, jobs
    <2>2. IndexComplete' /\ OwnRuns'
      BY DEF IndexComplete, OwnRuns, HasRow
    <2>3. OnceInv'
      BY DEF OnceInv, Alone, Single, Knows, Shown, InProgress
    <2> QED
      BY <2>1, <2>2, <2>3
  <1> QED
    BY <1>1, <1>2

\* The routes and jobs keep the tables, the store and their own progress well-formed; in
\* particular no job is started more than max_tries times (arq).
THEOREM TypeCorrect == Spec => []TypeOK
  <1> QED
    BY IndexStarts, IndexStep, IndexImplies, PTL DEF Spec

\* upload_document and delete_document, routes/documents.py:32-182: a row lacks its object only
\* if a DELETE took the object first, an object its row only if an upload left it there.
THEOREM StoreAndTableAgree == Spec => []StoreAndTable
  <1> QED
    BY IndexStarts, IndexStep, IndexImplies, PTL DEF Spec

\* generate_embeddings and reindex_document, whatever overlaps, fails or is restarted: every
\* chunk can be found, none outlives its row, "indexed" means searchable, and a document whose
\* jobs never overlapped and that was chunked once is found once.
THEOREM IndexStaysConsistent == Spec => []IndexConsistent
  <1> QED
    BY IndexStarts, IndexStep, IndexImplies, PTL DEF Spec
==============================================================================
