------------------------------- MODULE Documents -------------------------------
(***************************************************************************)
(* Document ingestion: POST and DELETE /documents, the object store, and   *)
(* the worker's generate_embeddings and reindex_document jobs.             *)
(*                                                                         *)
(* A document lives in two places that no transaction spans, an object in  *)
(* the store and a row in PostgreSQL, with its chunks and their embeddings *)
(* behind the row (ON DELETE CASCADE).  The chunks one run of              *)
(* generate_embeddings writes share their fate and are one batch, named by *)
(* the run; an embedding of them is named by the run that made it.  A job  *)
(* commits once, at its end, so its writes are one step; its reads are     *)
(* earlier steps.  Any call may fail and any worker may die.               *)
(***************************************************************************)
EXTENDS Naturals

CONSTANTS
    Uploads,    \* documents uploaded through the API
    Imported,   \* documents that may be there at the start, row and object, put there by
                \*   other means and under a key without "/"
    Blank,      \* documents whose text has no chunk
    Calls,      \* jobs enqueued by hand, with a document id
    Deletes,    \* DELETE /documents/{id} requests
    MaxTries,   \* arq's max_tries
    NoDoc       \* no document

Docs == Uploads \cup Imported

\* An upload enqueues the job that bears its name.
Jobs == Uploads \cup Calls

ASSUME DocumentsAssumption ==
    /\ Uploads \cap Imported = {}
    /\ Uploads \cap Calls = {}
    /\ NoDoc \notin Docs
    /\ MaxTries \in Nat \ {0}

\* A run is a job and the number of its start.
Runs == Jobs \X (1 .. MaxTries)

VARIABLES
    bucket,     \* whether the bucket S3_BUCKET_NAME exists
    store,      \* documents whose object is in it
    status,     \* status[d]: the row's status column, "none" without a row
    batches,    \* batches[d]: the runs whose chunks of d are stored
    embedded,   \* embeddings stored: pairs of a batch and the run that made them
    upload,     \* upload[u]: where the POST of u is
    request,    \* request[x]: where DELETE request x is
    subject,    \* subject[x]: its document
    kind,       \* kind[j]: "generate" or "reindex"
    doc,        \* doc[j]: the document job j is for
    phase,      \* phase[j]: where it is
    starts,     \* starts[j]: how often arq started it
    chosen,     \* chosen[j]: the embeddings its DELETE has found
    doomed,     \* doomed[j]: those it has deleted, not yet committed
    emptied,    \* history: documents whose object a DELETE request removed
    disturbed   \* history: documents with overlapping jobs, or chunked when already chunked

objects == <<bucket, store>>
tables == <<status, batches, embedded>>
requests == <<upload, request, subject, emptied>>
jobs == <<kind, doc, phase, starts, chosen, doomed, disturbed>>
vars == <<objects, tables, requests, jobs>>

Kinds == {"generate", "reindex"}
Running == {"loaded", "fetched", "deleting", "deleted", "committed"}
Phases == {"idle", "queued", "done", "failed"} \cup Running

Init ==
    /\ store \in SUBSET Imported
    /\ bucket \in {b \in BOOLEAN : store # {} => b}
    /\ status = [d \in Docs |-> IF d \in store THEN "uploaded" ELSE "none"]
    /\ batches = [d \in Docs |-> {}]
    /\ embedded = {}
    /\ upload = [u \in Uploads |-> "new"]
    /\ request = [x \in Deletes |-> "new"]
    /\ subject = [x \in Deletes |-> NoDoc]
    /\ kind = [j \in Jobs |-> "generate"]
    /\ doc = [j \in Jobs |-> IF j \in Uploads THEN j ELSE NoDoc]
    /\ phase = [j \in Jobs |-> "idle"]
    /\ starts = [j \in Jobs |-> 0]
    /\ chosen = [j \in Jobs |-> {}]
    /\ doomed = [j \in Jobs |-> {}]
    /\ emptied = {}
    /\ disturbed = {}

HasRow(d) == status[d] # "none"

At(j, p) == phase[j] = p

------------------------------------------------------------------------------
(* POST /documents. *)

Uploading(u, from, to) == upload[u] = from /\ upload' = [upload EXCEPT ![u] = to]

\* ensure_bucket: the HEAD, and a CREATE an await later, which fails if somebody else
\* has created the bucket meanwhile.
HeadBucket(u) ==
    /\ Uploading(u, "new", IF bucket THEN "put" ELSE "create")
    /\ UNCHANGED <<objects, tables, request, subject, emptied, jobs>>

CreateBucket(u) ==
    /\ Uploading(u, "create", IF bucket THEN "failed" ELSE "put")
    /\ bucket' = TRUE
    /\ UNCHANGED <<store, tables, request, subject, emptied, jobs>>

PutObject(u) ==
    /\ Uploading(u, "put", "stored")
    /\ store' = store \cup {u}
    /\ UNCHANGED <<bucket, tables, request, subject, emptied, jobs>>

InsertRow(u) ==
    /\ Uploading(u, "stored", "inserted")
    /\ status' = [status EXCEPT ![u] = "uploaded"]
    /\ UNCHANGED <<objects, batches, embedded, request, subject, emptied, jobs>>

\* A failing enqueue is swallowed.
EnqueueUpload(u) ==
    /\ Uploading(u, "inserted", "done")
    /\ phase' = [phase EXCEPT ![u] = "queued"] \/ UNCHANGED phase
    /\ UNCHANGED <<objects, tables, request, subject, emptied, kind, doc, starts, chosen,
                   doomed, disturbed>>

\* The store or the database raises, and the request ends there.
UploadFails(u) ==
    /\ upload[u] \in {"new", "create", "put", "stored"}
    /\ upload' = [upload EXCEPT ![u] = "failed"]
    /\ UNCHANGED <<objects, tables, request, subject, emptied, jobs>>

------------------------------------------------------------------------------
(* DELETE /documents/{id}. *)

Requesting(x, from, to) == request[x] = from /\ request' = [request EXCEPT ![x] = to]

LoadForDelete(x, d) ==
    /\ Requesting(x, "new", IF HasRow(d) THEN "loaded" ELSE "done")
    /\ subject' = [subject EXCEPT ![x] = d]
    /\ UNCHANGED <<objects, tables, upload, emptied, jobs>>

\* Deleting an object that is not there succeeds.
DeleteObject(x) ==
    /\ Requesting(x, "loaded", "emptied")
    /\ store' = store \ {subject[x]}
    /\ emptied' = emptied \cup {subject[x]}
    /\ UNCHANGED <<bucket, tables, upload, subject, jobs>>

CascadesChunks(d) == batches' = [batches EXCEPT ![d] = {}] /\ UNCHANGED embedded

\* ON DELETE CASCADE.
Cascade(d) ==
    /\ batches' = [batches EXCEPT ![d] = {}]
    /\ embedded' = {e \in embedded : e[1] \notin batches[d]}

RowBeforeObject(x) == Requesting(x, "loaded", "done")

RowAfterObject(x) == Requesting(x, "emptied", "done")

\* A row that another request has deleted meanwhile is only warned of.  The cascade waits
\* for a reindex that has embeddings of the document locked.
DeleteRow(x) ==
    /\ RowAfterObject(x)
    /\ \A j \in Jobs : At(j, "deleted") => \A e \in doomed[j] : e[1] \notin batches[subject[x]]
    /\ status' = [status EXCEPT ![subject[x]] = "none"]
    /\ Cascade(subject[x])
    /\ UNCHANGED <<objects, upload, subject, emptied, jobs>>

DeleteFails(x) ==
    /\ request[x] \in {"loaded", "emptied"}
    /\ request' = [request EXCEPT ![x] = "failed"]
    /\ UNCHANGED <<objects, tables, upload, subject, emptied, jobs>>

------------------------------------------------------------------------------
(* The worker's jobs. *)

Run(j) == <<j, starts[j]>>

Goes(j, p) == phase' = [phase EXCEPT ![j] = p]

InProgress(j) == phase[j] \in Running

Enqueue(j, k, d) ==
    /\ At(j, "idle") /\ Goes(j, "queued")
    /\ kind' = [kind EXCEPT ![j] = k]
    /\ doc' = [doc EXCEPT ![j] = d]
    /\ UNCHANGED <<objects, tables, requests, starts, chosen, doomed, disturbed>>

\* The start of a job, and scalar_one on the document.  The dict an upload passes is no
\* UUID, and its job raises before it reads anything.
Start(j) ==
    /\ At(j, "queued")
    /\ starts' = [starts EXCEPT ![j] = @ + 1]
    /\ IF j \in Uploads \/ ~HasRow(doc[j])
         THEN Goes(j, "failed") /\ UNCHANGED disturbed
         ELSE /\ Goes(j, "loaded")
              /\ disturbed' =
                   IF \/ \E i \in Jobs \ {j} : InProgress(i) /\ doc[i] = doc[j]
                      \/ kind[j] = "generate" /\ batches[doc[j]] # {}
                     THEN disturbed \cup {doc[j]} ELSE disturbed
    /\ UNCHANGED <<objects, tables, requests, kind, doc, chosen, doomed>>

\* process_document takes the bucket from the key: the first segment, or oie-documents
\* for a key without one.  Only the latter is where the object may be.
CanDownload(d) == d \in Imported /\ d \in store

Download(j) ==
    /\ At(j, "loaded") /\ kind[j] = "generate"
    /\ Goes(j, IF CanDownload(doc[j]) THEN "fetched" ELSE "failed")
    /\ UNCHANGED <<objects, tables, requests, kind, doc, starts, chosen, doomed, disturbed>>

\* generate_embeddings of the service: every chunk it sees gets an embedding by run r,
\* and the status is set; with no chunk to see it does neither.
Embeds(r, bs) == {<<b, r>> : b \in bs}

\* The chunks, the status "chunked", the embeddings and the commit.  A row deleted since
\* fails the chunks' foreign key; without chunks nothing notices.
GenerateAndCommit(j) ==
    LET d == doc[j]
        mine == IF d \in Blank THEN {} ELSE {Run(j)}
        all == batches[d] \cup mine
    IN
    /\ At(j, "fetched")
    /\ IF HasRow(d)
         THEN /\ batches' = [batches EXCEPT ![d] = all]
              /\ embedded' = embedded \cup Embeds(Run(j), all)
              /\ status' = [status EXCEPT ![d] = IF all = {} THEN "chunked" ELSE "indexed"]
              /\ Goes(j, "committed")
         ELSE /\ Goes(j, IF mine = {} THEN "committed" ELSE "failed")
              /\ UNCHANGED tables
    /\ UNCHANGED <<objects, requests, kind, doc, starts, chosen, doomed, disturbed>>

\* reindex_document: the chunk ids, and the DELETE of their embeddings as it begins: it
\* has chosen the rows it sees.
ChooseEmbeddings(j) ==
    /\ At(j, "loaded") /\ kind[j] = "reindex"
    /\ chosen' = [chosen EXCEPT ![j] = {e \in embedded : e[1] \in batches[doc[j]]}]
    /\ Goes(j, "deleting")
    /\ UNCHANGED <<objects, tables, requests, kind, doc, starts, doomed, disturbed>>

\* The DELETE goes through once no other transaction has its rows locked, and passes over
\* the rows that are gone by then.
DeleteEmbeddings(j) ==
    /\ At(j, "deleting")
    /\ \A i \in Jobs \ {j} : At(i, "deleted") => doomed[i] \cap chosen[j] = {}
    /\ doomed' = [doomed EXCEPT ![j] = chosen[j] \cap embedded]
    /\ Goes(j, "deleted")
    /\ UNCHANGED <<objects, tables, requests, kind, doc, starts, chosen, disturbed>>

\* The chunks it sees now are embedded again, and the job commits.
RegenerateAndCommit(j) ==
    LET d == doc[j] IN
    /\ At(j, "deleted")
    /\ embedded' = (embedded \ doomed[j]) \cup Embeds(Run(j), batches[d])
    /\ status' = [status EXCEPT ![d] = IF batches[d] = {} THEN @ ELSE "indexed"]
    /\ Goes(j, "committed")
    /\ UNCHANGED <<objects, batches, requests, kind, doc, starts, chosen, doomed, disturbed>>

\* arq records the result of a job that returned.
Finish(j) ==
    /\ At(j, "committed") /\ Goes(j, "done")
    /\ UNCHANGED <<objects, tables, requests, kind, doc, starts, chosen, doomed, disturbed>>

\* Anything that raises before the commit ends the job: arq does not retry it.
JobFails(j) ==
    /\ InProgress(j) /\ ~At(j, "committed")
    /\ Goes(j, "failed")
    /\ UNCHANGED <<objects, tables, requests, kind, doc, starts, chosen, doomed, disturbed>>

HasOneTooMany(j) == starts[j] <= MaxTries

HasTries(j) == starts[j] < MaxTries

\* The worker dies: the transaction is rolled back, unless it was committed, and the job
\* is started again while it has tries left.
WorkerDies(j) ==
    /\ InProgress(j)
    /\ Goes(j, IF HasTries(j) THEN "queued" ELSE "failed")
    /\ UNCHANGED <<objects, tables, requests, kind, doc, starts, chosen, doomed, disturbed>>

------------------------------------------------------------------------------
UploadStep(u) ==
    HeadBucket(u) \/ CreateBucket(u) \/ PutObject(u) \/ InsertRow(u) \/ EnqueueUpload(u)
    \/ UploadFails(u)

DeleteStep(x) ==
    (\E d \in Docs : LoadForDelete(x, d)) \/ DeleteObject(x) \/ DeleteRow(x) \/ DeleteFails(x)

JobStep(j) ==
    Start(j) \/ Download(j) \/ GenerateAndCommit(j) \/ ChooseEmbeddings(j)
    \/ DeleteEmbeddings(j) \/ RegenerateAndCommit(j) \/ Finish(j)

Terminated ==
    /\ \A u \in Uploads : upload[u] \in {"done", "failed"}
    /\ \A x \in Deletes : request[x] \in {"done", "failed"}
    /\ \A j \in Jobs : phase[j] \in {"idle", "done", "failed"} /\ (j \in Calls => ~At(j, "idle"))
    /\ UNCHANGED vars

Next ==
    \/ \E u \in Uploads : UploadStep(u)
    \/ \E x \in Deletes : DeleteStep(x)
    \/ \E j \in Calls, k \in Kinds, d \in Docs : Enqueue(j, k, d)
    \/ \E j \in Jobs : JobStep(j) \/ JobFails(j) \/ WorkerDies(j)
    \/ Terminated

Spec == Init /\ [][Next]_vars

------------------------------------------------------------------------------
(* What a semantic search can return of a document: one row for each embedding *)
(* of each of its chunks that joins to the document's row.                     *)
SearchRows(d) == IF HasRow(d) THEN {e \in embedded : e[1] \in batches[d]} ELSE {}

(* Properties. *)

TypeOK ==
    /\ bucket \in BOOLEAN /\ store \subseteq Docs
    /\ status \in [Docs -> {"none", "uploaded", "chunked", "indexed"}]
    /\ batches \in [Docs -> SUBSET Runs]
    /\ embedded \subseteq Runs \X Runs
    /\ upload \in [Uploads -> {"new", "create", "put", "stored", "inserted", "done", "failed"}]
    /\ request \in [Deletes -> {"new", "loaded", "emptied", "done", "failed"}]
    /\ subject \in [Deletes -> Docs \cup {NoDoc}]
    /\ kind \in [Jobs -> Kinds]
    /\ doc \in [Jobs -> Docs \cup {NoDoc}]
    /\ phase \in [Jobs -> Phases]
    /\ starts \in [Jobs -> 0 .. MaxTries]
    /\ chosen \in [Jobs -> SUBSET (Runs \X Runs)]
    /\ doomed \in [Jobs -> SUBSET (Runs \X Runs)]
    /\ emptied \subseteq Docs /\ disturbed \subseteq Docs

\* A row has its object, unless a DELETE of the document has taken the object and then failed
\* or not got to the row yet (documents.py:179); an object without a row was left by an upload
\* that has not got to its row, or failed there.
StoreAndTable ==
    /\ \A d \in Docs : HasRow(d) => d \in store \cup emptied
    /\ \A d \in store : ~HasRow(d) => /\ d \in Uploads
                                      /\ upload[d] \in {"stored", "failed"}

\* Whatever jobs, deletions, failures and restarts come between: no chunk or embedding
\* outlives its document's row, every stored chunk has an embedding (a reindex that
\* deletes them puts new ones in their place, for the chunks another job commits between
\* its two reads as well), and a document is "indexed" exactly if it has chunks to search.
IndexComplete ==
    /\ \A d \in Docs : ~HasRow(d) => batches[d] = {}
    /\ \A e \in embedded : \E d \in Docs : e[1] \in batches[d]
    /\ \A d \in Docs : \A b \in batches[d] : \E e \in embedded : e[1] = b
    /\ \A d \in Docs : status[d] = "indexed" <=> batches[d] # {}

\* A document that was never chunked a second time and whose jobs never overlapped has its
\* chunks once, each with one embedding, so that a search returns a chunk once: a reindex
\* may fail or be run again at any point without doubling anything.  (process_document
\* adds chunks without looking for the ones already there, document_processor.py:69, so a
\* generate job that is run again after its commit does double them.)
IndexedOnce ==
    \A d \in Docs \ disturbed :
        \A e, f \in SearchRows(d) : e = f

IndexConsistent == IndexComplete /\ IndexedOnce
==============================================================================
