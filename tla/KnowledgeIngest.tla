---------------------------- MODULE KnowledgeIngest ----------------------------
(***************************************************************************)
(* The life of ONE knowledge document: uploads, reindexing and deletion by *)
(* the API, ingestion jobs by any number of worker processes.              *)
(*                                                                         *)
(* modules/knowledge/application/ingestion_service.py, api/v1/knowledge.py,*)
(* infrastructure/knowledge/worker.py and infrastructure/db/               *)
(* knowledge_repository.py.  A request, and one round of a worker, is one  *)
(* database transaction.  doc stands for the document row, its version and *)
(* its chunks, which are written under the lock of the document row only;  *)
(* job[r] is the job that request r enqueued.  As in HandoffOrchestrator   *)
(* there is a committed and a dirty version of each.  The foreign key of a *)
(* job locks its document FOR KEY SHARE, which an UPDATE of the document   *)
(* does not wait for and a DELETE does.  PostgreSQL rolls one transaction  *)
(* back when two wait for each other.  Blobs are files: no transaction     *)
(* undoes what happens to them.                                            *)
(***************************************************************************)
EXTENDS Naturals

CONSTANTS Req,         \* the API requests
          Workers,     \* the worker processes
          NoProc,      \* nobody holds the lock
          Chunk,       \* the chunks of the document's text
          Faults,      \* what may go wrong
          MaxCrashes   \* bound: transactions that die

ASSUME ProcAssumption == NoProc \notin Req \cup Workers /\ Req \cap Workers = {}
ASSUME FaultsAssumption == Faults \subseteq {"parse", "embed", "mismatch"}
ASSUME CrashAssumption == MaxCrashes \in Nat

VARIABLES
  kind,     \* what each request asks for
  mode,     \* knowledge_worker_enabled, one setting for the deployment
  doc,      \* document, version and chunks, committed
  docNew,   \* their version inside the transaction that locks the row
  docLock,  \* transaction holding the document row
  share,    \* transactions holding it FOR KEY SHARE
  job,      \* status of each job, committed
  jobNew,   \* its version inside the transaction that locks it
  jobLock,  \* transaction holding each job
  blob,     \* the uploaded file
  pc,       \* next statement of each process
  task,     \* the job a process works on
  result,   \* what each request answered
  crashes   \* transactions that died so far

vars == <<kind, mode, doc, docNew, docLock, share, job, jobNew, jobLock, blob,
          pc, task, result, crashes>>

Proc == Req \cup Workers

(* The code writes neither "archived" nor "cancelled"; "none" and "deleted" *)
(* are rows that do not exist yet, or any more.                            *)
Kinds == {"upload", "reindex", "delete"}
Modes == {"worker", "inline"}
Live == {"pending", "processing", "ready", "failed"}
DocumentStatus == Live \cup {"none", "deleted"}
JobStatus == {"none", "queued", "running", "completed", "failed", "deleted"}
Document == [status : DocumentStatus, active : {"null", "set"},
             chunks : SUBSET Chunk, counted : SUBSET Chunk]
Labels == {"idle", "start", "enqueue", "load", "lock", "embed", "index", "fail",
           "delete", "cascade", "unblob", "commit", "done"}
Results == {"none", "ok", "not_found", "error"}

Row(s) == [status |-> s, active |-> "null", chunks |-> {}, counted |-> {}]

Init ==
  /\ kind \in [Req -> Kinds]
  /\ \A r, s \in Req : kind[r] = "upload" /\ kind[s] = "upload" => r = s
  /\ mode \in Modes
  /\ doc = Row("none")
  /\ docNew = Row("none")
  /\ docLock = NoProc
  /\ share = {}
  /\ job = [r \in Req |-> "none"]
  /\ jobNew = job
  /\ jobLock = [r \in Req |-> NoProc]
  /\ blob = "absent"
  /\ pc = [p \in Proc |-> IF p \in Req THEN "start" ELSE "idle"]
  /\ task = [p \in Proc |-> NoProc]
  /\ result = [r \in Req |-> "none"]
  /\ crashes = 0

request == <<kind, mode>>
document == <<doc, docNew, docLock, share>>
jobs == <<job, jobNew, jobLock>>

Goto(p, l) == pc' = [pc EXCEPT ![p] = l]

Exists(d) == d.status \in Live

(* What a transaction sees of the document.                                *)
View(p) == IF docLock = p THEN docNew ELSE doc

(* An UPDATE of the document can get its row lock.                         *)
Lockable(p) == docLock \in {NoProc, p}

Write(p, d) == docLock' = p /\ docNew' = d

(* The end of a transaction: its locks go, a worker looks for the next job, *)
(* a request is answered.                                                  *)
Finish(p, a) ==
  /\ docLock' = IF docLock = p THEN NoProc ELSE docLock
  /\ share' = share \ {p}
  /\ jobLock' = [r \in Req |-> IF jobLock[r] = p THEN NoProc ELSE jobLock[r]]
  /\ task' = [task EXCEPT ![p] = NoProc]
  /\ Goto(p, IF p \in Req THEN "done" ELSE "idle")
  /\ result' = IF p \in Req THEN [result EXCEPT ![p] = a] ELSE result

Rollback(p) ==
  /\ docNew' = IF docLock = p THEN doc ELSE docNew
  /\ jobNew' = [r \in Req |-> IF jobLock[r] = p THEN job[r] ELSE jobNew[r]]
  /\ Finish(p, "error")
  /\ UNCHANGED <<request, doc, job, blob>>

Commit(p) ==
  /\ pc[p] = "commit"
  /\ doc' = View(p)
  /\ job' = [r \in Req |-> IF jobLock[r] = p THEN jobNew[r] ELSE job[r]]
  /\ Finish(p, "ok")
  /\ UNCHANGED <<request, docNew, jobNew, blob, crashes>>

(* A request that found nothing: answered, nothing changed.                 *)
NotFound(r) ==
  /\ Goto(r, "done")
  /\ result' = [result EXCEPT ![r] = "not_found"]
  /\ UNCHANGED <<request, document, jobs, blob, task, crashes>>

-----------------------------------------------------------------------------
(* upload_document and reindex_document *)

(* create_document and create_version, always of a new document, and the   *)
(* blob; or the collection does not exist.                                 *)
Upload(r) ==
  /\ kind[r] = "upload" /\ pc[r] = "start"
  /\ \/ NotFound(r)
     \/ /\ Write(r, Row("pending"))
        /\ blob' = "present"
        /\ Goto(r, "enqueue")
        /\ UNCHANGED <<request, doc, share, jobs, task, result, crashes>>

(* get_document and get_active_version.                                     *)
Reindex(r) ==
  /\ kind[r] = "reindex" /\ pc[r] = "start"
  /\ IF Exists(doc) /\ doc.active = "set"
       THEN /\ Goto(r, "enqueue")
            /\ UNCHANGED <<request, document, jobs, blob, task, result, crashes>>
       ELSE NotFound(r)

(* Mutant: document_id has no foreign key, as document_version_id has none. *)
BugEnqueue(r) ==
  /\ pc[r] = "enqueue"
  /\ jobLock' = [jobLock EXCEPT ![r] = r]
  /\ jobNew' = [jobNew EXCEPT ![r] = "queued"]
  /\ task' = [task EXCEPT ![r] = r]
  /\ Goto(r, IF mode = "inline" THEN "load" ELSE "commit")
  /\ UNCHANGED <<request, document, job, blob, result, crashes>>

(* INSERT of the job waits for a DELETE of the document, whose commit makes *)
(* it violate the foreign key.  Without workers the request goes on with   *)
(* process_job itself.                                                     *)
Enqueue(r) ==
  /\ pc[r] = "enqueue"
  /\ Lockable(r) \/ Exists(docNew)
  /\ \/ /\ Exists(View(r))
        /\ share' = share \cup {r}
        /\ jobLock' = [jobLock EXCEPT ![r] = r]
        /\ jobNew' = [jobNew EXCEPT ![r] = "queued"]
        /\ task' = [task EXCEPT ![r] = r]
        /\ Goto(r, IF mode = "inline" THEN "load" ELSE "commit")
        /\ UNCHANGED <<request, doc, docNew, docLock, job, blob, result, crashes>>
     \/ ~Exists(View(r)) /\ Rollback(r) /\ UNCHANGED crashes

-----------------------------------------------------------------------------
(* The worker and _process_job_inner *)

(* The worker's transaction locks the job and marks it running.             *)
Claim(w, r) ==
  /\ jobLock' = [jobLock EXCEPT ![r] = w]
  /\ jobNew' = [jobNew EXCEPT ![r] = "running"]
  /\ task' = [task EXCEPT ![w] = r]
  /\ Goto(w, "load")
  /\ UNCHANGED <<request, document, blob, result, crashes>>

(* Mutant: the claim is a plain SELECT, as it is on other databases.        *)
BugClaimNext(w) ==
  /\ pc[w] = "idle"
  /\ \E r \in Req : job[r] = "queued" /\ Claim(w, r) /\ UNCHANGED job

(* Mutant: the claim is committed before the job is processed.              *)
BugClaimCommitted(w) ==
  /\ pc[w] = "idle"
  /\ \E r \in Req :
       /\ job[r] = "queued" /\ jobLock[r] = NoProc
       /\ Claim(w, r)
       /\ job' = [job EXCEPT ![r] = "running"]

(* FOR UPDATE SKIP LOCKED; created_at is the clock of some API process, so *)
(* any queued job may be the oldest.  The transaction stays open.          *)
ClaimNext(w) ==
  /\ pc[w] = "idle"
  /\ \E r \in Req :
       /\ job[r] = "queued" /\ jobLock[r] = NoProc
       /\ Claim(w, r)
       /\ UNCHANGED job

Load(p) ==
  /\ pc[p] = "load"
  /\ Goto(p, IF Exists(View(p)) THEN "lock" ELSE "fail")
  /\ UNCHANGED <<request, document, jobs, blob, task, result, crashes>>

(* UPDATE of the status: from here on the jobs of one document take turns.  *)
LockDocument(p) ==
  /\ pc[p] = "lock"
  /\ Lockable(p)
  /\ Write(p, [View(p) EXCEPT !.status = "processing"])
  /\ Goto(p, "embed")
  /\ UNCHANGED <<request, doc, share, jobs, blob, task, result, crashes>>

(* The blob is read, parsed, cut into chunks and embedded, or one of these  *)
(* raises.                                                                 *)
Embed(p) ==
  /\ pc[p] = "embed"
  /\ \/ blob = "present" /\ Goto(p, "index")
     \/ (blob = "absent" \/ Faults \cap {"parse", "embed"} # {}) /\ Goto(p, "fail")
  /\ UNCHANGED <<request, document, jobs, blob, task, result, crashes>>

(* Mutant: a reindex keeps the chunks whose text did not change, and        *)
(* inserts (and counts) the others.                                        *)
BugKept(p) == docNew.chunks

(* What is left of the version's chunks when the new ones are inserted.     *)
Kept(p) == IF kind[task[p]] = "reindex" THEN {} ELSE docNew.chunks

(* Chunks, chunk_count, active_version_id, READY and the job's status; or   *)
(* the embeddings do not match the chunks, which is noticed after the old  *)
(* chunks of a reindex are deleted.                                        *)
Index(p) ==
  /\ pc[p] = "index"
  /\ \/ /\ docNew' = [status |-> "ready", active |-> "set", chunks |-> Chunk,
                      counted |-> Chunk \ Kept(p)]
        /\ jobNew' = [jobNew EXCEPT ![task[p]] = "completed"]
        /\ Goto(p, "commit")
     \/ /\ "mismatch" \in Faults
        /\ docNew' = [docNew EXCEPT !.chunks = Kept(p)]
        /\ Goto(p, "fail")
        /\ UNCHANGED jobNew
  /\ UNCHANGED <<request, doc, docLock, share, job, jobLock, blob, task, result,
                 crashes>>

(* Mutant: the worker leaves its database session without a commit.         *)
BugFailRollback(p) ==
  /\ pc[p] = "fail"
  /\ Lockable(p)
  /\ Rollback(p)
  /\ UNCHANGED crashes

(* fail_job and the document's status; the worker commits them, a request   *)
(* that processed the job itself raises on and does not ("error" is any    *)
(* such answer, the 404 that a ValueError is turned into as well).         *)
FailJob(p) ==
  /\ pc[p] = "fail"
  /\ Lockable(p)
  /\ \/ /\ p \in Workers
        /\ Write(p, [View(p) EXCEPT !.status = "failed"])
        /\ jobNew' = [jobNew EXCEPT ![task[p]] = "failed"]
        /\ Goto(p, "commit")
        /\ UNCHANGED <<request, doc, share, job, jobLock, blob, task, result>>
     \/ p \in Req /\ Rollback(p)
  /\ UNCHANGED crashes

-----------------------------------------------------------------------------
(* delete_document, and delete_collection with its documents *)

DeleteRead(r) ==
  /\ kind[r] = "delete" /\ pc[r] = "start"
  /\ IF Exists(doc)
       THEN /\ Goto(r, "delete")
            /\ UNCHANGED <<request, document, jobs, blob, task, result, crashes>>
       ELSE NotFound(r)

(* Mutant: the files go before the rows.                                    *)
BugDeleteDocument(r) ==
  /\ pc[r] = "delete"
  /\ Lockable(r) /\ share = {}
  /\ blob' = "absent"
  /\ \/ Exists(doc) /\ Write(r, Row("deleted")) /\ Goto(r, "cascade")
     \/ ~Exists(doc) /\ Goto(r, "unblob") /\ UNCHANGED <<docNew, docLock>>
  /\ UNCHANGED <<request, doc, share, jobs, task, result, crashes>>

DeleteDocument(r) ==
  /\ pc[r] = "delete"
  /\ Lockable(r) /\ share = {}
  /\ \/ Exists(doc) /\ Write(r, Row("deleted")) /\ Goto(r, "cascade")
     \/ ~Exists(doc) /\ Goto(r, "unblob") /\ UNCHANGED <<docNew, docLock>>
  /\ UNCHANGED <<request, doc, share, jobs, blob, task, result, crashes>>

(* ON DELETE CASCADE waits for the workers that hold a job of the document. *)
Cascade(r) ==
  /\ pc[r] = "cascade"
  /\ \A s \in Req : job[s] # "none" => jobLock[s] = NoProc
  /\ jobLock' = [s \in Req |-> IF job[s] # "none" THEN r ELSE jobLock[s]]
  /\ jobNew' = [s \in Req |-> IF job[s] # "none" THEN "deleted" ELSE jobNew[s]]
  /\ Goto(r, "unblob")
  /\ UNCHANGED <<request, document, job, blob, task, result, crashes>>

(* _delete_blob_paths, before the commit; an OSError is swallowed.          *)
DeleteBlob(r) ==
  /\ pc[r] = "unblob"
  /\ blob' \in {"absent", blob}
  /\ Goto(r, "commit")
  /\ UNCHANGED <<request, document, jobs, task, result, crashes>>

-----------------------------------------------------------------------------
(* The worker waits for the document a delete holds, the delete for the     *)
(* worker's job.                                                           *)
Deadlocked(w, d) ==
  /\ pc[w] \in {"lock", "fail"} /\ docLock = d
  /\ pc[d] = "cascade" /\ \E r \in Req : jobLock[r] = w

(* PostgreSQL's deadlock detection.                                         *)
Victim(p) ==
  /\ \E q \in Proc : Deadlocked(p, q) \/ Deadlocked(q, p)
  /\ Rollback(p)
  /\ UNCHANGED crashes

(* The process dies, the client goes away, or a statement fails: the        *)
(* transaction is rolled back.  A worker is restarted.                     *)
Crash(p) ==
  /\ crashes < MaxCrashes
  /\ pc[p] \notin {"idle", "done"}
  /\ Rollback(p)
  /\ crashes' = crashes + 1

Step(p) ==
  \/ Load(p) \/ LockDocument(p) \/ Embed(p) \/ Index(p) \/ FailJob(p)
  \/ Commit(p) \/ Victim(p)
  \/ p \in Workers /\ ClaimNext(p)
  \/ p \in Req /\ \/ Upload(p) \/ Reindex(p) \/ Enqueue(p)
                  \/ DeleteRead(p) \/ DeleteDocument(p) \/ Cascade(p)
                  \/ DeleteBlob(p)

(* Every request is answered and no job is waiting: workers only poll.      *)
Polling ==
  /\ \A r \in Req : pc[r] = "done" /\ job[r] # "queued"
  /\ UNCHANGED vars

Next == (\E p \in Proc : Step(p) \/ Crash(p)) \/ Polling

Spec == Init /\ [][Next]_vars

(* The event loops keep serving requests and polling for jobs, and the      *)
(* waiters of a row lock are served in order.                              *)
FairSpec == Spec /\ \A p \in Proc : SF_vars(Step(p))

-----------------------------------------------------------------------------
(* Properties *)

TypeOK ==
  /\ kind \in [Req -> Kinds]
  /\ mode \in Modes
  /\ doc \in Document
  /\ docNew \in Document
  /\ docLock \in Proc \cup {NoProc}
  /\ share \in SUBSET Req
  /\ job \in [Req -> JobStatus]
  /\ jobNew \in [Req -> JobStatus]
  /\ jobLock \in [Req -> Proc \cup {NoProc}]
  /\ blob \in {"present", "absent"}
  /\ pc \in [Proc -> Labels]
  /\ task \in [Proc -> Req \cup {NoProc}]
  /\ result \in [Req -> Results]
  /\ crashes \in Nat

(* _active_version_ids: what search_chunks looks at.                        *)
Searchable(d) == d.status = "ready" /\ d.active = "set"

(* A search never sees half a document: whatever jobs, failures and crashes *)
(* came before, a searchable document has all its chunks, and chunk_count  *)
(* counts them.                                                            *)
SearchableIsComplete ==
  Searchable(doc) => doc.chunks = Chunk /\ doc.counted = Chunk

(* claim_next: no two processes ever work on the same job.                  *)
OneProcessPerJob ==
  \A p, q \in Proc : task[p] = task[q] /\ task[p] # NoProc => p = q

(* run_worker: a job is claimed, processed and finished in one transaction, *)
(* so a worker that dies leaves no job running and no document processing. *)
NothingLeftRunning ==
  doc.status # "processing" /\ \A r \in Req : job[r] # "running"

(* The document's status is that of its jobs: pending until one finishes,   *)
(* ready or failed only if one of them ended so.                           *)
StatusFollowsJobs ==
  /\ doc.status = "pending" => \A r \in Req : job[r] \in {"none", "queued"}
  /\ doc.status = "ready" => \E r \in Req : job[r] = "completed"
  /\ doc.status = "failed" => \E r \in Req : job[r] = "failed"

(* delete_document: once it answered, the document and its jobs are gone    *)
(* for good, and no reindex that overlapped it leaves a job behind.        *)
DeletedIsGone ==
  (\E r \in Req : kind[r] = "delete" /\ result[r] = "ok") =>
    /\ doc.status = "deleted"
    /\ \A r \in Req : job[r] \in {"none", "deleted"}

(* What the status of a document says of its jobs is true, from the upload  *)
(* to the answer of the delete.                                            *)
StatusIsTrue == StatusFollowsJobs /\ DeletedIsGone

(* The file of a document is there as long as the document is, except       *)
(* between the last two steps of a delete, or after one failed there.      *)
BlobKept ==
  Exists(doc) /\ blob = "absent" =>
    \E r \in Req : kind[r] = "delete" /\ (pc[r] = "commit" \/ result[r] = "error")

(* In the end every request is answered and every job finished or deleted,  *)
(* though workers die, jobs of one document wait for each other, and a     *)
(* delete and a worker deadlock.                                           *)
EveryJobFinishes == <>(\A r \in Req : pc[r] = "done" /\ job[r] # "queued")

-----------------------------------------------------------------------------
(* What the documents say and the code does not do *)

(* failure-recovery.md on a failed ingestion: "Manual intervention: POST    *)
(* /knowledge/documents/{id}/reindex after provider recovery".             *)
ReindexRecovers ==
  [][\A r \in Req : kind[r] = "reindex" /\ doc.status = "failed"
       => ~(result[r] = "none" /\ result'[r] = "not_found")]_vars
=============================================================================
