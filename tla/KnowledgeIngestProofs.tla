------------------------ MODULE KnowledgeIngestProofs ------------------------
(***************************************************************************)
(* Proofs about KnowledgeIngest for any number of requests and workers.    *)
(*                                                                         *)
(* A commit publishes the dirty document and the dirty jobs, so IndInv     *)
(* says what they are at every statement of their lock holder.  That       *)
(* chunk_count counts all chunks needs one thing more: the diff of an      *)
(* ingest job finds no old chunks, because no chunk exists, and nothing    *)
(* can be reindexed, before the job of the upload is finished.  StatusInv  *)
(* says how the statuses of jobs and document go together, committed and   *)
(* dirty, and how far a delete has come.                                   *)
(***************************************************************************)
EXTENDS KnowledgeIngest, TLAPS

Processing == {"load", "lock", "embed", "index", "fail"}
Finished == {"completed", "failed", "deleted"}

(* A process works on a job exactly as long as it holds it.                *)
TaskInv(p) ==
  /\ task[p] # NoProc => jobLock[task[p]] = p
  /\ pc[p] \in Processing => task[p] # NoProc

(* Who holds a job, and what it has made of it.                            *)
JobInv(r, p) ==
  jobLock[r] = p =>
    \/ /\ task[p] = r
       /\ job[r] \in {"none", "queued"}
       /\ \/ pc[p] \in Processing /\ jobNew[r] \in {"queued", "running"}
          \/ pc[p] = "commit" /\ jobNew[r] \in {"queued", "completed", "failed"}
    \/ /\ pc[p] \in {"unblob", "commit"}
       /\ jobNew[r] = "deleted"

(* A request that has not enqueued its job has none.                       *)
OwnInv(r) ==
  /\ pc[r] \in {"start", "enqueue"} => job[r] = "none" /\ jobLock[r] = NoProc
  /\ pc[r] = "enqueue" \/ job[r] # "none" \/ jobLock[r] # NoProc =>
       kind[r] \in {"upload", "reindex"}

(* What the holder of the document has made of it.                         *)
DocInv(p) ==
  docLock = p =>
    /\ pc[p] \in {"enqueue", "load", "lock"} => docNew.status = "pending"
    /\ pc[p] \in {"cascade", "unblob"} => docNew.status = "deleted"
    /\ pc[p] = "commit" =>
         /\ docNew.status # "processing"
         /\ Searchable(docNew) => docNew.chunks = Chunk /\ docNew.counted = Chunk
    /\ pc[p] \notin {"idle", "start", "delete", "done"}

LockInv(p) == pc[p] \in {"embed", "index"} => docLock = p

Untouched(d) == d.chunks = {} /\ d.active = "null"

(* Until the upload's job is finished there are no chunks ...              *)
UploadInv ==
  \A r \in Req : kind[r] = "upload" /\ job[r] \notin Finished => Untouched(doc)

(* ... not even dirty ones, except those its own transaction inserted ...  *)
DirtyInv(p) ==
  docLock = p =>
    \A r \in Req :
      kind[r] = "upload" /\ job[r] \notin Finished
        /\ ~(jobLock[r] = p /\ jobNew[r] \in Finished) => Untouched(docNew)

(* ... and nothing is reindexed.                                           *)
ReindexInv(s) ==
  kind[s] = "reindex"
    /\ (pc[s] = "enqueue" \/ job[s] # "none" \/ jobLock[s] # NoProc) =>
    \A r \in Req : kind[r] = "upload" => job[r] \in Finished

(* Nobody has anything to lock before the upload creates the document.     *)
StartInv(r) ==
  kind[r] = "upload" /\ pc[r] = "start" => doc.status = "none" /\ docLock = NoProc

OneUpload == \A r, s \in Req : kind[r] = "upload" /\ kind[s] = "upload" => r = s

IndInv ==
  /\ TypeOK
  /\ OneUpload
  /\ \A p \in Proc : TaskInv(p) /\ DocInv(p) /\ LockInv(p) /\ DirtyInv(p)
  /\ \A r \in Req : \A p \in Proc : JobInv(r, p)
  /\ \A r \in Req : OwnInv(r) /\ ReindexInv(r) /\ StartInv(r)
  /\ UploadInv
  /\ SearchableIsComplete
  /\ NothingLeftRunning

-----------------------------------------------------------------------------
(* Type correctness *)

LEMMA InitType == Init => TypeOK
BY DEF Init, TypeOK, Row, Document, DocumentStatus, Live, JobStatus, Labels, Results,
       Proc, Modes, Kinds

LEMMA ViewType == ASSUME TypeOK, NEW p PROVE View(p) \in Document
BY DEF TypeOK, View

LEMMA StatusType ==
  ASSUME NEW d \in Document, NEW s \in DocumentStatus
  PROVE  [d EXCEPT !.status = s] \in Document
BY DEF Document

LEMMA RowType == ASSUME NEW s \in DocumentStatus PROVE Row(s) \in Document
BY DEF Document, Row

LEMMA GotoType ==
  ASSUME TypeOK, NEW p \in Proc, NEW l \in Labels, Goto(p, l)
  PROVE  pc' \in [Proc -> Labels]
BY DEF TypeOK, Goto

LEMMA FinishType ==
  ASSUME TypeOK, NEW p \in Proc, NEW a \in Results, Finish(p, a)
  PROVE  /\ docLock' \in Proc \cup {NoProc}
         /\ share' \in SUBSET Req
         /\ jobLock' \in [Req -> Proc \cup {NoProc}]
         /\ pc' \in [Proc -> Labels]
         /\ task' \in [Proc -> Req \cup {NoProc}]
         /\ result' \in [Req -> Results]
<1> USE DEF TypeOK, Finish
<1>1. docLock' \in Proc \cup {NoProc} /\ share' \in SUBSET Req
  OBVIOUS
<1>2. jobLock' \in [Req -> Proc \cup {NoProc}]
  OBVIOUS
<1>3. pc' \in [Proc -> Labels]
  <2>1. CASE p \in Req
    BY <2>1, GotoType DEF Labels
  <2>2. CASE p \notin Req
    BY <2>2, GotoType DEF Labels
  <2> QED BY <2>1, <2>2
<1>4. task' \in [Proc -> Req \cup {NoProc}]
  OBVIOUS
<1>5. result' \in [Req -> Results]
  OBVIOUS
<1> QED BY <1>1, <1>2, <1>3, <1>4, <1>5

LEMMA RollbackType ==
  ASSUME TypeOK, NEW p \in Proc, Rollback(p), crashes' \in Nat PROVE TypeOK'
<1>1. "error" \in Results
  BY DEF Results
<1>2. docNew' \in Document /\ jobNew' \in [Req -> JobStatus]
  BY DEF TypeOK, Rollback
<1>3. UNCHANGED <<kind, mode, doc, job, blob>> /\ Finish(p, "error")
  BY DEF Rollback, request
<1> QED
  BY <1>1, <1>2, <1>3, FinishType DEF TypeOK

LEMMA NotFoundType ==
  ASSUME TypeOK, NEW r \in Req, NotFound(r) PROVE TypeOK'
BY DEF TypeOK, NotFound, Goto, Labels, Results, request, document, jobs, Proc

(* No step puts a value outside its type into a row, a lock or a process.  *)
LEMMA NextType == TypeOK /\ [Next]_vars => TypeOK'
<1> SUFFICES ASSUME TypeOK, [Next]_vars PROVE TypeOK'
  OBVIOUS
<1> USE DEF request, document, jobs
<1>1. ASSUME NEW p \in Proc, Step(p) PROVE TypeOK'
  <2>1. CASE Load(p)
    BY <2>1 DEF TypeOK, Load, Goto, Labels
  <2>2. CASE LockDocument(p)
    <3>1. docNew' \in Document /\ docLock' = p
      BY <2>2, ViewType, StatusType DEF LockDocument, Write, DocumentStatus, Live
    <3>2. pc' \in [Proc -> Labels]
      BY <2>2, GotoType DEF LockDocument, Labels
    <3> QED BY <2>2, <3>1, <3>2 DEF TypeOK, LockDocument
  <2>3. CASE Embed(p)
    <3>1. pc' \in [Proc -> Labels]
      BY <2>3, GotoType DEF Embed, Labels
    <3> QED BY <2>3, <3>1 DEF TypeOK, Embed
  <2>4. CASE Index(p)
    <3>1. docNew' \in Document
      BY <2>4 DEF TypeOK, Index, Document, Kept, DocumentStatus, Live
    <3>2. jobNew' \in [Req -> JobStatus]
      BY <2>4 DEF TypeOK, Index, JobStatus
    <3>3. pc' \in [Proc -> Labels]
      BY <2>4, GotoType DEF Index, Labels
    <3> QED BY <2>4, <3>1, <3>2, <3>3 DEF TypeOK, Index
  <2>5. CASE FailJob(p)
    <3>1. CASE p \in Workers /\ ~Rollback(p)
      <4>0. Write(p, [View(p) EXCEPT !.status = "failed"])
        BY <2>5, <3>1 DEF FailJob
      <4>1. docNew' \in Document /\ docLock' = p
        BY <4>0, ViewType, StatusType DEF Write, DocumentStatus, Live
      <4>2. jobNew' \in [Req -> JobStatus]
        BY <2>5, <3>1 DEF TypeOK, FailJob, JobStatus
      <4>3. pc' \in [Proc -> Labels]
        BY <2>5, <3>1, GotoType DEF FailJob, Labels
      <4> QED BY <2>5, <3>1, <4>1, <4>2, <4>3 DEF TypeOK, FailJob
    <3>2. CASE Rollback(p)
      BY <2>5, <3>2, RollbackType DEF TypeOK, FailJob
    <3> QED BY <2>5, <3>1, <3>2 DEF FailJob
  <2>6. CASE Commit(p)
    <3>1. "ok" \in Results
      BY DEF Results
    <3>2. doc' \in Document /\ job' \in [Req -> JobStatus]
      BY <2>6, ViewType DEF TypeOK, Commit
    <3> QED BY <2>6, <3>1, <3>2, FinishType DEF TypeOK, Commit
  <2>7. CASE Victim(p)
    BY <2>7, RollbackType DEF TypeOK, Victim
  <2>8. CASE p \in Workers /\ ClaimNext(p)
    <3>1. PICK r \in Req : Claim(p, r) /\ UNCHANGED job
      BY <2>8 DEF ClaimNext
    <3>2. pc' \in [Proc -> Labels]
      BY <3>1, GotoType DEF Claim, Labels
    <3> QED BY <3>1, <3>2 DEF TypeOK, Claim, JobStatus
  <2>9. CASE p \in Req /\ Upload(p)
    <3>1. CASE NotFound(p)
      BY <2>9, <3>1, NotFoundType
    <3>2. CASE ~NotFound(p)
      <4>1. docNew' \in Document /\ docLock' = p
        BY <2>9, <3>2, RowType DEF Upload, Write, DocumentStatus, Live
      <4>2. pc' \in [Proc -> Labels]
        BY <2>9, <3>2, GotoType DEF Upload, Labels
      <4> QED BY <2>9, <3>2, <4>1, <4>2 DEF TypeOK, Upload
    <3> QED BY <3>1, <3>2
  <2>10. CASE p \in Req /\ Reindex(p)
    <3>1. CASE NotFound(p)
      BY <2>10, <3>1, NotFoundType
    <3>2. CASE ~NotFound(p)
      BY <2>10, <3>2 DEF TypeOK, Reindex, Goto, Labels
    <3> QED BY <3>1, <3>2
  <2>11. CASE p \in Req /\ Enqueue(p)
    <3>1. CASE Rollback(p)
      BY <2>11, <3>1, RollbackType DEF TypeOK, Enqueue
    <3>2. CASE ~Rollback(p)
      <4>1. pc' \in [Proc -> Labels]
        BY <2>11, <3>2, GotoType DEF Enqueue, Labels
      <4>2. jobNew' \in [Req -> JobStatus] /\ jobLock' \in [Req -> Proc \cup {NoProc}]
        BY <2>11, <3>2 DEF TypeOK, Enqueue, JobStatus
      <4> QED BY <2>11, <3>2, <4>1, <4>2 DEF TypeOK, Enqueue
    <3> QED BY <3>1, <3>2
  <2>12. CASE p \in Req /\ DeleteRead(p)
    <3>1. CASE NotFound(p)
      BY <2>12, <3>1, NotFoundType
    <3>2. CASE ~NotFound(p)
      BY <2>12, <3>2 DEF TypeOK, DeleteRead, Goto, Labels
    <3> QED BY <3>1, <3>2
  <2>13. CASE p \in Req /\ DeleteDocument(p)
    <3>1. docNew' \in Document /\ docLock' \in Proc \cup {NoProc}
      BY <2>13, RowType DEF TypeOK, DeleteDocument, Write, DocumentStatus
    <3>2. pc' \in [Proc -> Labels]
      BY <2>13, GotoType DEF DeleteDocument, Labels
    <3> QED BY <2>13, <3>1, <3>2 DEF TypeOK, DeleteDocument
  <2>14. CASE p \in Req /\ Cascade(p)
    BY <2>14 DEF TypeOK, Cascade, Goto, Labels, JobStatus
  <2>15. CASE p \in Req /\ DeleteBlob(p)
    BY <2>15 DEF TypeOK, DeleteBlob, Goto, Labels
  <2> QED
    BY <1>1, <2>1, <2>2, <2>3, <2>4, <2>5, <2>6, <2>7, <2>8, <2>9, <2>10, <2>11,
       <2>12, <2>13, <2>14, <2>15 DEF Step
<1>2. ASSUME NEW p \in Proc, Crash(p) PROVE TypeOK'
  BY <1>2, RollbackType DEF TypeOK, Crash
<1>3. CASE UNCHANGED vars
  BY <1>3 DEF TypeOK, vars
<1> QED
  BY <1>1, <1>2, <1>3 DEF Next, Polling

(* Every reachable state of a document, its jobs and the processes that    *)
(* work on them is well typed.                                             *)
THEOREM TypeCorrect == Spec => []TypeOK
BY InitType, NextType, PTL DEF Spec

-----------------------------------------------------------------------------
(* The inductive invariant: one lemma per action *)

LEMMA Procs == NoProc \notin Proc /\ Req \subseteq Proc /\ Workers \subseteq Proc
BY ProcAssumption DEF Proc

(* The arrays of the model, without the types of what they hold.           *)
LEMMA Arrays ==
  TypeOK => /\ pc \in [Proc -> Labels]
            /\ task \in [Proc -> Req \cup {NoProc}]
            /\ jobLock \in [Req -> Proc \cup {NoProc}]
            /\ job \in [Req -> JobStatus]
            /\ jobNew \in [Req -> JobStatus]
BY DEF TypeOK

(* Nobody works on a job before the upload has created the document.       *)
LEMMA NobodyWorks ==
  ASSUME IndInv, NEW p \in Proc, task[p] # NoProc, NEW r \in Req, kind[r] = "upload"
  PROVE  pc[r] # "start"
<1>1. task[p] \in Req /\ jobLock[task[p]] = p
  BY Arrays DEF IndInv, TaskInv
<1>2. kind[task[p]] \in {"upload", "reindex"}
  BY <1>1, Procs DEF IndInv, OwnInv
<1>3. CASE kind[task[p]] = "upload"
  <2>1. task[p] = r
    BY <1>1, <1>3 DEF IndInv, OneUpload
  <2> QED BY <1>1, <2>1, Procs DEF IndInv, OwnInv
<1>4. CASE kind[task[p]] = "reindex"
  <2>1. job[r] \in Finished
    BY <1>1, <1>4, Procs DEF IndInv, ReindexInv
  <2> QED BY <2>1 DEF IndInv, OwnInv, Finished
<1> QED BY <1>2, <1>3, <1>4

(* A transaction that dies publishes nothing and gives up its locks.       *)
LEMMA RollbackInd ==
  ASSUME IndInv, TypeOK', NEW p \in Proc, Rollback(p)
  PROVE  IndInv'
<1>0. /\ UNCHANGED <<kind, doc, job>>
      /\ docLock' = (IF docLock = p THEN NoProc ELSE docLock)
      /\ docNew' = (IF docLock = p THEN doc ELSE docNew)
      /\ \A s \in Req : jobLock'[s] = IF jobLock[s] = p THEN NoProc ELSE jobLock[s]
      /\ \A s \in Req : jobNew'[s] = IF jobLock[s] = p THEN job[s] ELSE jobNew[s]
      /\ \A q \in Proc \ {p} : task'[q] = task[q] /\ pc'[q] = pc[q]
      /\ task'[p] = NoProc
      /\ pc'[p] \in {"done", "idle"}
  BY Arrays DEF IndInv, Rollback, Finish, Goto, request
<1>1. \A q \in Proc : TaskInv(q)'
  BY <1>0, Procs, Arrays DEF IndInv, TaskInv, Processing
<1>2. \A q \in Proc : DocInv(q)'
  BY <1>0, Procs, Arrays DEF IndInv, DocInv
<1>3. \A q \in Proc : LockInv(q)'
  BY <1>0, Procs, Arrays DEF IndInv, LockInv, DocInv
<1>4. \A q \in Proc : DirtyInv(q)'
  BY <1>0, Procs, Arrays DEF IndInv, DirtyInv, DocInv, JobInv, Processing, Finished
<1>5. \A s \in Req : \A q \in Proc : JobInv(s, q)'
  BY <1>0, Procs, Arrays DEF IndInv, JobInv, TaskInv, OwnInv, Processing
<1>6. \A s \in Req : OwnInv(s)'
  BY <1>0, Procs, Arrays DEF IndInv, OwnInv
<1>7. \A s \in Req : ReindexInv(s)'
  BY <1>0, Procs, Arrays DEF IndInv, ReindexInv, UploadInv, Untouched
<1>8. \A s \in Req : StartInv(s)'
  BY <1>0, Procs, Arrays DEF IndInv, StartInv
<1>9. OneUpload' /\ UploadInv'
  BY <1>0, Procs, Arrays DEF IndInv, OneUpload, UploadInv
<1>10. SearchableIsComplete' /\ NothingLeftRunning'
  BY <1>0, Procs, Arrays DEF IndInv, SearchableIsComplete, Searchable,
         NothingLeftRunning
<1> QED
  BY <1>1, <1>2, <1>3, <1>4, <1>5, <1>6, <1>7, <1>8, <1>9, <1>10 DEF IndInv

(* A commit publishes what its transaction wrote.                          *)
LEMMA CommitInd ==
  ASSUME IndInv, TypeOK', NEW p \in Proc, Commit(p)
  PROVE  IndInv'
<1>0. /\ UNCHANGED <<kind, docNew, jobNew>> /\ pc[p] = "commit"
      /\ docLock' = (IF docLock = p THEN NoProc ELSE docLock)
      /\ doc' = (IF docLock = p THEN docNew ELSE doc)
      /\ \A s \in Req : jobLock'[s] = IF jobLock[s] = p THEN NoProc ELSE jobLock[s]
      /\ \A s \in Req : job'[s] = IF jobLock[s] = p THEN jobNew[s] ELSE job[s]
      /\ \A q \in Proc \ {p} : task'[q] = task[q] /\ pc'[q] = pc[q]
      /\ task'[p] = NoProc
      /\ pc'[p] \in {"done", "idle"}
  BY Arrays DEF IndInv, Commit, View, Finish, Goto, request
<1>a. \A s \in Req : job[s] \in Finished => job'[s] \in Finished
  BY <1>0 DEF IndInv, JobInv, Finished
<1>1. \A q \in Proc : TaskInv(q)'
  BY <1>0, Procs, Arrays DEF IndInv, TaskInv, Processing
<1>2. \A q \in Proc : DocInv(q)'
  BY <1>0, Procs, Arrays DEF IndInv, DocInv
<1>3. \A q \in Proc : LockInv(q)'
  BY <1>0, Procs, Arrays DEF IndInv, LockInv, DocInv
<1>4. \A q \in Proc : DirtyInv(q)'
  BY <1>0, <1>a, Procs, Arrays DEF IndInv, DirtyInv, DocInv
<1>5. \A s \in Req : \A q \in Proc : JobInv(s, q)'
  BY <1>0, Procs, Arrays DEF IndInv, JobInv, TaskInv, OwnInv, Processing
<1>6. \A s \in Req : OwnInv(s)'
  BY <1>0, Procs, Arrays DEF IndInv, OwnInv
<1>7. \A s \in Req : ReindexInv(s)'
  BY <1>0, <1>a, Procs, Arrays DEF IndInv, ReindexInv
<1>8. \A s \in Req : StartInv(s)'
  BY <1>0, Procs, Arrays DEF IndInv, StartInv
<1>9. OneUpload' /\ UploadInv'
  <2>1. OneUpload'
    BY <1>0 DEF IndInv, OneUpload
  <2>2. UploadInv'
    BY <1>0, <1>a DEF IndInv, UploadInv, DirtyInv, JobInv, Finished, Untouched
  <2> QED BY <2>1, <2>2
<1>10. SearchableIsComplete' /\ NothingLeftRunning'
  <2>1. CASE docLock = p
    BY <1>0, <2>1 DEF IndInv, DocInv, JobInv, Processing, SearchableIsComplete,
           Searchable, NothingLeftRunning
  <2>2. CASE docLock # p
    BY <1>0, <2>2 DEF IndInv, JobInv, Processing, SearchableIsComplete, Searchable,
           NothingLeftRunning
  <2> QED BY <2>1, <2>2
<1> QED
  BY <1>1, <1>2, <1>3, <1>4, <1>5, <1>6, <1>7, <1>8, <1>9, <1>10 DEF IndInv

(* A request that finds nothing changes nothing.                           *)
LEMMA NotFoundInd ==
  ASSUME IndInv, TypeOK', NEW r \in Req, pc[r] = "start", NotFound(r)
  PROVE  IndInv'
<1>0. /\ UNCHANGED <<kind, doc, docNew, docLock, job, jobNew, jobLock, task>>
      /\ \A q \in Proc \ {r} : pc'[q] = pc[q]
      /\ pc'[r] = "done"
  BY Procs, Arrays DEF IndInv, NotFound, Goto, request, document, jobs
<1>1. \A q \in Proc : TaskInv(q)'
  BY <1>0, Procs, Arrays DEF IndInv, TaskInv, Processing
<1>2. \A q \in Proc : DocInv(q)'
  BY <1>0, Procs, Arrays DEF IndInv, DocInv
<1>3. \A q \in Proc : LockInv(q)'
  BY <1>0, Procs, Arrays DEF IndInv, LockInv, DocInv
<1>4. \A q \in Proc : DirtyInv(q)'
  BY <1>0, Procs, Arrays DEF IndInv, DirtyInv, DocInv, JobInv, Processing, Finished
<1>5. \A s \in Req : \A q \in Proc : JobInv(s, q)'
  BY <1>0, Procs, Arrays DEF IndInv, JobInv, TaskInv, OwnInv, Processing
<1>6. \A s \in Req : OwnInv(s)'
  BY <1>0, Procs, Arrays DEF IndInv, OwnInv
<1>7. \A s \in Req : ReindexInv(s)'
  BY <1>0, Procs, Arrays DEF IndInv, ReindexInv, UploadInv, Untouched
<1>8. \A s \in Req : StartInv(s)'
  BY <1>0, Procs, Arrays DEF IndInv, StartInv
<1>9. OneUpload' /\ UploadInv'
  BY <1>0, Procs, Arrays DEF IndInv, OneUpload, UploadInv
<1>10. SearchableIsComplete' /\ NothingLeftRunning'
  BY <1>0, Procs, Arrays DEF IndInv, SearchableIsComplete, Searchable,
         NothingLeftRunning
<1> QED
  BY <1>1, <1>2, <1>3, <1>4, <1>5, <1>6, <1>7, <1>8, <1>9, <1>10 DEF IndInv

(* The document is created in the transaction of its upload.               *)
LEMMA UploadInd ==
  ASSUME IndInv, TypeOK', NEW r \in Req, Upload(r)
  PROVE  IndInv'
<1> SUFFICES ASSUME ~NotFound(r) PROVE IndInv'
  BY NotFoundInd DEF Upload
<1>0. /\ UNCHANGED <<kind, doc, job, jobNew, jobLock, task>>
      /\ pc[r] = "start" /\ kind[r] = "upload"
      /\ \A q \in Proc \ {r} : pc'[q] = pc[q]
      /\ pc'[r] = "enqueue"
      /\ docLock' = r
      /\ docNew' = Row("pending")
  BY Procs, Arrays DEF IndInv, Upload, Write, Goto, request, document, jobs
<1>a. docLock = NoProc
  BY <1>0 DEF IndInv, StartInv
<1>1. \A q \in Proc : TaskInv(q)'
  BY <1>0, Procs, Arrays DEF IndInv, TaskInv, Processing
<1>2. \A q \in Proc : DocInv(q)'
  BY <1>0, Procs DEF IndInv, DocInv, Row
<1>3. \A q \in Proc : LockInv(q)'
  BY <1>0, <1>a, Procs DEF IndInv, LockInv
<1>4. \A q \in Proc : DirtyInv(q)'
  BY <1>0, Procs DEF IndInv, DirtyInv, Untouched, Row
<1>5. \A s \in Req : \A q \in Proc : JobInv(s, q)'
  BY <1>0, Procs, Arrays DEF IndInv, JobInv, TaskInv, OwnInv, Processing
<1>6. \A s \in Req : OwnInv(s)'
  BY <1>0, Procs, Arrays DEF IndInv, OwnInv
<1>7. \A s \in Req : ReindexInv(s)'
  BY <1>0, Procs, Arrays DEF IndInv, ReindexInv, UploadInv, Untouched
<1>8. \A s \in Req : StartInv(s)'
  BY <1>0 DEF IndInv, StartInv, OneUpload
<1>9. OneUpload' /\ UploadInv'
  BY <1>0, Procs, Arrays DEF IndInv, OneUpload, UploadInv
<1>10. SearchableIsComplete' /\ NothingLeftRunning'
  BY <1>0, Procs, Arrays DEF IndInv, SearchableIsComplete, Searchable,
         NothingLeftRunning
<1> QED
  BY <1>1, <1>2, <1>3, <1>4, <1>5, <1>6, <1>7, <1>8, <1>9, <1>10 DEF IndInv

(* A reindex finds an active version: the upload's job is finished.        *)
LEMMA ReindexInd ==
  ASSUME IndInv, TypeOK', NEW r \in Req, Reindex(r)
  PROVE  IndInv'
<1> SUFFICES ASSUME ~NotFound(r) PROVE IndInv'
  BY NotFoundInd DEF Reindex
<1>0. /\ UNCHANGED <<kind, doc, docNew, docLock, job, jobNew, jobLock, task>>
      /\ pc[r] = "start" /\ kind[r] = "reindex" /\ doc.active = "set"
      /\ \A q \in Proc \ {r} : pc'[q] = pc[q]
      /\ pc'[r] = "enqueue"
  BY Procs, Arrays DEF IndInv, Reindex, Goto, request, document, jobs
<1>1. \A q \in Proc : TaskInv(q)'
  BY <1>0, Procs, Arrays DEF IndInv, TaskInv, Processing
<1>2. \A q \in Proc : DocInv(q)'
  BY <1>0, Procs, Arrays DEF IndInv, DocInv
<1>3. \A q \in Proc : LockInv(q)'
  BY <1>0, Procs, Arrays DEF IndInv, LockInv, DocInv
<1>4. \A q \in Proc : DirtyInv(q)'
  BY <1>0, Procs, Arrays DEF IndInv, DirtyInv, DocInv, JobInv, Processing, Finished
<1>5. \A s \in Req : \A q \in Proc : JobInv(s, q)'
  BY <1>0, Procs, Arrays DEF IndInv, JobInv, TaskInv, OwnInv, Processing
<1>6. \A s \in Req : OwnInv(s)'
  BY <1>0, Procs, Arrays DEF IndInv, OwnInv
<1>7. \A s \in Req : ReindexInv(s)'
  BY <1>0, Procs, Arrays DEF IndInv, ReindexInv, UploadInv, Untouched
<1>8. \A s \in Req : StartInv(s)'
  BY <1>0, Procs, Arrays DEF IndInv, StartInv
<1>9. OneUpload' /\ UploadInv'
  BY <1>0, Procs, Arrays DEF IndInv, OneUpload, UploadInv
<1>10. SearchableIsComplete' /\ NothingLeftRunning'
  BY <1>0, Procs, Arrays DEF IndInv, SearchableIsComplete, Searchable,
         NothingLeftRunning
<1> QED
  BY <1>1, <1>2, <1>3, <1>4, <1>5, <1>6, <1>7, <1>8, <1>9, <1>10 DEF IndInv

(* The job of an upload or a reindex is inserted.                          *)
LEMMA EnqueueInd ==
  ASSUME IndInv, TypeOK', NEW r \in Req, Enqueue(r)
  PROVE  IndInv'
<1> SUFFICES ASSUME ~Rollback(r) PROVE IndInv'
  BY Procs, RollbackInd DEF Enqueue
<1>0. /\ UNCHANGED <<kind, doc, docNew, docLock, job>>
      /\ pc[r] = "enqueue"
      /\ \A q \in Proc \ {r} : pc'[q] = pc[q]
      /\ pc'[r] \in {"load", "commit"}
      /\ jobLock'[r] = r /\ jobNew'[r] = "queued" /\ task'[r] = r
      /\ \A s \in Req \ {r} : jobLock'[s] = jobLock[s] /\ jobNew'[s] = jobNew[s]
      /\ \A q \in Proc \ {r} : task'[q] = task[q]
  BY Procs, Arrays DEF IndInv, Enqueue, Goto, request, document, jobs
<1>a. job[r] = "none" /\ jobLock[r] = NoProc
  BY <1>0 DEF IndInv, OwnInv
<1>1. \A q \in Proc : TaskInv(q)'
  BY <1>0, <1>a, Procs, Arrays DEF IndInv, TaskInv, Processing
<1>2. \A q \in Proc : DocInv(q)'
  BY <1>0, Procs DEF IndInv, DocInv, Searchable
<1>3. \A q \in Proc : LockInv(q)'
  BY <1>0, Procs, Arrays DEF IndInv, LockInv, DocInv
<1>4. \A q \in Proc : DirtyInv(q)'
  BY <1>0, <1>a, Procs DEF IndInv, DirtyInv, Finished
<1>5. \A s \in Req : \A q \in Proc : JobInv(s, q)'
  BY <1>0, Procs, Arrays DEF IndInv, JobInv, TaskInv, OwnInv, Processing
<1>6. \A s \in Req : OwnInv(s)'
  BY <1>0, Procs, Arrays DEF IndInv, OwnInv
<1>7. \A s \in Req : ReindexInv(s)'
  BY <1>0, Procs, Arrays DEF IndInv, ReindexInv, UploadInv, Untouched
<1>8. \A s \in Req : StartInv(s)'
  BY <1>0, Procs, Arrays DEF IndInv, StartInv
<1>9. OneUpload' /\ UploadInv'
  BY <1>0, Procs, Arrays DEF IndInv, OneUpload, UploadInv
<1>10. SearchableIsComplete' /\ NothingLeftRunning'
  BY <1>0, Procs, Arrays DEF IndInv, SearchableIsComplete, Searchable,
         NothingLeftRunning
<1> QED
  BY <1>1, <1>2, <1>3, <1>4, <1>5, <1>6, <1>7, <1>8, <1>9, <1>10 DEF IndInv

(* A worker claims a queued job that nobody holds.                         *)
LEMMA ClaimNextInd ==
  ASSUME IndInv, TypeOK', NEW p \in Workers, ClaimNext(p)
  PROVE  IndInv'
<1>a. PICK r \in Req :
        job[r] = "queued" /\ jobLock[r] = NoProc /\ Claim(p, r) /\ UNCHANGED job
  BY DEF ClaimNext
<1>0. /\ UNCHANGED <<kind, doc, docNew, docLock, job>>
      /\ pc[p] = "idle" /\ p \notin Req
      /\ \A q \in Proc \ {p} : pc'[q] = pc[q]
      /\ pc'[p] = "load"
      /\ jobLock'[r] = p /\ jobNew'[r] = "running" /\ task'[p] = r
      /\ \A s \in Req \ {r} : jobLock'[s] = jobLock[s] /\ jobNew'[s] = jobNew[s]
      /\ \A q \in Proc \ {p} : task'[q] = task[q]
  BY <1>a, ProcAssumption, Procs, Arrays DEF IndInv, ClaimNext, Claim, Goto,
         request, document, jobs
<1>1. \A q \in Proc : TaskInv(q)'
  BY <1>0, <1>a, Procs, Arrays DEF IndInv, TaskInv, Processing
<1>2. \A q \in Proc : DocInv(q)'
  BY <1>0, Procs, Arrays DEF IndInv, DocInv
<1>3. \A q \in Proc : LockInv(q)'
  BY <1>0, Procs, Arrays DEF IndInv, LockInv, DocInv
<1>4. \A q \in Proc : DirtyInv(q)'
  BY <1>0, <1>a, Procs DEF IndInv, DirtyInv, DocInv
<1>5. \A s \in Req : \A q \in Proc : JobInv(s, q)'
  BY <1>0, <1>a, Procs DEF IndInv, JobInv, OwnInv, TaskInv, Processing
<1>6. \A s \in Req : OwnInv(s)'
  BY <1>0, <1>a, Procs DEF IndInv, OwnInv
<1>7. \A s \in Req : ReindexInv(s)'
  BY <1>0, <1>a, Procs DEF IndInv, ReindexInv
<1>8. \A s \in Req : StartInv(s)'
  BY <1>0, Procs DEF IndInv, StartInv
<1>9. OneUpload' /\ UploadInv'
  BY <1>0, Procs, Arrays DEF IndInv, OneUpload, UploadInv
<1>10. SearchableIsComplete' /\ NothingLeftRunning'
  BY <1>0, Procs, Arrays DEF IndInv, SearchableIsComplete, Searchable,
         NothingLeftRunning
<1> QED
  BY <1>1, <1>2, <1>3, <1>4, <1>5, <1>6, <1>7, <1>8, <1>9, <1>10 DEF IndInv

(* The job, its version and its document are read.                         *)
LEMMA LoadInd ==
  ASSUME IndInv, TypeOK', NEW p \in Proc, Load(p)
  PROVE  IndInv'
<1>0. /\ UNCHANGED <<kind, doc, docNew, docLock, job, jobNew, jobLock, task>>
      /\ pc[p] = "load"
      /\ \A q \in Proc \ {p} : pc'[q] = pc[q]
      /\ pc'[p] \in {"lock", "fail"}
  BY Procs, Arrays DEF IndInv, Load, Goto, request, document, jobs
<1>1. \A q \in Proc : TaskInv(q)'
  BY <1>0, Procs, Arrays DEF IndInv, TaskInv, Processing
<1>2. \A q \in Proc : DocInv(q)'
  BY <1>0, Procs, Arrays DEF IndInv, DocInv
<1>3. \A q \in Proc : LockInv(q)'
  BY <1>0, Procs, Arrays DEF IndInv, LockInv, DocInv
<1>4. \A q \in Proc : DirtyInv(q)'
  BY <1>0, Procs, Arrays DEF IndInv, DirtyInv, DocInv, JobInv, Processing, Finished
<1>5. \A s \in Req : \A q \in Proc : JobInv(s, q)'
  BY <1>0, Procs, Arrays DEF IndInv, JobInv, TaskInv, OwnInv, Processing
<1>6. \A s \in Req : OwnInv(s)'
  BY <1>0, Procs, Arrays DEF IndInv, OwnInv
<1>7. \A s \in Req : ReindexInv(s)'
  BY <1>0, Procs, Arrays DEF IndInv, ReindexInv, UploadInv, Untouched
<1>8. \A s \in Req : StartInv(s)'
  BY <1>0, Procs, Arrays DEF IndInv, StartInv
<1>9. OneUpload' /\ UploadInv'
  BY <1>0, Procs, Arrays DEF IndInv, OneUpload, UploadInv
<1>10. SearchableIsComplete' /\ NothingLeftRunning'
  BY <1>0, Procs, Arrays DEF IndInv, SearchableIsComplete, Searchable,
         NothingLeftRunning
<1> QED
  BY <1>1, <1>2, <1>3, <1>4, <1>5, <1>6, <1>7, <1>8, <1>9, <1>10 DEF IndInv

(* A job locks its document and marks it processing.                       *)
LEMMA LockDocumentInd ==
  ASSUME IndInv, TypeOK', NEW p \in Proc, LockDocument(p)
  PROVE  IndInv'
<1>0. /\ UNCHANGED <<kind, doc, job, jobNew, jobLock, task>>
      /\ pc[p] = "lock" /\ docLock \in {NoProc, p}
      /\ \A q \in Proc \ {p} : pc'[q] = pc[q]
      /\ pc'[p] = "embed"
      /\ docLock' = p
      /\ docNew' = [View(p) EXCEPT !.status = "processing"]
  BY Procs, Arrays DEF IndInv, LockDocument, Lockable, Write, Goto, request,
         document, jobs
<1>a. task[p] # NoProc
  BY <1>0 DEF IndInv, TaskInv, Processing
<1>b. docNew'.chunks = View(p).chunks /\ docNew'.active = View(p).active
  BY <1>0, ViewType DEF IndInv, Document
<1>1. \A q \in Proc : TaskInv(q)'
  BY <1>0, Procs, Arrays DEF IndInv, TaskInv, Processing
<1>2. \A q \in Proc : DocInv(q)'
  BY <1>0, Procs DEF IndInv, DocInv
<1>3. \A q \in Proc : LockInv(q)'
  BY <1>0, Procs DEF IndInv, LockInv
<1>4. \A q \in Proc : DirtyInv(q)'
  BY <1>0, <1>b DEF IndInv, DirtyInv, UploadInv, Untouched, View
<1>5. \A s \in Req : \A q \in Proc : JobInv(s, q)'
  BY <1>0, Procs, Arrays DEF IndInv, JobInv, TaskInv, OwnInv, Processing
<1>6. \A s \in Req : OwnInv(s)'
  BY <1>0, Procs, Arrays DEF IndInv, OwnInv
<1>7. \A s \in Req : ReindexInv(s)'
  BY <1>0, Procs, Arrays DEF IndInv, ReindexInv, UploadInv, Untouched
<1>8. \A s \in Req : StartInv(s)'
  BY <1>0, <1>a, NobodyWorks, Procs DEF StartInv
<1>9. OneUpload' /\ UploadInv'
  BY <1>0, Procs, Arrays DEF IndInv, OneUpload, UploadInv
<1>10. SearchableIsComplete' /\ NothingLeftRunning'
  BY <1>0, Procs, Arrays DEF IndInv, SearchableIsComplete, Searchable,
         NothingLeftRunning
<1> QED
  BY <1>1, <1>2, <1>3, <1>4, <1>5, <1>6, <1>7, <1>8, <1>9, <1>10 DEF IndInv

(* The chunks are computed while the document is locked.                   *)
LEMMA EmbedInd ==
  ASSUME IndInv, TypeOK', NEW p \in Proc, Embed(p)
  PROVE  IndInv'
<1>0. /\ UNCHANGED <<kind, doc, docNew, docLock, job, jobNew, jobLock, task>>
      /\ pc[p] = "embed" /\ docLock = p
      /\ \A q \in Proc \ {p} : pc'[q] = pc[q]
      /\ pc'[p] \in {"index", "fail"}
  BY Procs, Arrays DEF IndInv, Embed, LockInv, Goto, request, document, jobs
<1>1. \A q \in Proc : TaskInv(q)'
  BY <1>0, Procs, Arrays DEF IndInv, TaskInv, Processing
<1>2. \A q \in Proc : DocInv(q)'
  BY <1>0, Procs, Arrays DEF IndInv, DocInv
<1>3. \A q \in Proc : LockInv(q)'
  BY <1>0, Procs, Arrays DEF IndInv, LockInv, DocInv
<1>4. \A q \in Proc : DirtyInv(q)'
  BY <1>0, Procs, Arrays DEF IndInv, DirtyInv, DocInv, JobInv, Processing, Finished
<1>5. \A s \in Req : \A q \in Proc : JobInv(s, q)'
  BY <1>0, Procs, Arrays DEF IndInv, JobInv, TaskInv, OwnInv, Processing
<1>6. \A s \in Req : OwnInv(s)'
  BY <1>0, Procs, Arrays DEF IndInv, OwnInv
<1>7. \A s \in Req : ReindexInv(s)'
  BY <1>0, Procs, Arrays DEF IndInv, ReindexInv, UploadInv, Untouched
<1>8. \A s \in Req : StartInv(s)'
  BY <1>0, Procs, Arrays DEF IndInv, StartInv
<1>9. OneUpload' /\ UploadInv'
  BY <1>0, Procs, Arrays DEF IndInv, OneUpload, UploadInv
<1>10. SearchableIsComplete' /\ NothingLeftRunning'
  BY <1>0, Procs, Arrays DEF IndInv, SearchableIsComplete, Searchable,
         NothingLeftRunning
<1> QED
  BY <1>1, <1>2, <1>3, <1>4, <1>5, <1>6, <1>7, <1>8, <1>9, <1>10 DEF IndInv

(* The chunks are written and the document is made ready: its job replaces *)
(* all chunks if it is a reindex, and finds none if it is the upload's.    *)
LEMMA IndexInd ==
  ASSUME IndInv, TypeOK', NEW p \in Proc, Index(p)
  PROVE  IndInv'
<1>0. /\ UNCHANGED <<kind, doc, docLock, job, jobLock, task>>
      /\ pc[p] = "index" /\ docLock = p
      /\ \A q \in Proc \ {p} : pc'[q] = pc[q]
  BY Procs, Arrays DEF IndInv, Index, LockInv, Goto, request, document, jobs
<1>a. /\ task[p] \in Req /\ jobLock[task[p]] = p
      /\ job[task[p]] \in {"none", "queued"} /\ jobNew[task[p]] \in {"queued", "running"}
      /\ \A s \in Req : jobLock[s] = p => s = task[p]
  BY <1>0, Arrays DEF IndInv, TaskInv, JobInv, Processing
<1>b. \A s \in Req : kind[s] = "upload" /\ job[s] \notin Finished => Untouched(docNew)
  BY <1>0, <1>a DEF IndInv, DirtyInv, Finished
<1>c. CASE /\ jobNew' = [jobNew EXCEPT ![task[p]] = "completed"]
           /\ docNew' = [status |-> "ready", active |-> "set", chunks |-> Chunk,
                         counted |-> Chunk \ Kept(p)]
           /\ pc' = [pc EXCEPT ![p] = "commit"]
  <2>a. /\ pc'[p] = "commit"
        /\ jobNew'[task[p]] = "completed"
        /\ \A s \in Req \ {task[p]} : jobNew'[s] = jobNew[s]
        /\ docNew'.status = "ready" /\ docNew'.chunks = Chunk
        /\ docNew'.counted = Chunk \ Kept(p)
    BY <1>a, <1>c, Arrays DEF IndInv
  <2>b. kind[task[p]] \in {"upload", "reindex"}
    BY <1>a, Procs DEF IndInv, OwnInv
  <2>c. Kept(p) = {}
    BY <1>a, <1>b, <2>b DEF Kept, Untouched, Finished
  <2>d. \A s \in Req : kind[s] = "upload" /\ s # task[p] => job[s] \in Finished
    BY <1>a, <2>b, Procs DEF IndInv, ReindexInv, OneUpload
  <2>1. \A q \in Proc : TaskInv(q)'
    BY <1>0, <1>a, <2>a, Procs, Arrays DEF IndInv, TaskInv, Processing
  <2>2. \A q \in Proc : DocInv(q)'
    BY <1>0, <2>a, <2>c, Procs DEF IndInv, DocInv
  <2>3. \A q \in Proc : LockInv(q)'
    BY <1>0, <1>a, <2>a, Procs, Arrays DEF IndInv, LockInv, DocInv
  <2>4. \A q \in Proc : DirtyInv(q)'
    BY <1>0, <1>a, <2>a, <2>d DEF DirtyInv, Finished
  <2>5. \A s \in Req : \A q \in Proc : JobInv(s, q)'
    BY <1>0, <1>a, <2>a, Procs, Arrays DEF IndInv, JobInv, TaskInv, OwnInv, Processing
  <2>6. \A s \in Req : OwnInv(s)'
    BY <1>0, <1>a, <2>a, Procs, Arrays DEF IndInv, OwnInv
  <2>7. \A s \in Req : ReindexInv(s)'
    BY <1>0, <1>a, <2>a, Procs, Arrays DEF IndInv, ReindexInv, UploadInv, Untouched
  <2>8. \A s \in Req : StartInv(s)'
    BY <1>0, <1>a, <2>a, Procs, Arrays DEF IndInv, StartInv
  <2>9. OneUpload' /\ UploadInv'
    BY <1>0, <1>a, <2>a, Procs, Arrays DEF IndInv, OneUpload, UploadInv
  <2>10. SearchableIsComplete' /\ NothingLeftRunning'
    BY <1>0, <1>a, <2>a, Procs, Arrays DEF IndInv, SearchableIsComplete, Searchable,
           NothingLeftRunning
  <2> QED
    BY <2>1, <2>2, <2>3, <2>4, <2>5, <2>6, <2>7, <2>8, <2>9, <2>10 DEF IndInv
<1>d. CASE /\ UNCHANGED jobNew
           /\ docNew' = [docNew EXCEPT !.chunks = Kept(p)]
           /\ pc' = [pc EXCEPT ![p] = "fail"]
  <2>a. pc'[p] = "fail" /\ docNew'.chunks = Kept(p) /\ docNew'.active = docNew.active
    BY <1>d, Arrays DEF IndInv, TypeOK, Document
  <2>1. \A q \in Proc : TaskInv(q)'
    BY <1>0, <1>d, <2>a, Procs, Arrays DEF IndInv, TaskInv, Processing
  <2>2. \A q \in Proc : DocInv(q)'
    BY <1>0, <1>d, <2>a, Procs, Arrays DEF IndInv, DocInv
  <2>3. \A q \in Proc : LockInv(q)'
    BY <1>0, <1>d, <2>a, Procs, Arrays DEF IndInv, LockInv, DocInv
  <2>4. \A q \in Proc : DirtyInv(q)'
    BY <1>0, <1>b, <1>d, <2>a DEF DirtyInv, Untouched, Kept
  <2>5. \A s \in Req : \A q \in Proc : JobInv(s, q)'
    BY <1>0, <1>d, <2>a, Procs, Arrays DEF IndInv, JobInv, TaskInv, OwnInv, Processing
  <2>6. \A s \in Req : OwnInv(s)'
    BY <1>0, <1>d, <2>a, Procs, Arrays DEF IndInv, OwnInv
  <2>7. \A s \in Req : ReindexInv(s)'
    BY <1>0, <1>d, <2>a, Procs, Arrays DEF IndInv, ReindexInv, UploadInv, Untouched
  <2>8. \A s \in Req : StartInv(s)'
    BY <1>0, <1>d, <2>a, Procs, Arrays DEF IndInv, StartInv
  <2>9. OneUpload' /\ UploadInv'
    BY <1>0, <1>d, <2>a, Procs, Arrays DEF IndInv, OneUpload, UploadInv
  <2>10. SearchableIsComplete' /\ NothingLeftRunning'
    BY <1>0, <1>d, <2>a, Procs, Arrays DEF IndInv, SearchableIsComplete, Searchable,
           NothingLeftRunning
  <2> QED
    BY <2>1, <2>2, <2>3, <2>4, <2>5, <2>6, <2>7, <2>8, <2>9, <2>10 DEF IndInv
<1> QED
  BY <1>c, <1>d DEF Index, Goto

(* A worker records the failure; a request is rolled back.                 *)
LEMMA FailJobInd ==
  ASSUME IndInv, TypeOK', NEW p \in Proc, FailJob(p)
  PROVE  IndInv'
<1> SUFFICES ASSUME ~Rollback(p) PROVE IndInv'
  BY RollbackInd DEF FailJob
<1>0. /\ UNCHANGED <<kind, doc, job, jobLock, task>>
      /\ pc[p] = "fail" /\ docLock \in {NoProc, p}
      /\ \A q \in Proc \ {p} : pc'[q] = pc[q]
      /\ pc'[p] = "commit"
      /\ docLock' = p
      /\ docNew' = [View(p) EXCEPT !.status = "failed"]
      /\ jobNew' = [jobNew EXCEPT ![task[p]] = "failed"]
  BY Procs, Arrays DEF IndInv, FailJob, Lockable, Write, Goto, request, document, jobs
<1>a. /\ task[p] \in Req /\ jobLock[task[p]] = p
      /\ job[task[p]] \in {"none", "queued"} /\ jobNew[task[p]] \in {"queued", "running"}
      /\ \A s \in Req : jobLock[s] = p => s = task[p]
  BY <1>0, Arrays DEF IndInv, TaskInv, JobInv, Processing
<1>b. /\ docNew'.chunks = View(p).chunks /\ docNew'.active = View(p).active
      /\ docNew'.status = "failed"
  BY <1>0, ViewType DEF IndInv, Document
<1>c. jobNew'[task[p]] = "failed" /\ \A s \in Req \ {task[p]} : jobNew'[s] = jobNew[s]
  BY <1>0, <1>a, Arrays DEF IndInv
<1>1. \A q \in Proc : TaskInv(q)'
  BY <1>0, Procs, Arrays DEF IndInv, TaskInv, Processing
<1>2. \A q \in Proc : DocInv(q)'
  BY <1>0, <1>b, Procs DEF IndInv, DocInv, Searchable
<1>3. \A q \in Proc : LockInv(q)'
  BY <1>0, Procs DEF IndInv, LockInv
<1>4. \A q \in Proc : DirtyInv(q)'
  BY <1>0, <1>a, <1>b, <1>c DEF IndInv, DirtyInv, UploadInv, Untouched, View, Finished
<1>5. \A s \in Req : \A q \in Proc : JobInv(s, q)'
  BY <1>0, <1>a, <1>c, Procs DEF IndInv, JobInv, Processing
<1>6. \A s \in Req : OwnInv(s)'
  BY <1>0, Procs, Arrays DEF IndInv, OwnInv
<1>7. \A s \in Req : ReindexInv(s)'
  BY <1>0, Procs, Arrays DEF IndInv, ReindexInv, UploadInv, Untouched
<1>8. \A s \in Req : StartInv(s)'
  BY <1>0, <1>a, NobodyWorks, Procs DEF StartInv
<1>9. OneUpload' /\ UploadInv'
  BY <1>0, Procs, Arrays DEF IndInv, OneUpload, UploadInv
<1>10. SearchableIsComplete' /\ NothingLeftRunning'
  BY <1>0, Procs, Arrays DEF IndInv, SearchableIsComplete, Searchable,
         NothingLeftRunning
<1> QED
  BY <1>1, <1>2, <1>3, <1>4, <1>5, <1>6, <1>7, <1>8, <1>9, <1>10 DEF IndInv

(* A delete reads the document.                                            *)
LEMMA DeleteReadInd ==
  ASSUME IndInv, TypeOK', NEW r \in Req, DeleteRead(r)
  PROVE  IndInv'
<1> SUFFICES ASSUME ~NotFound(r) PROVE IndInv'
  BY NotFoundInd DEF DeleteRead
<1>0. /\ UNCHANGED <<kind, doc, docNew, docLock, job, jobNew, jobLock, task>>
      /\ pc[r] = "start"
      /\ \A q \in Proc \ {r} : pc'[q] = pc[q]
      /\ pc'[r] = "delete"
  BY Procs, Arrays DEF IndInv, DeleteRead, Goto, request, document, jobs
<1>1. \A q \in Proc : TaskInv(q)'
  BY <1>0, Procs, Arrays DEF IndInv, TaskInv, Processing
<1>2. \A q \in Proc : DocInv(q)'
  BY <1>0, Procs, Arrays DEF IndInv, DocInv
<1>3. \A q \in Proc : LockInv(q)'
  BY <1>0, Procs, Arrays DEF IndInv, LockInv, DocInv
<1>4. \A q \in Proc : DirtyInv(q)'
  BY <1>0, Procs, Arrays DEF IndInv, DirtyInv, DocInv, JobInv, Processing, Finished
<1>5. \A s \in Req : \A q \in Proc : JobInv(s, q)'
  BY <1>0, Procs, Arrays DEF IndInv, JobInv, TaskInv, OwnInv, Processing
<1>6. \A s \in Req : OwnInv(s)'
  BY <1>0, Procs, Arrays DEF IndInv, OwnInv
<1>7. \A s \in Req : ReindexInv(s)'
  BY <1>0, Procs, Arrays DEF IndInv, ReindexInv, UploadInv, Untouched
<1>8. \A s \in Req : StartInv(s)'
  BY <1>0, Procs, Arrays DEF IndInv, StartInv
<1>9. OneUpload' /\ UploadInv'
  BY <1>0, Procs, Arrays DEF IndInv, OneUpload, UploadInv
<1>10. SearchableIsComplete' /\ NothingLeftRunning'
  BY <1>0, Procs, Arrays DEF IndInv, SearchableIsComplete, Searchable,
         NothingLeftRunning
<1> QED
  BY <1>1, <1>2, <1>3, <1>4, <1>5, <1>6, <1>7, <1>8, <1>9, <1>10 DEF IndInv

(* The document is deleted, or is gone already.                            *)
LEMMA DeleteDocumentInd ==
  ASSUME IndInv, TypeOK', NEW r \in Req, DeleteDocument(r)
  PROVE  IndInv'
<1>0. /\ UNCHANGED <<kind, doc, job, jobNew, jobLock, task>>
      /\ pc[r] = "delete" /\ docLock \in {NoProc, r}
      /\ \A q \in Proc \ {r} : pc'[q] = pc[q]
  BY Procs, Arrays DEF IndInv, DeleteDocument, Lockable, Goto, request, document, jobs
<1>1. CASE Exists(doc) /\ Write(r, Row("deleted")) /\ pc' = [pc EXCEPT ![r] = "cascade"]
  <2>a. /\ docLock' = r /\ docNew' = Row("deleted") /\ pc'[r] = "cascade"
        /\ doc.status # "none"
    BY <1>1, Procs, Arrays DEF IndInv, Write, Exists, Live
  <2>1. \A q \in Proc : TaskInv(q)'
    BY <1>0, <2>a, Procs, Arrays DEF IndInv, TaskInv, Processing
  <2>2. \A q \in Proc : DocInv(q)'
    BY <1>0, <2>a DEF IndInv, DocInv, Row
  <2>3. \A q \in Proc : LockInv(q)'
    BY <1>0, <2>a, Procs DEF IndInv, LockInv
  <2>4. \A q \in Proc : DirtyInv(q)'
    BY <1>0, <2>a DEF DirtyInv, Untouched, Row
  <2>5. \A s \in Req : \A q \in Proc : JobInv(s, q)'
    BY <1>0, <2>a, Procs, Arrays DEF IndInv, JobInv, TaskInv, OwnInv, Processing
  <2>6. \A s \in Req : OwnInv(s)'
    BY <1>0, <2>a, Procs, Arrays DEF IndInv, OwnInv
  <2>7. \A s \in Req : ReindexInv(s)'
    BY <1>0, <2>a, Procs, Arrays DEF IndInv, ReindexInv, UploadInv, Untouched
  <2>8. \A s \in Req : StartInv(s)'
    BY <1>0, <2>a, Procs, Arrays DEF IndInv, StartInv
  <2>9. OneUpload' /\ UploadInv'
    BY <1>0, <2>a, Procs, Arrays DEF IndInv, OneUpload, UploadInv
  <2>10. SearchableIsComplete' /\ NothingLeftRunning'
    BY <1>0, <2>a, Procs, Arrays DEF IndInv, SearchableIsComplete, Searchable,
           NothingLeftRunning
  <2> QED
    BY <2>1, <2>2, <2>3, <2>4, <2>5, <2>6, <2>7, <2>8, <2>9, <2>10 DEF IndInv
<1>2. CASE UNCHANGED <<docNew, docLock>> /\ pc' = [pc EXCEPT ![r] = "unblob"]
  <2>a. pc'[r] = "unblob"
    BY <1>2, Procs, Arrays DEF IndInv
  <2>1. \A q \in Proc : TaskInv(q)'
    BY <1>0, <1>2, <2>a, Procs, Arrays DEF IndInv, TaskInv, Processing
  <2>2. \A q \in Proc : DocInv(q)'
    BY <1>0, <1>2, <2>a, Procs, Arrays DEF IndInv, DocInv
  <2>3. \A q \in Proc : LockInv(q)'
    BY <1>0, <1>2, <2>a, Procs, Arrays DEF IndInv, LockInv, DocInv
  <2>4. \A q \in Proc : DirtyInv(q)'
    BY <1>0, <1>2, <2>a, Procs, Arrays DEF IndInv, DirtyInv, DocInv, JobInv,
           Processing, Finished
  <2>5. \A s \in Req : \A q \in Proc : JobInv(s, q)'
    BY <1>0, <1>2, <2>a, Procs, Arrays DEF IndInv, JobInv, TaskInv, OwnInv, Processing
  <2>6. \A s \in Req : OwnInv(s)'
    BY <1>0, <1>2, <2>a, Procs, Arrays DEF IndInv, OwnInv
  <2>7. \A s \in Req : ReindexInv(s)'
    BY <1>0, <1>2, <2>a, Procs, Arrays DEF IndInv, ReindexInv, UploadInv, Untouched
  <2>8. \A s \in Req : StartInv(s)'
    BY <1>0, <1>2, <2>a, Procs, Arrays DEF IndInv, StartInv
  <2>9. OneUpload' /\ UploadInv'
    BY <1>0, <1>2, <2>a, Procs, Arrays DEF IndInv, OneUpload, UploadInv
  <2>10. SearchableIsComplete' /\ NothingLeftRunning'
    BY <1>0, <1>2, <2>a, Procs, Arrays DEF IndInv, SearchableIsComplete, Searchable,
           NothingLeftRunning
  <2> QED
    BY <2>1, <2>2, <2>3, <2>4, <2>5, <2>6, <2>7, <2>8, <2>9, <2>10 DEF IndInv
<1> QED
  BY <1>1, <1>2 DEF DeleteDocument, Goto

(* The delete takes the jobs that no worker holds.                         *)
LEMMA CascadeInd ==
  ASSUME IndInv, TypeOK', NEW r \in Req, Cascade(r)
  PROVE  IndInv'
<1>0. /\ UNCHANGED <<kind, doc, docNew, docLock, job, task>>
      /\ pc[r] = "cascade"
      /\ \A q \in Proc \ {r} : pc'[q] = pc[q]
      /\ pc'[r] = "unblob"
      /\ \A s \in Req : job[s] # "none" =>
           /\ jobLock[s] = NoProc
           /\ jobLock'[s] = r /\ jobNew'[s] = "deleted"
      /\ \A s \in Req : job[s] = "none" => jobLock'[s] = jobLock[s] /\ jobNew'[s] = jobNew[s]
  BY Procs, Arrays DEF IndInv, Cascade, Goto, request, document, jobs
<1>1. \A q \in Proc : TaskInv(q)'
  BY <1>0, Procs, Arrays DEF IndInv, TaskInv, Processing
<1>2. \A q \in Proc : DocInv(q)'
  BY <1>0, Procs, Arrays DEF IndInv, DocInv
<1>3. \A q \in Proc : LockInv(q)'
  BY <1>0, Procs, Arrays DEF IndInv, LockInv, DocInv
<1>4. \A q \in Proc : DirtyInv(q)'
  BY <1>0, Procs, Arrays DEF IndInv, DirtyInv, DocInv, JobInv, Processing, Finished
<1>5. \A s \in Req : \A q \in Proc : JobInv(s, q)'
  BY <1>0, Procs, Arrays DEF IndInv, JobInv, TaskInv, OwnInv, Processing
<1>6. \A s \in Req : OwnInv(s)'
  BY <1>0, Procs, Arrays DEF IndInv, OwnInv
<1>7. \A s \in Req : ReindexInv(s)'
  BY <1>0, Procs, Arrays DEF IndInv, ReindexInv, UploadInv, Untouched
<1>8. \A s \in Req : StartInv(s)'
  BY <1>0, Procs, Arrays DEF IndInv, StartInv
<1>9. OneUpload' /\ UploadInv'
  BY <1>0, Procs, Arrays DEF IndInv, OneUpload, UploadInv
<1>10. SearchableIsComplete' /\ NothingLeftRunning'
  BY <1>0, Procs, Arrays DEF IndInv, SearchableIsComplete, Searchable,
         NothingLeftRunning
<1> QED
  BY <1>1, <1>2, <1>3, <1>4, <1>5, <1>6, <1>7, <1>8, <1>9, <1>10 DEF IndInv

(* The file of a deleted document goes.                                    *)
LEMMA DeleteBlobInd ==
  ASSUME IndInv, TypeOK', NEW r \in Req, DeleteBlob(r)
  PROVE  IndInv'
<1>0. /\ UNCHANGED <<kind, doc, docNew, docLock, job, jobNew, jobLock, task>>
      /\ pc[r] = "unblob"
      /\ \A q \in Proc \ {r} : pc'[q] = pc[q]
      /\ pc'[r] = "commit"
  BY Procs, Arrays DEF IndInv, DeleteBlob, Goto, request, document, jobs
<1>1. \A q \in Proc : TaskInv(q)'
  BY <1>0, Procs, Arrays DEF IndInv, TaskInv, Processing
<1>2. \A q \in Proc : DocInv(q)'
  BY <1>0, Procs DEF IndInv, DocInv, Searchable
<1>3. \A q \in Proc : LockInv(q)'
  BY <1>0, Procs, Arrays DEF IndInv, LockInv, DocInv
<1>4. \A q \in Proc : DirtyInv(q)'
  BY <1>0, Procs, Arrays DEF IndInv, DirtyInv, DocInv, JobInv, Processing, Finished
<1>5. \A s \in Req : \A q \in Proc : JobInv(s, q)'
  BY <1>0, Procs, Arrays DEF IndInv, JobInv, TaskInv, OwnInv, Processing
<1>6. \A s \in Req : OwnInv(s)'
  BY <1>0, Procs, Arrays DEF IndInv, OwnInv
<1>7. \A s \in Req : ReindexInv(s)'
  BY <1>0, Procs, Arrays DEF IndInv, ReindexInv, UploadInv, Untouched
<1>8. \A s \in Req : StartInv(s)'
  BY <1>0, Procs, Arrays DEF IndInv, StartInv
<1>9. OneUpload' /\ UploadInv'
  BY <1>0, Procs, Arrays DEF IndInv, OneUpload, UploadInv
<1>10. SearchableIsComplete' /\ NothingLeftRunning'
  BY <1>0, Procs, Arrays DEF IndInv, SearchableIsComplete, Searchable,
         NothingLeftRunning
<1> QED
  BY <1>1, <1>2, <1>3, <1>4, <1>5, <1>6, <1>7, <1>8, <1>9, <1>10 DEF IndInv

-----------------------------------------------------------------------------
(* The theorems *)

LEMMA InitInd == Init => IndInv
<1> SUFFICES ASSUME Init PROVE IndInv
  OBVIOUS
<1>1. /\ doc = Row("none") /\ docLock = NoProc
      /\ \A r \in Req : job[r] = "none" /\ jobLock[r] = NoProc /\ pc[r] = "start"
      /\ \A p \in Proc : task[p] = NoProc /\ pc[p] \in {"start", "idle"}
  BY Procs DEF Init
<1>2. OneUpload
  BY DEF Init, OneUpload
<1>3. \A p \in Proc : TaskInv(p) /\ DocInv(p) /\ LockInv(p) /\ DirtyInv(p)
  BY <1>1, Procs DEF TaskInv, DocInv, LockInv, DirtyInv, Processing
<1>4. \A r \in Req : OwnInv(r) /\ ReindexInv(r) /\ StartInv(r)
  BY <1>1 DEF OwnInv, ReindexInv, StartInv, Row
<1>5. \A r \in Req : \A p \in Proc : JobInv(r, p)
  BY <1>1, Procs DEF JobInv
<1>6. UploadInv /\ SearchableIsComplete /\ NothingLeftRunning
  BY <1>1 DEF UploadInv, Untouched, SearchableIsComplete, Searchable,
         NothingLeftRunning, Row
<1> QED
  BY <1>2, <1>3, <1>4, <1>5, <1>6, InitType DEF IndInv

LEMMA StutterInd == ASSUME IndInv, UNCHANGED vars PROVE IndInv'
<1> USE DEF IndInv, vars
<1>1. TypeOK' /\ OneUpload'
  BY DEF TypeOK, OneUpload
<1>2. \A p \in Proc : TaskInv(p)' /\ DocInv(p)' /\ LockInv(p)' /\ DirtyInv(p)'
  BY DEF TaskInv, DocInv, LockInv, DirtyInv, Searchable, Untouched
<1>3. \A r \in Req : OwnInv(r)' /\ ReindexInv(r)' /\ StartInv(r)'
  BY DEF OwnInv, ReindexInv, StartInv
<1>4. \A r \in Req : \A p \in Proc : JobInv(r, p)'
  BY DEF JobInv
<1>5. UploadInv' /\ SearchableIsComplete' /\ NothingLeftRunning'
  BY DEF UploadInv, Untouched, SearchableIsComplete, Searchable, NothingLeftRunning
<1> QED
  BY <1>1, <1>2, <1>3, <1>4, <1>5

LEMMA NextInd == IndInv /\ [Next]_vars => IndInv'
<1> SUFFICES ASSUME IndInv, [Next]_vars PROVE IndInv'
  OBVIOUS
<1>1. TypeOK'
  BY NextType DEF IndInv
<1>2. ASSUME NEW p \in Proc, Step(p) PROVE IndInv'
  <2>1. CASE p \in Workers /\ ClaimNext(p)
    BY <1>1, <2>1, ClaimNextInd
  <2>2. CASE p \in Req /\ (Upload(p) \/ Reindex(p) \/ Enqueue(p))
    BY <1>1, <2>2, UploadInd, ReindexInd, EnqueueInd
  <2>3. CASE p \in Req /\ (DeleteRead(p) \/ DeleteDocument(p) \/ Cascade(p) \/ DeleteBlob(p))
    BY <1>1, <2>3, DeleteReadInd, DeleteDocumentInd, CascadeInd, DeleteBlobInd
  <2>4. CASE Load(p) \/ LockDocument(p) \/ Embed(p) \/ Index(p)
    BY <1>1, <2>4, LoadInd, LockDocumentInd, EmbedInd, IndexInd
  <2>5. CASE FailJob(p) \/ Commit(p)
    BY <1>1, <2>5, FailJobInd, CommitInd
  <2>6. CASE Victim(p)
    BY <1>1, <2>6, RollbackInd DEF Victim
  <2> QED
    BY <1>2, <2>1, <2>2, <2>3, <2>4, <2>5, <2>6 DEF Step
<1>3. ASSUME NEW p \in Proc, Crash(p) PROVE IndInv'
  BY <1>1, <1>3, RollbackInd DEF Crash
<1>4. CASE UNCHANGED vars
  BY <1>4, StutterInd
<1> QED
  BY <1>2, <1>3, <1>4 DEF Next, Polling

LEMMA Inductive == Spec => []IndInv
BY InitInd, NextInd, PTL DEF Spec

(* For any number of requests, workers, chunks and crashes: a search never *)
(* sees a document with some of its chunks, or with a wrong chunk_count.   *)
THEOREM CompleteSearches == Spec => []SearchableIsComplete
<1>1. IndInv => SearchableIsComplete
  BY DEF IndInv
<1> QED
  BY <1>1, Inductive, PTL

(* However the workers die, no committed row says that a job is running or *)
(* a document processing.                                                  *)
THEOREM CleanCrashes == Spec => []NothingLeftRunning
<1>1. IndInv => NothingLeftRunning
  BY DEF IndInv
<1> QED
  BY <1>1, Inductive, PTL

(* No two processes, of any number, ever work on the same job.             *)
THEOREM ExclusiveJobs == Spec => []OneProcessPerJob
<1>1. IndInv => OneProcessPerJob
  BY DEF IndInv, TaskInv, OneProcessPerJob
<1> QED
  BY <1>1, Inductive, PTL

-----------------------------------------------------------------------------
(* What the statuses say is true *)

Deletes(p) == p \in Req /\ kind[p] = "delete"

(* The statements and the task of a delete are its own.                    *)
KindInv(p) ==
  /\ Deletes(p) => pc[p] \in {"start", "delete", "cascade", "unblob", "commit", "done"}
                   /\ task[p] = NoProc
  /\ pc[p] \in {"delete", "cascade", "unblob"} => Deletes(p)

(* A job that is not committed is its request's, which keeps the document. *)
ShareInv(r) ==
  /\ jobLock[r] = r <=> r \in share
  /\ job[r] = "none" /\ jobLock[r] # NoProc => jobLock[r] = r

(* What is made of a job agrees with what is made of the document.         *)
HeldInv(r, p) ==
  jobLock[r] = p =>
    /\ Exists(doc) \/ docLock = p
    /\ pc[p] = "commit" /\ jobNew[r] = "completed" => docLock = p /\ docNew.status = "ready"
    /\ pc[p] = "commit" /\ jobNew[r] = "failed" => docLock = p /\ docNew.status = "failed"
    /\ jobNew[r] = "deleted" => docLock = p /\ docNew.status = "deleted"

(* ... and the other way round.                                            *)
DirtyDocInv(p) ==
  docLock = p =>
    /\ doc.status # "deleted" /\ docNew.status # "none"
    /\ doc.status = "none" => blob = "present"
    /\ docNew.status = "pending" => doc.status = "none"
    /\ docNew.status = "deleted" <=> Deletes(p)
    /\ Deletes(p) => Exists(doc) /\ share = {} /\ pc[p] \in {"cascade", "unblob", "commit"}
    /\ Deletes(p) /\ pc[p] \in {"unblob", "commit"} =>
         \A s \in Req : job[s] # "none" => jobLock[s] = p /\ jobNew[s] = "deleted"
    /\ pc[p] = "commit" /\ docNew.status = "ready" =>
         task[p] # NoProc /\ jobNew[task[p]] = "completed"
    /\ pc[p] = "commit" /\ docNew.status = "failed" =>
         task[p] # NoProc /\ jobNew[task[p]] = "failed"

(* How far a delete has come.                                              *)
DeleteInv(r) ==
  kind[r] = "delete" =>
    /\ pc[r] \in {"delete", "cascade", "unblob", "commit"} => doc.status # "none"
    /\ pc[r] = "cascade" => docLock = r
    /\ pc[r] \in {"unblob", "commit"} => docLock = r \/ doc.status = "deleted"
    /\ result[r] = "ok" => doc.status = "deleted"
    /\ pc[r] # "done" => result[r] = "none"

(* A document that is not there has no jobs, and nobody works on them.     *)
GoneInv ==
  /\ doc.status = "none" => \A r \in Req : job[r] = "none"
  /\ doc.status = "deleted" => \A r \in Req : job[r] \in {"none", "deleted"} /\ jobLock[r] = NoProc

StatusInv ==
  /\ \A p \in Proc : KindInv(p) /\ DirtyDocInv(p)
  /\ \A r \in Req : ShareInv(r) /\ DeleteInv(r)
  /\ \A r \in Req : \A p \in Proc : HeldInv(r, p)
  /\ GoneInv
  /\ StatusFollowsJobs
  /\ BlobKept

LEMMA Rows ==
  TypeOK => /\ result \in [Req -> Results] /\ share \in SUBSET Req
            /\ doc.status \in DocumentStatus /\ docNew.status \in DocumentStatus
            /\ docLock \in Proc \cup {NoProc}
BY DEF TypeOK, Document

(* A transaction that dies gives up what it holds. *)
LEMMA RollbackStatus ==
  ASSUME IndInv, StatusInv, NEW p \in Proc, pc[p] \notin {"idle", "done"}, Rollback(p)
  PROVE  StatusInv'
<1>0. /\ UNCHANGED <<kind, doc, job, blob>>
      /\ docLock' = (IF docLock = p THEN NoProc ELSE docLock)
      /\ docNew' = (IF docLock = p THEN doc ELSE docNew)
      /\ share' = share \ {p}
      /\ \A s \in Req : jobLock'[s] = IF jobLock[s] = p THEN NoProc ELSE jobLock[s]
      /\ \A s \in Req : jobNew'[s] = IF jobLock[s] = p THEN job[s] ELSE jobNew[s]
      /\ \A q \in Proc \ {p} : task'[q] = task[q] /\ pc'[q] = pc[q]
      /\ task'[p] = NoProc
      /\ pc'[p] = (IF p \in Req THEN "done" ELSE "idle")
      /\ \A s \in Req : s # p => result'[s] = result[s]
      /\ p \in Req => result'[p] = "error"
  BY Procs, Arrays, Rows DEF IndInv, Rollback, Finish, Goto, request
<1>1. \A q \in Proc : KindInv(q)'
  BY <1>0, Procs, Arrays, Rows DEF IndInv, StatusInv, KindInv, Deletes
<1>2. \A q \in Proc : DirtyDocInv(q)'
  BY <1>0, Procs, Arrays, Rows DEF IndInv, StatusInv, DirtyDocInv, Deletes, TaskInv
<1>3. \A s \in Req : ShareInv(s)'
  BY <1>0, Procs, Arrays, Rows DEF IndInv, StatusInv, ShareInv, TaskInv, OwnInv
<1>4. \A s \in Req : DeleteInv(s)'
  BY <1>0, Procs, Arrays, Rows DEF IndInv, StatusInv, DeleteInv
<1>5. \A s \in Req : \A q \in Proc : HeldInv(s, q)'
  BY <1>0, Procs, Arrays, Rows DEF IndInv, StatusInv, HeldInv, Exists
<1>6. GoneInv'
  BY <1>0, Procs, Arrays, Rows DEF IndInv, StatusInv, GoneInv
<1>7. StatusFollowsJobs'
  BY <1>0, Procs, Arrays, Rows DEF IndInv, StatusInv, StatusFollowsJobs
<1>8. BlobKept'
  BY <1>0, Procs, Arrays, Rows DEF IndInv, StatusInv, BlobKept, Exists
<1> QED BY <1>1, <1>2, <1>3, <1>4, <1>5, <1>6, <1>7, <1>8 DEF StatusInv

(* A commit publishes what agrees. *)
LEMMA CommitStatus ==
  ASSUME IndInv, StatusInv, NEW p \in Proc, Commit(p)
  PROVE  StatusInv'
<1>0. /\ UNCHANGED <<kind, docNew, jobNew, blob>> /\ pc[p] = "commit"
      /\ docLock' = (IF docLock = p THEN NoProc ELSE docLock)
      /\ doc' = (IF docLock = p THEN docNew ELSE doc)
      /\ share' = share \ {p}
      /\ \A s \in Req : jobLock'[s] = IF jobLock[s] = p THEN NoProc ELSE jobLock[s]
      /\ \A s \in Req : job'[s] = IF jobLock[s] = p THEN jobNew[s] ELSE job[s]
      /\ \A q \in Proc \ {p} : task'[q] = task[q] /\ pc'[q] = pc[q]
      /\ task'[p] = NoProc
      /\ pc'[p] = (IF p \in Req THEN "done" ELSE "idle")
      /\ \A s \in Req : s # p => result'[s] = result[s]
      /\ p \in Req => result'[p] = "ok"
  BY Procs, Arrays, Rows DEF IndInv, Commit, View, Finish, Goto, request
<1>1. \A q \in Proc : KindInv(q)'
  BY <1>0, Procs, Arrays, Rows DEF IndInv, StatusInv, KindInv, Deletes
<1>2. \A q \in Proc : DirtyDocInv(q)'
  BY <1>0, Procs, Arrays, Rows DEF IndInv, StatusInv, DirtyDocInv, Deletes, ShareInv, TaskInv
<1>3. \A s \in Req : ShareInv(s)'
  BY <1>0, Procs, Arrays, Rows DEF IndInv, StatusInv, ShareInv
<1>4. \A s \in Req : DeleteInv(s)'
  BY <1>0, Procs, Arrays, Rows DEF IndInv, StatusInv, DeleteInv, DirtyDocInv, Deletes
<1>5. \A s \in Req : \A q \in Proc : HeldInv(s, q)'
  BY <1>0, Procs, Arrays, Rows DEF IndInv, StatusInv, HeldInv, Exists, DirtyDocInv, ShareInv,
    Deletes, Live, DocumentStatus
<1>6. GoneInv'
  BY <1>0, Procs, Arrays, Rows DEF IndInv, StatusInv, GoneInv, HeldInv, DirtyDocInv, ShareInv,
    Exists, Live, Deletes
<1>7. StatusFollowsJobs'
  BY <1>0, Procs, Arrays, Rows DEF IndInv, StatusInv, StatusFollowsJobs, HeldInv, DirtyDocInv,
    ShareInv, TaskInv, JobInv, GoneInv, Deletes, Processing
<1>8. BlobKept'
  <2> SUFFICES ASSUME Exists(doc)', blob = "absent"
               PROVE  (\E r \in Req : kind[r] = "delete" /\ (pc[r] = "commit" \/ result[r] = "error"))'
    BY <1>0 DEF BlobKept
  <2>1. Exists(doc)
    <3>1. doc.status \in Live \cup {"none", "deleted"}
      BY Rows DEF IndInv, DocumentStatus
    <3>2. CASE docLock # p
      BY <1>0, <3>2
    <3>3. CASE docLock = p
      <4>1. doc.status # "deleted" /\ doc.status # "none"
        BY <3>3 DEF StatusInv, DirtyDocInv
      <4> QED BY <3>1, <4>1 DEF Exists
    <3> QED BY <3>2, <3>3
  <2>2. PICK r \in Req : kind[r] = "delete" /\ (pc[r] = "commit" \/ result[r] = "error")
    BY <2>1 DEF StatusInv, BlobKept
  <2>3. r # p
    <3> SUFFICES ASSUME r = p PROVE FALSE
      OBVIOUS
    <3>1. docLock = p
      BY <1>0, <2>1, <2>2 DEF StatusInv, DeleteInv, Exists, Live
    <3>2. docNew.status = "deleted"
      BY <2>2, <3>1 DEF StatusInv, DirtyDocInv, Deletes
    <3> QED
      BY <1>0, <3>1, <3>2 DEF Exists, Live
  <2> QED
    BY <1>0, <2>2, <2>3, Procs
<1> QED BY <1>1, <1>2, <1>3, <1>4, <1>5, <1>6, <1>7, <1>8 DEF StatusInv

(* A request that finds nothing changes nothing. *)
LEMMA NotFoundStatus ==
  ASSUME IndInv, StatusInv, NEW r \in Req, pc[r] = "start", NotFound(r)
  PROVE  StatusInv'
<1>0. /\ UNCHANGED <<kind, doc, docNew, docLock, share, job, jobNew, jobLock, blob, task>>
      /\ \A q \in Proc \ {r} : pc'[q] = pc[q]
      /\ pc'[r] = "done"
      /\ \A s \in Req : s # r => result'[s] = result[s]
      /\ result'[r] = "not_found"
  BY Procs, Arrays, Rows DEF IndInv, NotFound, Goto, request, document, jobs
<1>1. \A q \in Proc : KindInv(q)'
  BY <1>0, Procs, Arrays, Rows DEF IndInv, StatusInv, KindInv, Deletes
<1>2. \A q \in Proc : DirtyDocInv(q)'
  BY <1>0, Procs, Arrays, Rows DEF IndInv, StatusInv, DirtyDocInv, Deletes
<1>3. \A s \in Req : ShareInv(s)'
  BY <1>0, Procs, Arrays, Rows DEF IndInv, StatusInv, ShareInv
<1>4. \A s \in Req : DeleteInv(s)'
  BY <1>0, Procs, Arrays, Rows DEF IndInv, StatusInv, DeleteInv
<1>5. \A s \in Req : \A q \in Proc : HeldInv(s, q)'
  BY <1>0, Procs, Arrays, Rows DEF IndInv, StatusInv, HeldInv, Exists
<1>6. GoneInv'
  BY <1>0, Procs, Arrays, Rows DEF IndInv, StatusInv, GoneInv
<1>7. StatusFollowsJobs'
  BY <1>0, Procs, Arrays, Rows DEF IndInv, StatusInv, StatusFollowsJobs
<1>8. BlobKept'
  BY <1>0, Procs, Arrays, Rows DEF IndInv, StatusInv, BlobKept, Exists, DeleteInv
<1> QED BY <1>1, <1>2, <1>3, <1>4, <1>5, <1>6, <1>7, <1>8 DEF StatusInv

(* The document is created with its file. *)
LEMMA UploadStatus ==
  ASSUME IndInv, StatusInv, NEW r \in Req, Upload(r)
  PROVE  StatusInv'
<1> SUFFICES ASSUME ~NotFound(r) PROVE StatusInv'
  BY NotFoundStatus DEF Upload
<1>0. /\ UNCHANGED <<kind, doc, share, job, jobNew, jobLock, task, result>>
      /\ \A q \in Proc \ {r} : pc'[q] = pc[q]
      /\ pc'[r] = "enqueue"
      /\ pc[r] = "start" /\ kind[r] = "upload"
      /\ docLock' = r /\ docNew'.status = "pending" /\ blob' = "present"
  BY Procs, Arrays, Rows DEF IndInv, Upload, Write, Row, Goto, request, document, jobs
<1>1. \A q \in Proc : KindInv(q)'
  BY <1>0, Procs, Arrays, Rows DEF IndInv, StatusInv, KindInv, Deletes
<1>2. \A q \in Proc : DirtyDocInv(q)'
  BY <1>0, Procs, Arrays, Rows DEF IndInv, StatusInv, DirtyDocInv, Deletes, StartInv
<1>3. \A s \in Req : ShareInv(s)'
  BY <1>0, Procs, Arrays, Rows DEF IndInv, StatusInv, ShareInv
<1>4. \A s \in Req : DeleteInv(s)'
  BY <1>0, Procs, Arrays, Rows DEF IndInv, StatusInv, DeleteInv, StartInv
<1>5. \A s \in Req : \A q \in Proc : HeldInv(s, q)'
  BY <1>0, Procs, Arrays, Rows DEF IndInv, StatusInv, HeldInv, Exists, StartInv, Live
<1>6. GoneInv'
  BY <1>0, Procs, Arrays, Rows DEF IndInv, StatusInv, GoneInv
<1>7. StatusFollowsJobs'
  BY <1>0, Procs, Arrays, Rows DEF IndInv, StatusInv, StatusFollowsJobs
<1>8. BlobKept'
  BY <1>0, Procs, Arrays, Rows DEF IndInv, StatusInv, BlobKept, Exists
<1> QED BY <1>1, <1>2, <1>3, <1>4, <1>5, <1>6, <1>7, <1>8 DEF StatusInv

LEMMA ReindexStatus ==
  ASSUME IndInv, StatusInv, NEW r \in Req, Reindex(r)
  PROVE  StatusInv'
<1> SUFFICES ASSUME ~NotFound(r) PROVE StatusInv'
  BY NotFoundStatus DEF Reindex
<1>0. /\ UNCHANGED <<kind, doc, docNew, docLock, share, job, jobNew, jobLock, blob, task, result>>
      /\ \A q \in Proc \ {r} : pc'[q] = pc[q]
      /\ pc'[r] = "enqueue"
      /\ pc[r] = "start" /\ kind[r] = "reindex"
  BY Procs, Arrays, Rows DEF IndInv, Reindex, Goto, request, document, jobs
<1>1. \A q \in Proc : KindInv(q)'
  BY <1>0, Procs, Arrays, Rows DEF IndInv, StatusInv, KindInv, Deletes
<1>2. \A q \in Proc : DirtyDocInv(q)'
  BY <1>0, Procs, Arrays, Rows DEF IndInv, StatusInv, DirtyDocInv, Deletes
<1>3. \A s \in Req : ShareInv(s)'
  BY <1>0, Procs, Arrays, Rows DEF IndInv, StatusInv, ShareInv
<1>4. \A s \in Req : DeleteInv(s)'
  BY <1>0, Procs, Arrays, Rows DEF IndInv, StatusInv, DeleteInv
<1>5. \A s \in Req : \A q \in Proc : HeldInv(s, q)'
  BY <1>0, Procs, Arrays, Rows DEF IndInv, StatusInv, HeldInv, Exists
<1>6. GoneInv'
  BY <1>0, Procs, Arrays, Rows DEF IndInv, StatusInv, GoneInv
<1>7. StatusFollowsJobs'
  BY <1>0, Procs, Arrays, Rows DEF IndInv, StatusInv, StatusFollowsJobs
<1>8. BlobKept'
  BY <1>0, Procs, Arrays, Rows DEF IndInv, StatusInv, BlobKept, Exists
<1> QED BY <1>1, <1>2, <1>3, <1>4, <1>5, <1>6, <1>7, <1>8 DEF StatusInv

(* The foreign key keeps the document of a new job. *)
LEMMA EnqueueStatus ==
  ASSUME IndInv, StatusInv, NEW r \in Req, Enqueue(r)
  PROVE  StatusInv'
<1> SUFFICES ASSUME ~Rollback(r) PROVE StatusInv'
  BY RollbackStatus, Procs DEF Enqueue
<1>a. /\ pc[r] = "enqueue"
      /\ Lockable(r) \/ Exists(docNew)
      /\ Exists(View(r))
      /\ share' = share \cup {r}
      /\ jobLock' = [jobLock EXCEPT ![r] = r]
      /\ jobNew' = [jobNew EXCEPT ![r] = "queued"]
      /\ task' = [task EXCEPT ![r] = r]
      /\ pc' = [pc EXCEPT ![r] = IF mode = "inline" THEN "load" ELSE "commit"]
      /\ UNCHANGED <<request, doc, docNew, docLock, job, blob, result, crashes>>
  BY Zenon DEF Enqueue, Goto
<1>0. /\ UNCHANGED <<kind, doc, docNew, docLock, job, blob, result>>
      /\ \A q \in Proc \ {r} : pc'[q] = pc[q]
      /\ pc'[r] \in {"load", "commit"}
      /\ pc[r] = "enqueue"
      /\ Lockable(r) \/ Exists(docNew)
      /\ Exists(View(r))
      /\ share' = share \cup {r}
      /\ \A s \in Req \ {r} : jobLock'[s] = jobLock[s] /\ jobNew'[s] = jobNew[s]
      /\ jobLock'[r] = r /\ jobNew'[r] = "queued"
      /\ \A q \in Proc \ {r} : task'[q] = task[q]
      /\ task'[r] = r
  BY <1>a, Procs, Arrays DEF IndInv, request
<1>1. \A q \in Proc : KindInv(q)'
  BY <1>0, Procs, Arrays, Rows DEF IndInv, StatusInv, KindInv, Deletes
<1>2. \A q \in Proc : DirtyDocInv(q)'
  <2> SUFFICES ASSUME NEW q \in Proc PROVE DirtyDocInv(q)'
    OBVIOUS
  <2>1. DirtyDocInv(q) /\ ~Deletes(r)
    BY <1>0, Procs DEF StatusInv, KindInv, Deletes
  <2>2. CASE q = r
    BY <1>0, <2>1, <2>2, Procs DEF DirtyDocInv, Deletes, IndInv, DocInv
  <2>3. CASE q # r
    <3>1. docLock = q => ~Deletes(q)
      BY <1>0, <2>1, <2>3, Procs DEF Lockable, Exists, Live, DirtyDocInv
    <3>2. task[q] # r
      BY <1>0, <2>3, Procs DEF IndInv, TaskInv, OwnInv
    <3>3. task[q] # NoProc => task[q] \in Req
      BY Arrays DEF IndInv
    <3> QED
      BY <1>0, <2>1, <2>3, <3>1, <3>2, <3>3, Procs DEF DirtyDocInv, Deletes
  <2> QED BY <2>2, <2>3
<1>3. \A s \in Req : ShareInv(s)'
  BY <1>0, Procs, Arrays, Rows DEF IndInv, StatusInv, ShareInv
<1>4. \A s \in Req : DeleteInv(s)'
  BY <1>0, Procs, Arrays, Rows DEF IndInv, StatusInv, DeleteInv, KindInv, Deletes
<1>5. \A s \in Req : \A q \in Proc : HeldInv(s, q)'
  <2> SUFFICES ASSUME NEW s \in Req, NEW q \in Proc, jobLock'[s] = q
               PROVE  HeldInv(s, q)'
    BY DEF HeldInv
  <2>1. CASE s = r
    BY <1>0, <2>1 DEF HeldInv, View, Exists
  <2>2. CASE s # r
    <3>1. q # r
      BY <1>0, <2>2, Procs DEF IndInv, JobInv, Processing
    <3> QED
      BY <1>0, <2>2, <3>1 DEF StatusInv, HeldInv, Exists
  <2> QED BY <2>1, <2>2
<1>6. GoneInv'
  BY <1>0, Procs, Arrays, Rows DEF IndInv, StatusInv, GoneInv, View, Exists, Live, Lockable,
    DirtyDocInv, Deletes, KindInv
<1>7. StatusFollowsJobs'
  BY <1>0, Procs, Arrays, Rows DEF IndInv, StatusInv, StatusFollowsJobs
<1>8. BlobKept'
  BY <1>0, Procs, Arrays, Rows DEF IndInv, StatusInv, BlobKept, Exists
<1> QED BY <1>1, <1>2, <1>3, <1>4, <1>5, <1>6, <1>7, <1>8 DEF StatusInv

LEMMA ClaimNextStatus ==
  ASSUME IndInv, StatusInv, NEW w \in Workers, ClaimNext(w)
  PROVE  StatusInv'
<1> PICK r \in Req : job[r] = "queued" /\ jobLock[r] = NoProc /\ Claim(w, r) /\ UNCHANGED job
  BY DEF ClaimNext
<1>0. /\ UNCHANGED <<kind, doc, docNew, docLock, share, job, blob, result>>
      /\ \A q \in Proc \ {w} : pc'[q] = pc[q]
      /\ pc[w] = "idle" /\ pc'[w] = "load"
      /\ job[r] = "queued" /\ jobLock[r] = NoProc
      /\ \A s \in Req \ {r} : jobLock'[s] = jobLock[s] /\ jobNew'[s] = jobNew[s]
      /\ jobLock'[r] = w /\ jobNew'[r] = "running"
      /\ \A q \in Proc \ {w} : task'[q] = task[q]
      /\ task'[w] = r
  BY Procs, Arrays, Rows DEF IndInv, Claim, ClaimNext, Goto, request, document, jobs
<1>1. \A q \in Proc : KindInv(q)'
  BY <1>0, Procs, Arrays, Rows DEF IndInv, StatusInv, KindInv, Deletes
<1>2. \A q \in Proc : DirtyDocInv(q)'
  BY <1>0, Procs, Arrays, Rows DEF IndInv, StatusInv, DirtyDocInv, Deletes, KindInv, TaskInv
<1>3. \A s \in Req : ShareInv(s)'
  <2>1. w \notin Req
    BY ProcAssumption
  <2>2. r \notin share
    BY <1>0, Procs DEF StatusInv, ShareInv
  <2>3. \A s \in Req \ {r} : ShareInv(s)'
    BY <1>0 DEF StatusInv, ShareInv
  <2>4. ShareInv(r)'
    BY <1>0, <2>1, <2>2 DEF ShareInv
  <2> QED BY <2>3, <2>4
<1>4. \A s \in Req : DeleteInv(s)'
  BY <1>0, Procs, Arrays, Rows DEF IndInv, StatusInv, DeleteInv
<1>5. \A s \in Req : \A q \in Proc : HeldInv(s, q)'
  BY <1>0, Procs, Arrays, Rows DEF IndInv, StatusInv, HeldInv, Exists, GoneInv, Live,
    DocumentStatus
<1>6. GoneInv'
  BY <1>0, Procs, Arrays, Rows DEF IndInv, StatusInv, GoneInv
<1>7. StatusFollowsJobs'
  BY <1>0, Procs, Arrays, Rows DEF IndInv, StatusInv, StatusFollowsJobs
<1>8. BlobKept'
  BY <1>0, Procs, Arrays, Rows DEF IndInv, StatusInv, BlobKept, Exists
<1> QED BY <1>1, <1>2, <1>3, <1>4, <1>5, <1>6, <1>7, <1>8 DEF StatusInv

LEMMA LoadStatus ==
  ASSUME IndInv, StatusInv, NEW p \in Proc, Load(p)
  PROVE  StatusInv'
<1>0. /\ UNCHANGED <<kind, doc, docNew, docLock, share, job, jobNew, jobLock, blob, task, result>>
      /\ \A q \in Proc \ {p} : pc'[q] = pc[q]
      /\ pc[p] = "load" /\ pc'[p] \in {"lock", "fail"}
  BY Procs, Arrays, Rows DEF IndInv, Load, Goto, request, document, jobs
<1>1. \A q \in Proc : KindInv(q)'
  BY <1>0, Procs, Arrays, Rows DEF IndInv, StatusInv, KindInv, Deletes
<1>2. \A q \in Proc : DirtyDocInv(q)'
  BY <1>0, Procs, Arrays, Rows DEF IndInv, StatusInv, DirtyDocInv, Deletes
<1>3. \A s \in Req : ShareInv(s)'
  BY <1>0, Procs, Arrays, Rows DEF IndInv, StatusInv, ShareInv
<1>4. \A s \in Req : DeleteInv(s)'
  BY <1>0, Procs, Arrays, Rows DEF IndInv, StatusInv, DeleteInv
<1>5. \A s \in Req : \A q \in Proc : HeldInv(s, q)'
  BY <1>0, Procs, Arrays, Rows DEF IndInv, StatusInv, HeldInv, Exists
<1>6. GoneInv'
  BY <1>0, Procs, Arrays, Rows DEF IndInv, StatusInv, GoneInv
<1>7. StatusFollowsJobs'
  BY <1>0, Procs, Arrays, Rows DEF IndInv, StatusInv, StatusFollowsJobs
<1>8. BlobKept'
  BY <1>0, Procs, Arrays, Rows DEF IndInv, StatusInv, BlobKept, Exists
<1> QED BY <1>1, <1>2, <1>3, <1>4, <1>5, <1>6, <1>7, <1>8 DEF StatusInv

(* Whoever works on a job has a document, and is not deleting it. *)
LEMMA Working ==
  ASSUME IndInv, StatusInv, NEW p \in Proc, pc[p] \in Processing
  PROVE  /\ task[p] \in Req /\ task[p] # NoProc /\ jobLock[task[p]] = p
         /\ ~Deletes(p)
         /\ Exists(doc) \/ docLock = p
         /\ doc.status # "deleted"
<1>1. task[p] # NoProc /\ task[p] \in Req /\ jobLock[task[p]] = p
  BY Arrays DEF IndInv, TaskInv
<1>2. ~Deletes(p)
  BY <1>1 DEF StatusInv, KindInv
<1>3. Exists(doc) \/ docLock = p
  BY <1>1 DEF StatusInv, HeldInv
<1>4. doc.status # "deleted"
  BY <1>1, Procs DEF StatusInv, GoneInv
<1> QED BY <1>1, <1>2, <1>3, <1>4

(* Whoever works on a job has a document to lock. *)
LEMMA LockDocumentStatus ==
  ASSUME IndInv, StatusInv, NEW p \in Proc, LockDocument(p)
  PROVE  StatusInv'
<1>0. /\ UNCHANGED <<kind, doc, share, job, jobNew, jobLock, blob, task, result>>
      /\ \A q \in Proc \ {p} : pc'[q] = pc[q]
      /\ pc[p] = "lock" /\ pc'[p] = "embed"
      /\ docLock \in {NoProc, p}
      /\ docLock' = p /\ docNew'.status = "processing"
  BY Procs, Arrays, Rows DEF IndInv, LockDocument, Lockable, Write, View, TypeOK, Document, Goto,
    request, document, jobs
<1>1. \A q \in Proc : KindInv(q)'
  BY <1>0, Procs, Arrays, Rows DEF IndInv, StatusInv, KindInv, Deletes
<1>2. \A q \in Proc : DirtyDocInv(q)'
  <2>1. /\ task[p] \in Req /\ task[p] # NoProc /\ ~Deletes(p)
        /\ Exists(doc) \/ docLock = p
        /\ doc.status # "deleted"
    BY <1>0, Working DEF Processing
  <2>2. doc.status = "none" => blob = "present"
    BY <2>1 DEF StatusInv, DirtyDocInv, Exists, Live
  <2>3. DirtyDocInv(p)'
    BY <1>0, <2>1, <2>2 DEF DirtyDocInv, Deletes
  <2>4. \A q \in Proc \ {p} : DirtyDocInv(q)'
    BY <1>0 DEF DirtyDocInv
  <2> QED BY <2>3, <2>4
<1>3. \A s \in Req : ShareInv(s)'
  BY <1>0, Procs, Arrays, Rows DEF IndInv, StatusInv, ShareInv
<1>4. \A s \in Req : DeleteInv(s)'
  BY <1>0, Procs, Arrays, Rows DEF IndInv, StatusInv, DeleteInv
<1>5. \A s \in Req : \A q \in Proc : HeldInv(s, q)'
  BY <1>0, Procs, Arrays, Rows DEF IndInv, StatusInv, HeldInv, Exists, KindInv, JobInv, TaskInv,
    Processing, DirtyDocInv, Deletes
<1>6. GoneInv'
  BY <1>0, Procs, Arrays, Rows DEF IndInv, StatusInv, GoneInv
<1>7. StatusFollowsJobs'
  BY <1>0, Procs, Arrays, Rows DEF IndInv, StatusInv, StatusFollowsJobs
<1>8. BlobKept'
  BY <1>0, Procs, Arrays, Rows DEF IndInv, StatusInv, BlobKept, Exists
<1> QED BY <1>1, <1>2, <1>3, <1>4, <1>5, <1>6, <1>7, <1>8 DEF StatusInv

LEMMA EmbedStatus ==
  ASSUME IndInv, StatusInv, NEW p \in Proc, Embed(p)
  PROVE  StatusInv'
<1>0. /\ UNCHANGED <<kind, doc, docNew, docLock, share, job, jobNew, jobLock, blob, task, result>>
      /\ \A q \in Proc \ {p} : pc'[q] = pc[q]
      /\ pc[p] = "embed" /\ pc'[p] \in {"index", "fail"}
  BY Procs, Arrays, Rows DEF IndInv, Embed, Goto, request, document, jobs
<1>1. \A q \in Proc : KindInv(q)'
  BY <1>0, Procs, Arrays, Rows DEF IndInv, StatusInv, KindInv, Deletes
<1>2. \A q \in Proc : DirtyDocInv(q)'
  BY <1>0, Procs, Arrays, Rows DEF IndInv, StatusInv, DirtyDocInv, Deletes
<1>3. \A s \in Req : ShareInv(s)'
  BY <1>0, Procs, Arrays, Rows DEF IndInv, StatusInv, ShareInv
<1>4. \A s \in Req : DeleteInv(s)'
  BY <1>0, Procs, Arrays, Rows DEF IndInv, StatusInv, DeleteInv
<1>5. \A s \in Req : \A q \in Proc : HeldInv(s, q)'
  BY <1>0, Procs, Arrays, Rows DEF IndInv, StatusInv, HeldInv, Exists
<1>6. GoneInv'
  BY <1>0, Procs, Arrays, Rows DEF IndInv, StatusInv, GoneInv
<1>7. StatusFollowsJobs'
  BY <1>0, Procs, Arrays, Rows DEF IndInv, StatusInv, StatusFollowsJobs
<1>8. BlobKept'
  BY <1>0, Procs, Arrays, Rows DEF IndInv, StatusInv, BlobKept, Exists
<1> QED BY <1>1, <1>2, <1>3, <1>4, <1>5, <1>6, <1>7, <1>8 DEF StatusInv

(* Job and document are ready in one transaction. *)
LEMMA IndexStatus ==
  ASSUME IndInv, StatusInv, NEW p \in Proc, Index(p)
  PROVE  StatusInv'
<1>0. /\ UNCHANGED <<kind, doc, docLock, share, job, jobLock, blob, task, result>>
      /\ \A q \in Proc \ {p} : pc'[q] = pc[q]
      /\ pc[p] = "index"
      /\ \A s \in Req : s # task[p] => jobNew'[s] = jobNew[s]
      /\ \/ pc'[p] = "fail" /\ docNew'.status = docNew.status /\ jobNew' = jobNew
         \/ /\ pc'[p] = "commit" /\ docNew'.status = "ready"
            /\ task[p] # NoProc => jobNew'[task[p]] = "completed"
  BY Procs, Arrays, Rows DEF IndInv, Index, TypeOK, Document, Goto, request, document, jobs
<1>1. \A q \in Proc : KindInv(q)'
  BY <1>0, Procs, Arrays, Rows DEF IndInv, StatusInv, KindInv, Deletes
<1>2. \A q \in Proc : DirtyDocInv(q)'
  BY <1>0, Procs, Arrays, Rows DEF IndInv, StatusInv, DirtyDocInv, Deletes, KindInv, TaskInv,
    Processing, LockInv
<1>3. \A s \in Req : ShareInv(s)'
  BY <1>0, Procs, Arrays, Rows DEF IndInv, StatusInv, ShareInv
<1>4. \A s \in Req : DeleteInv(s)'
  BY <1>0, Procs, Arrays, Rows DEF IndInv, StatusInv, DeleteInv, KindInv, Deletes
<1>5. \A s \in Req : \A q \in Proc : HeldInv(s, q)'
  BY <1>0, Procs, Arrays, Rows DEF IndInv, StatusInv, HeldInv, Exists, JobInv, LockInv, TaskInv,
    Processing
<1>6. GoneInv'
  BY <1>0, Procs, Arrays, Rows DEF IndInv, StatusInv, GoneInv
<1>7. StatusFollowsJobs'
  BY <1>0, Procs, Arrays, Rows DEF IndInv, StatusInv, StatusFollowsJobs
<1>8. BlobKept'
  BY <1>0, Procs, Arrays, Rows DEF IndInv, StatusInv, BlobKept, Exists
<1> QED BY <1>1, <1>2, <1>3, <1>4, <1>5, <1>6, <1>7, <1>8 DEF StatusInv

(* ... and so they fail. *)
LEMMA FailJobStatus ==
  ASSUME IndInv, StatusInv, NEW p \in Proc, FailJob(p)
  PROVE  StatusInv'
<1> SUFFICES ASSUME ~Rollback(p) PROVE StatusInv'
  BY RollbackStatus DEF FailJob
<1>0. /\ UNCHANGED <<kind, doc, share, job, jobLock, blob, task, result>>
      /\ \A q \in Proc \ {p} : pc'[q] = pc[q]
      /\ pc[p] = "fail" /\ pc'[p] = "commit"
      /\ docLock \in {NoProc, p}
      /\ docLock' = p /\ docNew'.status = "failed"
      /\ \A s \in Req : s # task[p] => jobNew'[s] = jobNew[s]
      /\ task[p] # NoProc => jobNew'[task[p]] = "failed"
  BY Procs, Arrays, Rows DEF IndInv, FailJob, Lockable, Write, View, TypeOK, Document, Goto,
    request, document, jobs
<1>1. \A q \in Proc : KindInv(q)'
  BY <1>0, Procs, Arrays, Rows DEF IndInv, StatusInv, KindInv, Deletes
<1>2. \A q \in Proc : DirtyDocInv(q)'
  <2>1. /\ task[p] \in Req /\ task[p] # NoProc /\ ~Deletes(p)
        /\ Exists(doc) \/ docLock = p
        /\ doc.status # "deleted"
    BY <1>0, Working DEF Processing
  <2>2. doc.status = "none" => blob = "present"
    BY <2>1 DEF StatusInv, DirtyDocInv, Exists, Live
  <2>3. DirtyDocInv(p)'
    BY <1>0, <2>1, <2>2 DEF DirtyDocInv, Deletes
  <2>4. \A q \in Proc \ {p} : DirtyDocInv(q)'
    BY <1>0 DEF DirtyDocInv
  <2> QED BY <2>3, <2>4
<1>3. \A s \in Req : ShareInv(s)'
  BY <1>0, Procs, Arrays, Rows DEF IndInv, StatusInv, ShareInv
<1>4. \A s \in Req : DeleteInv(s)'
  BY <1>0, Procs, Arrays, Rows DEF IndInv, StatusInv, DeleteInv, KindInv, Deletes
<1>5. \A s \in Req : \A q \in Proc : HeldInv(s, q)'
  BY <1>0, Procs, Arrays, Rows DEF IndInv, StatusInv, HeldInv, Exists, KindInv, JobInv, TaskInv,
    Processing, DirtyDocInv, Deletes
<1>6. GoneInv'
  BY <1>0, Procs, Arrays, Rows DEF IndInv, StatusInv, GoneInv
<1>7. StatusFollowsJobs'
  BY <1>0, Procs, Arrays, Rows DEF IndInv, StatusInv, StatusFollowsJobs
<1>8. BlobKept'
  BY <1>0, Procs, Arrays, Rows DEF IndInv, StatusInv, BlobKept, Exists
<1> QED BY <1>1, <1>2, <1>3, <1>4, <1>5, <1>6, <1>7, <1>8 DEF StatusInv

LEMMA DeleteReadStatus ==
  ASSUME IndInv, StatusInv, NEW r \in Req, DeleteRead(r)
  PROVE  StatusInv'
<1> SUFFICES ASSUME ~NotFound(r) PROVE StatusInv'
  BY NotFoundStatus DEF DeleteRead
<1>0. /\ UNCHANGED <<kind, doc, docNew, docLock, share, job, jobNew, jobLock, blob, task, result>>
      /\ \A q \in Proc \ {r} : pc'[q] = pc[q]
      /\ pc'[r] = "delete"
      /\ pc[r] = "start" /\ kind[r] = "delete" /\ Exists(doc)
  BY Procs, Arrays, Rows DEF IndInv, DeleteRead, Goto, request, document, jobs
<1>1. \A q \in Proc : KindInv(q)'
  BY <1>0, Procs, Arrays, Rows DEF IndInv, StatusInv, KindInv, Deletes
<1>2. \A q \in Proc : DirtyDocInv(q)'
  BY <1>0, Procs, Arrays, Rows DEF IndInv, StatusInv, DirtyDocInv, Deletes
<1>3. \A s \in Req : ShareInv(s)'
  BY <1>0, Procs, Arrays, Rows DEF IndInv, StatusInv, ShareInv
<1>4. \A s \in Req : DeleteInv(s)'
  BY <1>0, Procs, Arrays, Rows DEF IndInv, StatusInv, DeleteInv, Exists, Live
<1>5. \A s \in Req : \A q \in Proc : HeldInv(s, q)'
  BY <1>0, Procs, Arrays, Rows DEF IndInv, StatusInv, HeldInv, Exists
<1>6. GoneInv'
  BY <1>0, Procs, Arrays, Rows DEF IndInv, StatusInv, GoneInv
<1>7. StatusFollowsJobs'
  BY <1>0, Procs, Arrays, Rows DEF IndInv, StatusInv, StatusFollowsJobs
<1>8. BlobKept'
  BY <1>0, Procs, Arrays, Rows DEF IndInv, StatusInv, BlobKept, Exists
<1> QED BY <1>1, <1>2, <1>3, <1>4, <1>5, <1>6, <1>7, <1>8 DEF StatusInv

(* Nobody has an uncommitted job when the document goes. *)
LEMMA DeleteDocumentStatus ==
  ASSUME IndInv, StatusInv, NEW r \in Req, DeleteDocument(r)
  PROVE  StatusInv'
<1>0. /\ UNCHANGED <<kind, doc, share, job, jobNew, jobLock, blob, task, result>>
      /\ \A q \in Proc \ {r} : pc'[q] = pc[q]
      /\ pc[r] = "delete"
      /\ docLock \in {NoProc, r} /\ share = {}
      /\ \/ Exists(doc) /\ docLock' = r /\ docNew'.status = "deleted" /\ pc'[r] = "cascade"
         \/ ~Exists(doc) /\ pc'[r] = "unblob" /\ docLock' = docLock /\ docNew' = docNew
  BY Procs, Arrays, Rows DEF IndInv, DeleteDocument, Lockable, Write, Row, Goto, request,
    document, jobs
<1>1. \A q \in Proc : KindInv(q)'
  BY <1>0, Procs, Arrays, Rows DEF IndInv, StatusInv, KindInv, Deletes
<1>2. \A q \in Proc : DirtyDocInv(q)'
  BY <1>0, Procs, Arrays, Rows DEF IndInv, StatusInv, DirtyDocInv, Deletes, KindInv, Exists,
    Live, DocInv
<1>3. \A s \in Req : ShareInv(s)'
  BY <1>0, Procs, Arrays, Rows DEF IndInv, StatusInv, ShareInv
<1>4. \A s \in Req : DeleteInv(s)'
  BY <1>0, Procs, Arrays, Rows DEF IndInv, StatusInv, DeleteInv, KindInv, Exists, Live,
    DocumentStatus, Deletes
<1>5. \A s \in Req : \A q \in Proc : HeldInv(s, q)'
  BY <1>0, Procs, Arrays, Rows DEF IndInv, StatusInv, HeldInv, Exists, DocInv
<1>6. GoneInv'
  BY <1>0, Procs, Arrays, Rows DEF IndInv, StatusInv, GoneInv
<1>7. StatusFollowsJobs'
  BY <1>0, Procs, Arrays, Rows DEF IndInv, StatusInv, StatusFollowsJobs
<1>8. BlobKept'
  BY <1>0, Procs, Arrays, Rows DEF IndInv, StatusInv, BlobKept, Exists
<1> QED BY <1>1, <1>2, <1>3, <1>4, <1>5, <1>6, <1>7, <1>8 DEF StatusInv

LEMMA CascadeStatus ==
  ASSUME IndInv, StatusInv, NEW r \in Req, Cascade(r)
  PROVE  StatusInv'
<1>0. /\ UNCHANGED <<kind, doc, docNew, docLock, share, job, blob, task, result>>
      /\ \A q \in Proc \ {r} : pc'[q] = pc[q]
      /\ pc[r] = "cascade" /\ pc'[r] = "unblob"
      /\ \A s \in Req : job[s] # "none" => jobLock[s] = NoProc
      /\ \A s \in Req : jobLock'[s] = IF job[s] # "none" THEN r ELSE jobLock[s]
      /\ \A s \in Req : jobNew'[s] = IF job[s] # "none" THEN "deleted" ELSE jobNew[s]
  BY Procs, Arrays, Rows DEF IndInv, Cascade, Goto, request, document, jobs
<1>1. \A q \in Proc : KindInv(q)'
  BY <1>0, Procs, Arrays, Rows DEF IndInv, StatusInv, KindInv, Deletes
<1>2. \A q \in Proc : DirtyDocInv(q)'
  BY <1>0, Procs, Arrays, Rows DEF IndInv, StatusInv, DirtyDocInv, Deletes, KindInv, DeleteInv
<1>3. \A s \in Req : ShareInv(s)'
  BY <1>0, Procs, Arrays, Rows DEF IndInv, StatusInv, ShareInv, OwnInv, KindInv, Deletes
<1>4. \A s \in Req : DeleteInv(s)'
  BY <1>0, Procs, Arrays, Rows DEF IndInv, StatusInv, DeleteInv
<1>5. \A s \in Req : \A q \in Proc : HeldInv(s, q)'
  BY <1>0, Procs, Arrays, Rows DEF IndInv, StatusInv, HeldInv, Exists, KindInv, DeleteInv,
    DirtyDocInv, Deletes
<1>6. GoneInv'
  BY <1>0, Procs, Arrays, Rows DEF IndInv, StatusInv, GoneInv, DeleteInv, DirtyDocInv, KindInv,
    Deletes
<1>7. StatusFollowsJobs'
  BY <1>0, Procs, Arrays, Rows DEF IndInv, StatusInv, StatusFollowsJobs
<1>8. BlobKept'
  BY <1>0, Procs, Arrays, Rows DEF IndInv, StatusInv, BlobKept, Exists
<1> QED BY <1>1, <1>2, <1>3, <1>4, <1>5, <1>6, <1>7, <1>8 DEF StatusInv

(* The file goes last. *)
LEMMA DeleteBlobStatus ==
  ASSUME IndInv, StatusInv, NEW r \in Req, DeleteBlob(r)
  PROVE  StatusInv'
<1>0. /\ UNCHANGED <<kind, doc, docNew, docLock, share, job, jobNew, jobLock, task, result>>
      /\ \A q \in Proc \ {r} : pc'[q] = pc[q]
      /\ pc[r] = "unblob" /\ pc'[r] = "commit"
  BY Procs, Arrays, Rows DEF IndInv, DeleteBlob, Goto, request, document, jobs
<1>1. \A q \in Proc : KindInv(q)'
  BY <1>0, Procs, Arrays, Rows DEF IndInv, StatusInv, KindInv, Deletes
<1>2. \A q \in Proc : DirtyDocInv(q)'
  BY <1>0, Procs, Arrays, Rows DEF IndInv, StatusInv, DirtyDocInv, Deletes, KindInv, DeleteInv
<1>3. \A s \in Req : ShareInv(s)'
  BY <1>0, Procs, Arrays, Rows DEF IndInv, StatusInv, ShareInv
<1>4. \A s \in Req : DeleteInv(s)'
  BY <1>0, Procs, Arrays, Rows DEF IndInv, StatusInv, DeleteInv
<1>5. \A s \in Req : \A q \in Proc : HeldInv(s, q)'
  <2> SUFFICES ASSUME NEW s \in Req, NEW q \in Proc, jobLock[s] = q
               PROVE  HeldInv(s, q)'
    BY <1>0 DEF HeldInv
  <2>1. CASE q = r
    <3>1. jobNew[s] = "deleted"
      BY <1>0, <2>1 DEF IndInv, JobInv, Processing
    <3> QED
      BY <1>0, <3>1 DEF StatusInv, HeldInv, Exists
  <2>2. CASE q # r
    BY <1>0, <2>2 DEF StatusInv, HeldInv, Exists
  <2> QED BY <2>1, <2>2
<1>6. GoneInv'
  BY <1>0, Procs, Arrays, Rows DEF IndInv, StatusInv, GoneInv
<1>7. StatusFollowsJobs'
  BY <1>0, Procs, Arrays, Rows DEF IndInv, StatusInv, StatusFollowsJobs
<1>8. BlobKept'
  BY <1>0, Procs, Arrays, Rows DEF IndInv, StatusInv, BlobKept, Exists, KindInv, Deletes,
    DeleteInv
<1> QED BY <1>1, <1>2, <1>3, <1>4, <1>5, <1>6, <1>7, <1>8 DEF StatusInv

LEMMA NextStatus == IndInv /\ StatusInv /\ [Next]_vars => StatusInv'
<1> SUFFICES ASSUME IndInv, StatusInv, [Next]_vars PROVE StatusInv'
  OBVIOUS
<1>1. ASSUME NEW p \in Proc, Step(p) PROVE StatusInv'
  <2>1. CASE p \in Workers /\ ClaimNext(p)
    BY <2>1, ClaimNextStatus
  <2>2. CASE p \in Req /\ (Upload(p) \/ Reindex(p) \/ Enqueue(p))
    BY <2>2, UploadStatus, ReindexStatus, EnqueueStatus
  <2>3. CASE p \in Req /\ (DeleteRead(p) \/ DeleteDocument(p) \/ Cascade(p) \/ DeleteBlob(p))
    BY <2>3, DeleteReadStatus, DeleteDocumentStatus, CascadeStatus, DeleteBlobStatus
  <2>4. CASE Load(p) \/ LockDocument(p) \/ Embed(p) \/ Index(p)
    BY <2>4, LoadStatus, LockDocumentStatus, EmbedStatus, IndexStatus
  <2>5. CASE FailJob(p) \/ Commit(p)
    BY <2>5, FailJobStatus, CommitStatus
  <2>6. CASE Victim(p)
    BY <2>6, RollbackStatus DEF Victim, Deadlocked
  <2> QED
    BY <1>1, <2>1, <2>2, <2>3, <2>4, <2>5, <2>6 DEF Step
<1>2. ASSUME NEW p \in Proc, Crash(p) PROVE StatusInv'
  BY <1>2, RollbackStatus DEF Crash
<1>3. CASE UNCHANGED vars
  BY <1>3 DEF vars, StatusInv, KindInv, Deletes, DirtyDocInv, ShareInv, DeleteInv, HeldInv,
    GoneInv,
     StatusFollowsJobs, BlobKept, Exists
<1> QED
  BY <1>1, <1>2, <1>3 DEF Next, Polling

LEMMA InitStatus == Init => StatusInv
<1> SUFFICES ASSUME Init PROVE StatusInv
  OBVIOUS
<1>1. /\ doc.status = "none" /\ docLock = NoProc /\ share = {}
      /\ \A r \in Req : job[r] = "none" /\ jobLock[r] = NoProc /\ result[r] = "none"
      /\ \A p \in Proc : pc[p] = (IF p \in Req THEN "start" ELSE "idle") /\ task[p] = NoProc
  BY Procs DEF Init, Row
<1> QED
  BY <1>1, Procs DEF StatusInv, KindInv, Deletes, DirtyDocInv, ShareInv, DeleteInv, HeldInv,
    GoneInv,
     StatusFollowsJobs, BlobKept, Exists, Live

LEMMA StatusInvariant == Spec => []StatusInv
BY InitStatus, NextStatus, Inductive, PTL DEF Spec

(* The status of a document is that of its jobs, and once a delete answers *)
(* the document and every job of it are gone, whatever overlapped it       *)
(* (process_job, fail_job, delete_document).                               *)
THEOREM StatusesAreTrue == Spec => []StatusIsTrue
<1>1. StatusInv => StatusIsTrue
  BY DEF StatusInv, GoneInv, DeleteInv, StatusIsTrue, DeletedIsGone
<1> QED BY <1>1, StatusInvariant, PTL

(* A document has its file, except while or after a delete fails between   *)
(* its last two steps (_delete_blob_paths).                                *)
THEOREM FilesAreKept == Spec => []BlobKept
<1>1. StatusInv => BlobKept
  BY DEF StatusInv
<1> QED BY <1>1, StatusInvariant, PTL
=============================================================================
