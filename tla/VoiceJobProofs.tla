--------------------------- MODULE VoiceJobProofs ---------------------------
(***************************************************************************)
(* Proofs about a job of the voice service: LiveKitWorker, the life of the *)
(* jobs, and AgentTurn with ToolRegistry, the turns a job runs for its     *)
(* session.  They hold for any number of jobs, turns and calls of tools,   *)
(* any queue, history page, servers and policy, and any choice of faults.  *)
(*                                                                         *)
(* Of a worker: the gauge is raised exactly when prepare went through,     *)
(* which every way to the finally clause keeps track of; and a job writes  *)
(* the session only from its activation on, when it has yet to end it, so  *)
(* that an open session always has a job that will end it or has failed.   *)
(*                                                                         *)
(* Of the turns: a tool is routed because nothing is plugged before the    *)
(* startup is over; the refusal stands because there is no answer before   *)
(* the coordinator; a request is escalated because the handoff is in the   *)
(* transaction from the policy's decision to the commit; the history       *)
(* follows the transcript because both grow by the same message, the       *)
(* question in two steps, and a failed statement ends the job's claim.     *)
(***************************************************************************)
EXTENDS LiveKitWorker, AgentTurn, TLAPS, SequenceTheorems, FiniteSetTheorems


(* What the entrypoint has prepared and added to active_sessions so far; a job
   with an open transaction has yet to end the session. *)
GaugeInv(r) ==
  /\ r.pc \in {"idle", "setup", "prepare", "activate"} => ~r.prepared
  /\ r.pc \in {"wait", "track", "run"} => r.prepared
  /\ r.pc \notin {"done", "dead"} => r.gauge = IF r.prepared THEN 1 ELSE 0
  /\ r.pc = "done" /\ r.prepared => r.gauge = 0
  /\ r.open => r.prepared /\ r.pc \in {"run", "put", "end", "endupd"}

(* A job that has yet to end its session, or that will never do it. *)
Due(r) == r.prepared /\ (r.pc # "done" \/ r.endFailed)

(* A session that a job opened is completed or some job's to end. *)
SettledInv ==
  (\E j \in Jobs : job[j].prepared) => status = "completed" \/ \E j \in Jobs : Due(job[j])

IndInv == TypeOK /\ (\A j \in Jobs : GaugeInv(job[j])) /\ SettledInv

(* What a step of a job makes of its record q: r is no less due. *)
JobInv(r, q) ==
  /\ GaugeInv(r)
  /\ Due(r) \/ (r.prepared = q.prepared /\ ~Due(q))

-----------------------------------------------------------------------------
(* Steps of one job *)

(* A step that changes one job keeps the invariant when the new record is as it
   should be, and when the session is completed or not touched or the job's
   to end. *)
LEMMA SetKeeps ==
  ASSUME IndInv, NEW j \in Jobs, NEW r \in JobState, Set(j, r), GaugeInv(r),
         status' = "completed" \/ Due(r) \/ (status' = status /\ JobInv(r, job[j])),
         status' \in {"created", "active", "handoff_pending", "completed"},
         phase' \in {"idle", "listening", "processing", "speaking", "absent"},
         token' \in BOOLEAN, UNCHANGED <<present, joins>>
  PROVE  IndInv'
<1>1. TypeOK'
  BY DEF IndInv, TypeOK, Set
<1>2. job'[j] = r /\ \A i \in Jobs : i # j => job'[i] = job[i]
  BY DEF IndInv, TypeOK, Set
<1>3. ASSUME NEW i \in Jobs PROVE GaugeInv(job[i])'
  BY <1>2 DEF IndInv, GaugeInv
<1>4. SettledInv'
  <2>1. CASE status' = "completed"
    BY <2>1 DEF SettledInv
  <2>2. CASE Due(r)
    BY <2>2, <1>2 DEF SettledInv
  <2>3. CASE status' = status /\ r.prepared = job[j].prepared /\ ~Due(job[j])
    <3> SUFFICES ASSUME NEW i \in Jobs, job'[i].prepared, status # "completed"
                 PROVE  \E k \in Jobs : Due(job'[k])
      BY <2>3 DEF SettledInv
    <3>1. job[i].prepared
      BY <1>2, <2>3
    <3>2. PICK k \in Jobs : Due(job[k])
      BY <3>1 DEF IndInv, SettledInv
    <3> QED BY <1>2, <2>3, <3>2
  <2> QED BY <2>1, <2>2, <2>3 DEF JobInv
<1> QED BY <1>1, <1>3, <1>4 DEF IndInv

(* The same for a step that leaves the session alone. *)
LEMMA SetOnly ==
  ASSUME IndInv, NEW j \in Jobs, NEW r \in JobState, Set(j, r), JobInv(r, job[j]),
         UNCHANGED <<status, phase, token, present, joins>>
  PROVE  IndInv'
<1>1. /\ status' \in {"created", "active", "handoff_pending", "completed"}
      /\ phase' \in {"idle", "listening", "processing", "speaking", "absent"}
      /\ token' \in BOOLEAN /\ GaugeInv(r) /\ status' = status
  BY DEF IndInv, TypeOK, JobInv
<1> QED BY <1>1, SetKeeps

LEMMA Facts ==
  ASSUME IndInv, NEW j \in Jobs
  PROVE  job[j] \in JobState /\ GaugeInv(job[j])
BY DEF IndInv, TypeOK

LEMMA NoJobType == NoJob \in JobState
BY LiveKitAssumption DEF NoJob, JobState

(* The finally clause, from wherever it is reached. *)
LEMMA FinallyKeeps ==
  ASSUME IndInv, NEW j \in Jobs, job[j].pc \in {"prepare", "activate", "wait", "track", "run"}
  PROVE  Finally(j) \in JobState /\ JobInv(Finally(j), job[j])
<1>1. Finally(j) \in JobState
  <2> DEFINE ears == {"off", "on", "barge", "cancelled", "over"}
             listens == {"off", "stt", "think", "speak", "cancelled", "over"}
  <2>1. Cancel(job[j].ear) \in ears /\ Cancel(job[j].listen) \in listens
    BY Facts DEF Cancel, JobState
  <2>2. ASSUME NEW e \in ears, NEW l \in listens
        PROVE  [job[j] EXCEPT !.pc = "put", !.ear = e, !.listen = l, !.irq = FALSE] \in JobState
    BY ZenonT(30), Facts DEF JobState
  <2> QED BY <2>1, <2>2 DEF Finally
<1>2. JobInv(Finally(j), job[j])
  BY Facts DEF Finally, Cancel, JobInv, GaugeInv, Due, JobState
<1> QED BY <1>1, <1>2

LEMMA CreateLivekitTokenStep ==
  ASSUME IndInv, NEW j \in Jobs, CreateLivekitToken(j) PROVE IndInv'
<1>1. CASE UNCHANGED job
  BY <1>1 DEF CreateLivekitToken, CreateParticipantToken, IndInv, TypeOK, SettledInv
<1>2. CASE Set(j, [job[j] EXCEPT !.pc = "setup"])
  <2> DEFINE r == [job[j] EXCEPT !.pc = "setup"]
  <2>1. r \in JobState
    BY Facts DEF JobState
  <2>2. JobInv(r, job[j])
    BY Facts DEF CreateLivekitToken, JobState, JobInv, GaugeInv, Due
  <2>3. /\ UNCHANGED <<status, phase, present, joins>> /\ token' \in BOOLEAN
        /\ status' \in {"created", "active", "handoff_pending", "completed"}
        /\ phase' \in {"idle", "listening", "processing", "speaking", "absent"}
    BY DEF CreateLivekitToken, CreateParticipantToken, IndInv, TypeOK
  <2> QED BY <1>2, <2>1, <2>2, <2>3, SetKeeps DEF JobInv
<1> QED BY <1>1, <1>2 DEF CreateLivekitToken, DispatchAgent

(* The entrypoint *)

LEMMA SetupStep ==
  ASSUME IndInv, NEW j \in Jobs, Setup(j) PROVE IndInv'
<1>1. CASE Set(j, [job[j] EXCEPT !.pc = "prepare"])
  <2> DEFINE r == [job[j] EXCEPT !.pc = "prepare"]
  <2>1. r \in JobState
    BY Facts, NoJobType, LiveKitAssumption DEF Setup, JobState
  <2>2. JobInv(r, job[j])
    BY Facts, LiveKitAssumption DEF Setup, JobState, JobInv, GaugeInv, Due
  <2> QED BY <1>1, <2>1, <2>2, SetOnly DEF Setup
<1>2. CASE Set(j, [job[j] EXCEPT !.pc = "done"])
  <2> DEFINE r == [job[j] EXCEPT !.pc = "done"]
  <2>1. r \in JobState
    BY Facts, NoJobType, LiveKitAssumption DEF Setup, JobState
  <2>2. JobInv(r, job[j])
    BY Facts, LiveKitAssumption DEF Setup, JobState, JobInv, GaugeInv, Due
  <2> QED BY <1>2, <2>1, <2>2, SetOnly DEF Setup
<1> QED BY <1>1, <1>2 DEF Setup

LEMMA PreparedKeeps ==
  ASSUME IndInv, NEW j \in Jobs, job[j].pc \in {"prepare", "activate"}
  PROVE  Prepared(job[j]) \in JobState /\ GaugeInv(Prepared(job[j])) /\ Due(Prepared(job[j]))
<1>1. Prepared(job[j]) \in JobState
  <2>1. job[j].gauge + 1 \in Int
    BY Facts, LiveKitAssumption DEF JobState
  <2>2. ASSUME NEW v \in Int
        PROVE  [job[j] EXCEPT !.pc = "wait", !.prepared = TRUE, !.gauge = v] \in JobState
    BY ZenonT(30), Facts DEF JobState
  <2> QED BY <2>1, <2>2 DEF Prepared
<1>2. GaugeInv(Prepared(job[j])) /\ Due(Prepared(job[j]))
  BY Facts DEF Prepared, JobState, GaugeInv, Due
<1> QED BY <1>1, <1>2

LEMMA PrepareStep ==
  ASSUME IndInv, NEW j \in Jobs, Prepare(j) PROVE IndInv'
<1>1. CASE status = "active"
  <2>1. JobInv(Prepared(job[j]), job[j])
    BY PreparedKeeps DEF Prepare, JobInv
  <2> QED BY <1>1, <2>1, PreparedKeeps, SetOnly DEF Prepare
<1>2. CASE status # "active"
  <2> DEFINE r == [job[j] EXCEPT !.pc = "activate"]
  <2>1. r \in JobState
    BY Facts DEF JobState
  <2>2. JobInv(r, job[j])
    BY Facts DEF Prepare, JobState, JobInv, GaugeInv, Due
  <2> QED BY <1>2, <2>1, <2>2, SetOnly DEF Prepare
<1> QED BY <1>1, <1>2

LEMMA ActivateStep ==
  ASSUME IndInv, NEW j \in Jobs, Activate(j) PROVE IndInv'
<1>1. /\ status' \in {"created", "active", "handoff_pending", "completed"}
      /\ phase' \in {"idle", "listening", "processing", "speaking", "absent"}
      /\ token' \in BOOLEAN /\ UNCHANGED <<present, joins>>
      /\ Set(j, Prepared(job[j]))
  BY DEF Activate, IndInv, TypeOK
<1>2. /\ Prepared(job[j]) \in JobState /\ GaugeInv(Prepared(job[j])) /\ Due(Prepared(job[j]))
  BY PreparedKeeps DEF Activate
<1> QED BY <1>1, <1>2, SetKeeps

LEMMA PrepareFailsStep ==
  ASSUME IndInv, NEW j \in Jobs, PrepareFails(j) PROVE IndInv'
BY FinallyKeeps, SetOnly DEF PrepareFails

LEMMA WaitForParticipantStep ==
  ASSUME IndInv, NEW j \in Jobs, WaitForParticipant(j) PROVE IndInv'
<1>1. CASE Set(j, [job[j] EXCEPT !.pc = "track"])
  <2> DEFINE r == [job[j] EXCEPT !.pc = "track"]
  <2>1. r \in JobState
    BY Facts, NoJobType, LiveKitAssumption DEF WaitForParticipant, JobState
  <2>2. JobInv(r, job[j])
    BY Facts, LiveKitAssumption DEF WaitForParticipant, JobState, JobInv, GaugeInv, Due
  <2> QED BY <1>1, <2>1, <2>2, SetOnly DEF WaitForParticipant
<1>2. CASE Set(j, Finally(j))
  BY <1>2, FinallyKeeps, SetOnly DEF WaitForParticipant
<1> QED BY <1>1, <1>2 DEF WaitForParticipant

LEMMA NoAudioTrackStep ==
  ASSUME IndInv, NEW j \in Jobs, NoAudioTrack(j) PROVE IndInv'
BY FinallyKeeps, SetOnly DEF NoAudioTrack

LEMMA StartStep ==
  ASSUME IndInv, NEW j \in Jobs, Start(j) PROVE IndInv'
<1>1. CASE Set(j, [job[j] EXCEPT !.pc = "run", !.ear = "on", !.listen = "stt"])
  <2> DEFINE r == [job[j] EXCEPT !.pc = "run", !.ear = "on", !.listen = "stt"]
  <2>1. r \in JobState
    BY ZenonT(30), Facts, NoJobType, LiveKitAssumption DEF Start, JobState
  <2>2. JobInv(r, job[j])
    BY Facts, LiveKitAssumption DEF Start, JobState, JobInv, GaugeInv, Due
  <2> QED BY <1>1, <2>1, <2>2, SetOnly DEF Start
<1> QED BY <1>1 DEF Start

LEMMA StopRunningStep ==
  ASSUME IndInv, NEW j \in Jobs, StopRunning(j) PROVE IndInv'
BY FinallyKeeps, SetOnly DEF StopRunning

LEMMA PutSentinelStep ==
  ASSUME IndInv, NEW j \in Jobs, PutSentinel(j) PROVE IndInv'
<1>1. CASE Set(j, [job[j] EXCEPT !.queue = 0, !.pc = "end"])
  <2> DEFINE r == [job[j] EXCEPT !.queue = 0, !.pc = "end"]
  <2>1. r \in JobState
    <3>1. 0 \in 0 .. QueueSize
      BY Facts, LiveKitAssumption DEF JobState
    <3>2. ASSUME NEW v \in 0 .. QueueSize
          PROVE  [job[j] EXCEPT !.queue = v, !.pc = "end"] \in JobState
      BY ZenonT(30), Facts DEF JobState
    <3> QED BY <3>1, <3>2
  <2>2. JobInv(r, job[j])
    BY Facts, LiveKitAssumption DEF PutSentinel, JobState, JobInv, GaugeInv, Due
  <2> QED BY <1>1, <2>1, <2>2, SetOnly DEF PutSentinel
<1> QED BY <1>1 DEF PutSentinel

(* The way out of the job, with and without an ended session. *)
LEMMA ExitedKeeps ==
  ASSUME IndInv, NEW j \in Jobs, job[j].pc \in {"end", "endupd"}, NEW failed \in BOOLEAN
  PROVE  /\ Exited(job[j], failed) \in JobState /\ GaugeInv(Exited(job[j], failed))
         /\ failed => JobInv(Exited(job[j], failed), job[j])
<1> DEFINE r == Exited(job[j], failed)
<1>1. r \in JobState
  <2>1. job[j].gauge - 1 \in Int
    BY Facts DEF JobState
  <2>2. ASSUME NEW v \in Int
        PROVE  [NoJob EXCEPT !.pc = "done", !.prepared = job[j].prepared, !.gauge = v,
                             !.rejoin = job[j].rejoin, !.endFailed = failed] \in JobState
    BY Facts, NoJobType DEF JobState
  <2> QED BY <2>1, <2>2 DEF Exited
<1>2. /\ r.pc = "done" /\ r.prepared = job[j].prepared /\ r.gauge = job[j].gauge - 1
      /\ r.endFailed = failed /\ ~r.open
  BY DEF Exited, NoJob
<1>3. job[j].prepared \in BOOLEAN /\ (job[j].prepared => job[j].gauge = 1)
  BY Facts DEF JobState, GaugeInv
<1>4. GaugeInv(r)
  BY <1>2, <1>3 DEF GaugeInv
<1>5. failed => JobInv(r, job[j])
  BY <1>2, <1>3, <1>4 DEF JobInv, Due
<1> QED BY <1>1, <1>4, <1>5

LEMMA OverKeeps ==
  ASSUME IndInv, NEW j \in Jobs, job[j].pc \in {"end", "endupd"}, Over(j),
         status' = "completed", UNCHANGED <<token, present, joins>>
  PROVE  IndInv'
<1>1. /\ phase' \in {"idle", "listening", "processing", "speaking", "absent"}
      /\ status' \in {"created", "active", "handoff_pending", "completed"} /\ token' \in BOOLEAN
  BY DEF Over, IndInv, TypeOK
<1>2. Exited(job[j], FALSE) \in JobState /\ GaugeInv(Exited(job[j], FALSE))
  BY ExitedKeeps
<1>3. Set(j, Exited(job[j], FALSE))
  BY DEF Over
<1> QED BY <1>1, <1>2, <1>3, SetKeeps

LEMMA EndSessionStep ==
  ASSUME IndInv, NEW j \in Jobs, EndSession(j) PROVE IndInv'
<1>1. CASE Seen(j) = "completed"
  BY <1>1, OverKeeps DEF EndSession, Seen
<1>2. CASE Seen(j) # "completed"
  <2> DEFINE r == [job[j] EXCEPT !.pc = "endupd"]
  <2>1. r \in JobState
    BY Facts DEF JobState
  <2>2. JobInv(r, job[j])
    BY Facts DEF EndSession, JobState, JobInv, GaugeInv, Due
  <2> QED BY <1>2, <2>1, <2>2, SetOnly DEF EndSession
<1> QED BY <1>1, <1>2

LEMMA EndUpdateStep ==
  ASSUME IndInv, NEW j \in Jobs, EndUpdate(j) PROVE IndInv'
BY OverKeeps DEF EndUpdate

LEMMA EndFailsStep ==
  ASSUME IndInv, NEW j \in Jobs, EndFails(j) PROVE IndInv'
BY ExitedKeeps, SetOnly DEF EndFails

(* The tasks of a job *)

LEMMA QueuedType == ASSUME NEW r \in JobState PROVE Queued(r) \in JobState
<1>1. (IF r.queue < QueueSize THEN r.queue + 1 ELSE QueueSize) \in 0 .. QueueSize
  BY LiveKitAssumption DEF JobState
<1>2. ASSUME NEW v \in 0 .. QueueSize PROVE [r EXCEPT !.queue = v] \in JobState
  BY DEF JobState
<1> QED BY <1>1, <1>2 DEF Queued

LEMMA IngressFrameStep ==
  ASSUME IndInv, NEW j \in Jobs, IngressFrame(j) PROVE IndInv'
<1>1. CASE Set(j, [job[j] EXCEPT !.ear = "barge"])
  <2> DEFINE r == [job[j] EXCEPT !.ear = "barge"]
  <2>1. r \in JobState
    BY Facts, NoJobType, LiveKitAssumption DEF IngressFrame, JobState, Queued
  <2>2. JobInv(r, job[j])
    BY Facts, LiveKitAssumption DEF IngressFrame, JobState, JobInv, GaugeInv, Due, Queued
  <2> QED BY <1>1, <2>1, <2>2, SetOnly DEF IngressFrame
<1>2. CASE Set(j, Queued(job[j]))
  <2> DEFINE r == Queued(job[j])
  <2>1. r \in JobState
    BY Facts, QueuedType
  <2>2. JobInv(r, job[j])
    BY Facts DEF JobState, JobInv, GaugeInv, Due, Queued
  <2> QED BY <1>2, <2>1, <2>2, SetOnly DEF IngressFrame
<1> QED BY <1>1, <1>2 DEF IngressFrame

LEMMA BargeInStep ==
  ASSUME IndInv, NEW j \in Jobs, BargeIn(j) PROVE IndInv'
<1>1. CASE Set(j, [Queued(job[j]) EXCEPT !.ear = "on", !.irq = TRUE])
  <2> DEFINE r == [Queued(job[j]) EXCEPT !.ear = "on", !.irq = TRUE]
  <2>1. r \in JobState
    <3>1. Queued(job[j]) \in JobState
      BY Facts, QueuedType
    <3> QED BY <3>1 DEF JobState
  <2>2. JobInv(r, job[j])
    BY Facts, LiveKitAssumption DEF BargeIn, JobState, JobInv, GaugeInv, Due,
      Queued
  <2> QED BY <1>1, <2>1, <2>2, SetOnly DEF BargeIn
<1> QED BY <1>1 DEF BargeIn

LEMMA IngressDiesStep ==
  ASSUME IndInv, NEW j \in Jobs, IngressDies(j) PROVE IndInv'
<1>1. CASE Set(j, [job[j] EXCEPT !.ear = "over"])
  <2> DEFINE r == [job[j] EXCEPT !.ear = "over"]
  <2>1. r \in JobState
    BY Facts, NoJobType, LiveKitAssumption DEF IngressDies, JobState
  <2>2. JobInv(r, job[j])
    BY Facts, LiveKitAssumption DEF IngressDies, JobState, JobInv, GaugeInv, Due
  <2> QED BY <1>1, <2>1, <2>2, SetOnly DEF IngressDies
<1> QED BY <1>1 DEF IngressDies

LEMMA HandleClientInterruptStep ==
  ASSUME IndInv, NEW j \in Jobs, HandleClientInterrupt(j) PROVE IndInv'
<1>1. CASE Set(j, [job[j] EXCEPT !.irq = TRUE])
  <2> DEFINE r == [job[j] EXCEPT !.irq = TRUE]
  <2>1. r \in JobState
    BY ZenonT(30), Facts, NoJobType, LiveKitAssumption DEF HandleClientInterrupt, JobState
  <2>2. JobInv(r, job[j])
    BY Facts, LiveKitAssumption DEF HandleClientInterrupt, JobState, JobInv, GaugeInv, Due
  <2> QED BY <1>1, <2>1, <2>2, SetOnly DEF HandleClientInterrupt
<1> QED BY <1>1 DEF HandleClientInterrupt

LEMMA ListenStep ==
  ASSUME IndInv, NEW j \in Jobs, Listen(j) PROVE IndInv'
<1>1. CASE Set(j, [job[j] EXCEPT !.queue = @ - 1])
  <2> DEFINE r == [job[j] EXCEPT !.queue = @ - 1]
  <2>1. r \in JobState
    BY Facts, NoJobType, LiveKitAssumption DEF Listen, JobState
  <2>2. JobInv(r, job[j])
    BY Facts, LiveKitAssumption DEF Listen, JobState, JobInv, GaugeInv, Due
  <2> QED BY <1>1, <2>1, <2>2, SetOnly DEF Listen
<1> QED BY <1>1 DEF Listen

LEMMA DropEventStep ==
  ASSUME IndInv, NEW j \in Jobs, DropEvent(j) PROVE IndInv'
<1>1. CASE Set(j, Again([job[j] EXCEPT !.queue = @ - 1]))
  <2> DEFINE r == Again([job[j] EXCEPT !.queue = @ - 1])
  <2>1. r \in JobState
    <3>1. job[j].queue - 1 \in 0 .. QueueSize
      BY Facts, LiveKitAssumption DEF DropEvent, JobState
    <3>2. ASSUME NEW v \in 0 .. QueueSize PROVE Again([job[j] EXCEPT !.queue = v]) \in JobState
      BY ZenonT(30), Facts DEF JobState, Again
    <3> QED BY <3>1, <3>2
  <2>2. JobInv(r, job[j])
    BY Facts, LiveKitAssumption DEF DropEvent, JobState, JobInv, GaugeInv, Due,
      Again
  <2> QED BY <1>1, <2>1, <2>2, SetOnly DEF DropEvent
<1> QED BY <1>1 DEF DropEvent

LEMMA BeginTurnStep ==
  ASSUME IndInv, NEW j \in Jobs, BeginTurn(j) PROVE IndInv'
<1> DEFINE r == [job[j] EXCEPT !.queue = @ - 1, !.irq = FALSE, !.listen = "think"]
<1>1. r \in JobState
  <2>1. job[j].queue - 1 \in 0 .. QueueSize
    BY Facts, LiveKitAssumption DEF BeginTurn, JobState
  <2>2. ASSUME NEW v \in 0 .. QueueSize
        PROVE  [job[j] EXCEPT !.queue = v, !.irq = FALSE, !.listen = "think"] \in JobState
    BY ZenonT(30), Facts DEF JobState
  <2> QED BY <2>1, <2>2
<1>2. JobInv(r, job[j])
  BY Facts DEF BeginTurn, JobState, JobInv, GaugeInv, Due
<1>3. /\ status' \in {"created", "active", "handoff_pending", "completed"}
      /\ phase' \in {"idle", "listening", "processing", "speaking", "absent"}
      /\ token' \in BOOLEAN /\ UNCHANGED <<present, joins>>
      /\ status' = status
  BY DEF BeginTurn, IndInv, TypeOK
<1>4. Set(j, r)
  BY DEF BeginTurn
<1> QED BY <1>1, <1>2, <1>3, <1>4, SetKeeps DEF JobInv

LEMMA SpeakStep ==
  ASSUME IndInv, NEW j \in Jobs, Speak(j) PROVE IndInv'
<1> DEFINE r == [job[j] EXCEPT !.listen = "speak"]
<1>1. r \in JobState
  BY Facts, LiveKitAssumption DEF Speak, JobState
<1>2. JobInv(r, job[j])
  BY Facts DEF Speak, JobState, JobInv, GaugeInv, Due
<1>3. /\ status' \in {"created", "active", "handoff_pending", "completed"}
      /\ phase' \in {"idle", "listening", "processing", "speaking", "absent"}
      /\ token' \in BOOLEAN /\ UNCHANGED <<present, joins>>
      /\ status' = status
  BY DEF Speak, IndInv, TypeOK
<1>4. Set(j, r)
  BY DEF Speak
<1> QED BY <1>1, <1>2, <1>3, <1>4, SetKeeps DEF JobInv

LEMMA EndTurnStep ==
  ASSUME IndInv, NEW j \in Jobs, EndTurn(j) PROVE IndInv'
<1> DEFINE r == [job[j] EXCEPT !.listen = "stt", !.open = FALSE]
<1>1. r \in JobState
  BY ZenonT(30), Facts DEF JobState
<1>2. GaugeInv(r) /\ Due(r)
  BY Facts DEF EndTurn, Running, JobState, GaugeInv, Due
<1>3. /\ status' \in {"created", "active", "handoff_pending", "completed"}
      /\ phase' \in {"idle", "listening", "processing", "speaking", "absent"}
      /\ token' \in BOOLEAN /\ UNCHANGED <<present, joins>>
  BY DEF EndTurn, Seen, IndInv, TypeOK
<1>4. Set(j, r)
  BY DEF EndTurn
<1> QED BY <1>1, <1>2, <1>3, <1>4, SetKeeps

LEMMA TurnFailsStep ==
  ASSUME IndInv, NEW j \in Jobs, TurnFails(j) PROVE IndInv'
<1>1. CASE Set(j, Again(job[j]))
  <2> DEFINE r == Again(job[j])
  <2>1. r \in JobState
    BY ZenonT(30), Facts, NoJobType, LiveKitAssumption DEF TurnFails, JobState, Again
  <2>2. JobInv(r, job[j])
    BY Facts, LiveKitAssumption DEF TurnFails, JobState, JobInv, GaugeInv, Due,
      Again
  <2> QED BY <1>1, <2>1, <2>2, SetOnly DEF TurnFails
<1>2. CASE Set(j, [Again(job[j]) EXCEPT !.open = TRUE])
  <2> DEFINE r == [Again(job[j]) EXCEPT !.open = TRUE]
  <2>1. r \in JobState
    BY ZenonT(30), Facts DEF JobState, Again
  <2>2. JobInv(r, job[j])
    BY Facts DEF TurnFails, Running, JobState, JobInv, GaugeInv, Due, Again
  <2> QED BY <1>2, <2>1, <2>2, SetOnly DEF TurnFails
<1> QED BY <1>1, <1>2 DEF TurnFails

LEMMA SttFailsStep ==
  ASSUME IndInv, NEW j \in Jobs, SttFails(j) PROVE IndInv'
<1>1. CASE Set(j, Again(job[j]))
  <2> DEFINE r == Again(job[j])
  <2>1. r \in JobState
    BY ZenonT(30), Facts, NoJobType, LiveKitAssumption DEF SttFails, JobState, Again
  <2>2. JobInv(r, job[j])
    BY Facts, LiveKitAssumption DEF SttFails, JobState, JobInv, GaugeInv, Due,
      Again
  <2> QED BY <1>1, <2>1, <2>2, SetOnly DEF SttFails
<1> QED BY <1>1 DEF SttFails

LEMMA TasksEndStep ==
  ASSUME IndInv, NEW j \in Jobs, TasksEnd(j) PROVE IndInv'
<1> DEFINE r == [job[j] EXCEPT !.ear = "over", !.listen = "over"]
<1>1. r \in JobState
  BY ZenonT(30), Facts DEF JobState
<1>2. JobInv(r, job[j])
  BY Facts DEF JobState, JobInv, GaugeInv, Due
<1> QED BY <1>1, <1>2, SetOnly DEF TasksEnd

LEMMA ReadReconnectStep ==
  ASSUME IndInv, NEW j \in Jobs, ReadReconnect(j) PROVE IndInv'
<1>1. PICK v \in {"no", "read"} : Set(j, [job[j] EXCEPT !.rejoin = v])
  BY DEF ReadReconnect
<1> DEFINE r == [job[j] EXCEPT !.rejoin = v]
<1>2. r \in JobState
  BY ZenonT(30), Facts DEF JobState
<1>3. JobInv(r, job[j])
  BY Facts DEF JobState, JobInv, GaugeInv, Due
<1> QED BY <1>1, <1>2, <1>3, SetOnly DEF ReadReconnect

LEMMA HandleReconnectStep ==
  ASSUME IndInv, NEW j \in Jobs, HandleReconnect(j) PROVE IndInv'
<1> DEFINE r == [job[j] EXCEPT !.rejoin = "no", !.open = FALSE]
<1>1. r \in JobState
  BY ZenonT(30), Facts DEF JobState
<1>2. JobInv(r, job[j])
  BY Facts DEF JobState, JobInv, GaugeInv, Due
<1>3. /\ status' \in {"created", "active", "handoff_pending", "completed"}
      /\ phase' \in {"idle", "listening", "processing", "speaking", "absent"}
      /\ token' \in BOOLEAN /\ UNCHANGED <<present, joins>>
  BY DEF HandleReconnect, Seen, IndInv, TypeOK
<1>4. status' = status \/ Due(r)
  <2>1. CASE job[j].open
    BY <2>1, Facts DEF JobState, GaugeInv, Due
  <2>2. CASE ~job[j].open
    BY <2>2 DEF HandleReconnect, Seen
  <2> QED BY <2>1, <2>2
<1>5. Set(j, r) /\ GaugeInv(r)
  BY <1>2 DEF HandleReconnect, JobInv
<1> HIDE DEF r
<1> QED BY <1>1, <1>2, <1>3, <1>4, <1>5, SetKeeps

(* Timers, the framework and the process *)

LEMMA DelayedShutdownStep ==
  ASSUME IndInv, NEW j \in Jobs, DelayedShutdown(j) PROVE IndInv'
<1>1. CASE Set(j, [job[j] EXCEPT !.timers = @ - 1, !.stop = TRUE])
  <2> DEFINE r == [job[j] EXCEPT !.timers = @ - 1, !.stop = TRUE]
  <2>1. r \in JobState
    <3>1. job[j].timers - 1 \in Nat
      BY Facts, LiveKitAssumption DEF DelayedShutdown, JobState
    <3>2. ASSUME NEW v \in Nat
          PROVE  [job[j] EXCEPT !.timers = v, !.stop = TRUE] \in JobState
      BY ZenonT(30), Facts DEF JobState
    <3> QED BY <3>1, <3>2
  <2>2. JobInv(r, job[j])
    BY Facts, LiveKitAssumption DEF DelayedShutdown, JobState, JobInv, GaugeInv, Due
  <2> QED BY <1>1, <2>1, <2>2, SetOnly DEF DelayedShutdown
<1> QED BY <1>1 DEF DelayedShutdown

LEMMA RequestShutdownStep ==
  ASSUME IndInv, NEW j \in Jobs, RequestShutdown(j) PROVE IndInv'
<1>1. CASE Set(j, [job[j] EXCEPT !.stop = TRUE])
  <2> DEFINE r == [job[j] EXCEPT !.stop = TRUE]
  <2>1. r \in JobState
    BY Facts, NoJobType, LiveKitAssumption DEF RequestShutdown, JobState
  <2>2. JobInv(r, job[j])
    BY Facts, LiveKitAssumption DEF RequestShutdown, JobState, JobInv, GaugeInv, Due
  <2> QED BY <1>1, <2>1, <2>2, SetOnly DEF RequestShutdown
<1> QED BY <1>1 DEF RequestShutdown

LEMMA JobDiesStep ==
  ASSUME IndInv, NEW j \in Jobs, JobDies(j) PROVE IndInv'
<1>1. CASE Set(j, [NoJob EXCEPT !.pc = "dead", !.prepared = job[j].prepared])
  <2> DEFINE r == [NoJob EXCEPT !.pc = "dead", !.prepared = job[j].prepared]
  <2>1. r \in JobState
    BY Facts, NoJobType, LiveKitAssumption DEF JobDies, JobState, NoJob
  <2>2. JobInv(r, job[j])
    BY Facts, LiveKitAssumption DEF JobDies, JobState, JobInv, GaugeInv, Due,
      NoJob
  <2> QED BY <1>1, <2>1, <2>2, SetOnly DEF JobDies
<1> QED BY <1>1 DEF JobDies

-----------------------------------------------------------------------------
(* The participant, whose events reach every job *)

LEMMA EveryJobKeeps ==
  ASSUME IndInv, job' \in [Jobs -> JobState], UNCHANGED <<status, phase, token>>,
         present' \in BOOLEAN, joins' \in 0 .. MaxJoins,
         \A j \in Jobs : /\ job'[j].pc = job[j].pc /\ job'[j].prepared = job[j].prepared
                         /\ job'[j].gauge = job[j].gauge /\ job'[j].endFailed = job[j].endFailed
                         /\ job'[j].open = job[j].open
  PROVE  IndInv'
<1>1. TypeOK'
  BY DEF IndInv, TypeOK
<1>2. ASSUME NEW j \in Jobs PROVE GaugeInv(job[j])'
  BY DEF IndInv, GaugeInv
<1>3. SettledInv'
  BY DEF IndInv, SettledInv, Due
<1> QED BY <1>1, <1>2, <1>3 DEF IndInv

LEMMA JoinStep == ASSUME IndInv, Join PROVE IndInv'
<1>1. ASSUME NEW j \in Jobs
      PROVE  /\ job'[j] \in JobState
             /\ job'[j].pc = job[j].pc /\ job'[j].prepared = job[j].prepared
             /\ job'[j].gauge = job[j].gauge /\ job'[j].endFailed = job[j].endFailed
             /\ job'[j].open = job[j].open
  <2>1. CASE Registered(j)
    <3>1. job'[j] = [job[j] EXCEPT !.rejoin = "asked"]
      BY <2>1 DEF Join
    <3>2. [job[j] EXCEPT !.rejoin = "asked"] \in JobState
      BY ZenonT(30), Facts DEF JobState
    <3> QED BY <3>1, <3>2, Facts DEF JobState
  <2>2. CASE ~Registered(j)
    BY <2>2, Facts DEF Join
  <2> QED BY <2>1, <2>2
<1>2. job' \in [Jobs -> JobState]
  BY <1>1 DEF Join
<1>3. joins' \in 0 .. MaxJoins /\ present' \in BOOLEAN
  BY LiveKitAssumption DEF Join, IndInv, TypeOK
<1> QED BY <1>1, <1>2, <1>3, EveryJobKeeps DEF Join

LEMMA LeaveStep == ASSUME IndInv, Leave PROVE IndInv'
<1>1. ASSUME NEW j \in Jobs
      PROVE  /\ job'[j] \in JobState
             /\ job'[j].pc = job[j].pc /\ job'[j].prepared = job[j].prepared
             /\ job'[j].gauge = job[j].gauge /\ job'[j].endFailed = job[j].endFailed
             /\ job'[j].open = job[j].open
  <2>1. CASE Registered(j)
    <3>1. job'[j] = [job[j] EXCEPT !.timers = @ + 1, !.ear = IF @ = "off" THEN @ ELSE "over"]
      BY <2>1 DEF Leave
    <3>2. job[j].timers + 1 \in Nat
      BY Facts DEF JobState
    <3>3. ASSUME NEW v \in Nat
          PROVE  [job[j] EXCEPT !.timers = v, !.ear = IF @ = "off" THEN @ ELSE "over"] \in JobState
      BY ZenonT(30), Facts DEF JobState
    <3>4. job'[j] \in JobState
      BY <3>1, <3>2, <3>3
    <3>5. /\ job'[j].pc = job[j].pc /\ job'[j].prepared = job[j].prepared
          /\ job'[j].gauge = job[j].gauge /\ job'[j].endFailed = job[j].endFailed
          /\ job'[j].open = job[j].open
      BY <3>1, Facts DEF JobState
    <3> QED BY <3>4, <3>5
  <2>2. CASE ~Registered(j) /\ job[j].pc = "track"
    <3>1. job'[j] = [job[j] EXCEPT !.ear = "over"]
      BY <2>2 DEF Leave
    <3> QED BY <3>1, Facts DEF JobState
  <2>3. CASE ~Registered(j) /\ job[j].pc # "track"
    BY <2>3, Facts DEF Leave
  <2> QED BY <2>1, <2>2, <2>3
<1>2. job' \in [Jobs -> JobState]
  BY <1>1 DEF Leave
<1>3. joins' \in 0 .. MaxJoins /\ present' \in BOOLEAN
  BY DEF Leave, IndInv, TypeOK
<1> QED BY <1>1, <1>2, <1>3, EveryJobKeeps DEF Leave

-----------------------------------------------------------------------------
LEMMA InitInv == Init => IndInv
<1> SUFFICES ASSUME Init PROVE IndInv
  OBVIOUS
<1>1. TypeOK
  <2>1. joins \in 0 .. MaxJoins
    BY LiveKitAssumption DEF Init
  <2>2. job \in [Jobs -> JobState]
    BY NoJobType DEF Init
  <2> QED BY <2>1, <2>2 DEF Init, TypeOK
<1>2. ASSUME NEW j \in Jobs PROVE GaugeInv(job[j]) /\ ~job[j].prepared
  BY DEF Init, NoJob, GaugeInv
<1> QED BY <1>1, <1>2 DEF IndInv, SettledInv

LEMMA NextInv == IndInv /\ [Next]_vars => IndInv'
<1> SUFFICES ASSUME IndInv, [Next]_vars PROVE IndInv'
  OBVIOUS
<1>1. CASE UNCHANGED vars
  BY <1>1 DEF vars, IndInv, TypeOK, SettledInv
<1>2. CASE Join \/ Leave
  BY <1>2, JoinStep, LeaveStep
<1>3. ASSUME NEW j \in Jobs, Entrypoint(j) PROVE IndInv'
  BY <1>3, SetupStep, PrepareStep, ActivateStep, PrepareFailsStep, WaitForParticipantStep,
     NoAudioTrackStep, StartStep, StopRunningStep, PutSentinelStep, EndSessionStep,
     EndUpdateStep, EndFailsStep
  DEF Entrypoint
<1>4. ASSUME NEW j \in Jobs, Tasks(j) PROVE IndInv'
  BY <1>4, IngressFrameStep, BargeInStep, IngressDiesStep, HandleClientInterruptStep,
     ListenStep, DropEventStep, BeginTurnStep, SpeakStep, EndTurnStep, TurnFailsStep,
     SttFailsStep, TasksEndStep, ReadReconnectStep, HandleReconnectStep
  DEF Tasks
<1>5. ASSUME NEW j \in Jobs,
             CreateLivekitToken(j) \/ DelayedShutdown(j) \/ RequestShutdown(j) \/ JobDies(j)
      PROVE  IndInv'
  BY <1>5, CreateLivekitTokenStep, DelayedShutdownStep, RequestShutdownStep, JobDiesStep
<1> QED BY <1>1, <1>2, <1>3, <1>4, <1>5 DEF Next

LEMMA Inductive == Spec => []IndInv
BY InitInv, NextInv, PTL DEF Spec

(* Every field of every job keeps its type; above all the audio queue never
   holds more than its maxsize (session_runner.py, _enqueue_audio). *)
THEOREM TypeCorrect == Spec => []TypeOK
<1>1. IndInv => TypeOK
  BY DEF IndInv
<1> QED BY <1>1, Inductive, PTL

(* entrypoint and shutdown: on every way out a prepared job is out of
   active_sessions; and however many jobs serve the room, whatever fails in
   them, and although an activation or a turn of one may put back a session
   another one ended, the last of them leaves it completed, unless a job
   logged that it could not end it, or died. *)
THEOREM JobsSettle == Spec => []JobSettles
<1>1. IndInv => JobSettles
  <2> SUFFICES ASSUME IndInv PROVE JobSettles
    OBVIOUS
  <2>1. ASSUME NEW j \in Jobs, job[j].pc = "done" /\ job[j].prepared PROVE job[j].gauge = 0
    BY <2>1 DEF IndInv, GaugeInv
  <2>2. ASSUME \A j \in Jobs : job[j].pc \in {"idle", "done", "dead"},
               \E j \in Jobs : job[j].prepared, status # "completed"
        PROVE  \E j \in Jobs : job[j].endFailed \/ (job[j].pc = "dead" /\ job[j].prepared)
    <3>1. PICK j \in Jobs : Due(job[j])
      BY <2>2 DEF IndInv, SettledInv
    <3>2. job[j].pc # "idle"
      BY <3>1 DEF IndInv, GaugeInv, Due
    <3> QED BY <2>2, <3>1, <3>2 DEF Due
  <2> QED BY <2>1, <2>2 DEF JobSettles
<1> QED BY <1>1, Inductive, PTL

-----------------------------------------------------------------------------
(* The turns of a session *)

(* Until the startup is over nothing was plugged in or out. *)
RegistryInv ==
  /\ RegistryTypeOK
  /\ ~Started => servers = Configured
  /\ RegistryRoutes

LEMMA Lengths == Len(Configured) \in Nat /\ DOMAIN Configured = 1 .. Len(Configured)
BY ToolAssumption DEF ToolAssumption

LEMMA ConfiguredType ==
  ASSUME NEW i \in DOMAIN Configured
  PROVE  Configured[i] \in ServerConfig /\ Configured[i].id \in ServerIds
BY ToolAssumption DEF ToolAssumption, ServerIds

LEMMA Offered ==
  ASSUME NEW c \in ServerConfig, c.id \in ServerIds, NEW r \in DiscoverResults(c)
  PROVE  /\ r[1] \in Statuses /\ r[2] \subseteq ToolNames
         /\ \A n \in r[2] : n \in LiveTools[c.id] \cup c.static /\ c.transport = "stdio"
<1>1. LiveTools[c.id] \subseteq ToolNames /\ c.static \subseteq ToolNames
  BY ToolAssumption DEF ToolAssumption, ServerConfig
<1> QED BY <1>1 DEF DiscoverResults, Static, Statuses

LEMMA RegistryInitInv == RegistryInit => RegistryInv
<1> SUFFICES ASSUME RegistryInit PROVE RegistryInv
  OBVIOUS
<1>1. RegistryTypeOK
  BY Lengths, ConfiguredType, ToolAssumption
  DEF RegistryInit, RegistryTypeOK, ToolAssumption
<1>2. RegistryRoutes
  BY DEF RegistryInit, RegistryRoutes
<1> QED BY <1>1, <1>2 DEF RegistryInv, RegistryInit

(* What _register_server_tools leaves, for a server that is among the servers. *)
LEMMA RegisterKeeps ==
  ASSUME RegistryInv, NEW c \in ServerConfig, c.id \in ServerIds,
         NEW r \in DiscoverResults(c), RegisterServerTools(c, r[1], r[2]),
         Range(servers) \subseteq Range(servers'), c \in Range(servers')
  PROVE  /\ records' \in [DOMAIN records' -> Statuses] /\ DOMAIN records' \subseteq ServerIds
         /\ index' \in [DOMAIN index' -> [server : ServerIds, scopes : SUBSET STRING]]
         /\ owner' \in [DOMAIN owner' -> ServerIds]
         /\ DOMAIN index' \cup DOMAIN owner' \subseteq ToolNames
         /\ RegistryRoutes'
<1> DEFINE tools == r[2]
           entry == [server |-> c.id, scopes |-> c.permissions]
<1>1. /\ r[1] \in Statuses /\ tools \subseteq ToolNames
      /\ \A n \in tools : n \in LiveTools[c.id] \cup c.static /\ c.transport = "stdio"
  BY Offered
<1>2. entry \in [server : ServerIds, scopes : SUBSET STRING] /\ entry.server = c.id
  BY DEF ServerConfig
<1>3. /\ records' = Extend(records, {c.id}, r[1])
      /\ index' = Extend(index, tools, entry)
      /\ owner' = Extend(owner, tools, c.id)
  BY DEF RegisterServerTools
<1> HIDE DEF tools, entry
<1>4. /\ DOMAIN records' = DOMAIN records \cup {c.id}
      /\ DOMAIN index' = DOMAIN index \cup tools /\ DOMAIN owner' = DOMAIN owner \cup tools
      /\ \A n \in DOMAIN index' : index'[n] = IF n \in tools THEN entry ELSE index[n]
      /\ \A n \in DOMAIN owner' : owner'[n] = IF n \in tools THEN c.id ELSE owner[n]
  BY <1>3 DEF Extend
<1>5. records' \in [DOMAIN records' -> Statuses] /\ DOMAIN records' \subseteq ServerIds
  BY <1>1, <1>3 DEF Extend, RegistryInv, RegistryTypeOK
<1>6. index' \in [DOMAIN index' -> [server : ServerIds, scopes : SUBSET STRING]]
  BY <1>2, <1>3 DEF Extend, RegistryInv, RegistryTypeOK
<1>7. owner' \in [DOMAIN owner' -> ServerIds]
  BY <1>3 DEF Extend, RegistryInv, RegistryTypeOK
<1>8. DOMAIN index' \cup DOMAIN owner' \subseteq ToolNames
  BY <1>1, <1>4 DEF RegistryInv, RegistryTypeOK
<1>9. RegistryRoutes'
  <2>1. DOMAIN index' = DOMAIN owner'
    BY <1>4 DEF RegistryInv, RegistryRoutes
  <2>2. ASSUME NEW n \in DOMAIN owner'
        PROVE  /\ index'[n].server = owner'[n]
               /\ owner'[n] \in DOMAIN records'
               /\ \E d \in Range(servers') :
                    /\ d.id = owner'[n]
                    /\ n \in LiveTools[d.id] \cup d.static
                    /\ d.transport = "stdio"
    <3>1. CASE n \in tools
      BY <3>1, <2>1, <1>1, <1>2, <1>4
    <3>2. CASE n \notin tools
      <4>1. n \in DOMAIN owner /\ owner'[n] = owner[n] /\ index'[n] = index[n]
        BY <3>2, <2>1, <1>4
      <4> QED BY <4>1, <1>4 DEF RegistryInv, RegistryRoutes
    <3> QED BY <3>1, <3>2
  <2> QED BY <2>1, <2>2 DEF RegistryRoutes
<1> QED BY <1>5, <1>6, <1>7, <1>8, <1>9

LEMMA DiscoverServerStep == ASSUME RegistryInv, DiscoverServer PROVE RegistryInv'
<1> DEFINE c == Configured[discovered + 1]
<1>1. /\ discovered + 1 \in 1 .. Len(Configured) /\ discovered' = discovered + 1
      /\ servers' = servers /\ servers = Configured /\ hot' = hot /\ support' = support
  BY Lengths DEF DiscoverServer, RegistryInv, RegistryTypeOK, Started
<1>2. c \in ServerConfig /\ c.id \in ServerIds /\ c \in Range(servers')
  BY <1>1, Lengths, ConfiguredType DEF Range
<1> HIDE DEF c
<1>3. CASE \E r \in DiscoverResults(c) : RegisterServerTools(c, r[1], r[2])
  BY <1>1, <1>2, <1>3, Lengths, RegisterKeeps DEF RegistryInv, RegistryTypeOK, Started
<1>4. CASE RegisterFailedServer(c)
  <2>1. /\ DOMAIN records' = DOMAIN records \cup {c.id}
        /\ records' \in [DOMAIN records' -> Statuses]
        /\ index' = index /\ owner' = owner
    BY <1>2, <1>4 DEF RegisterFailedServer, Extend, Statuses, RegistryInv, RegistryTypeOK
  <2>2. RegistryRoutes'
    BY <1>1, <2>1 DEF RegistryInv, RegistryRoutes
  <2> QED BY <1>1, <1>2, <2>1, <2>2, Lengths DEF RegistryInv, RegistryTypeOK, Started
<1> QED BY <1>3, <1>4 DEF DiscoverServer, c

LEMMA RegisterInternalSupportToolsStep ==
  ASSUME RegistryInv, RegisterInternalSupportTools PROVE RegistryInv'
BY Lengths DEF RegistryInv, RegistryTypeOK, RegistryRoutes, RegisterInternalSupportTools, Started

LEMMA RegisterServerStep ==
  ASSUME RegistryInv, NEW c \in HotConfigs, RegisterServer(c) PROVE RegistryInv'
<1> DEFINE new == Len(Configured) + hot + 1
<1>1. c \in ServerConfig /\ c.id \in ServerIds
  BY ToolAssumption DEF ToolAssumption, ServerIds
<1>2. /\ new \in 1 .. Len(Configured) + hot' /\ new \notin DOMAIN servers
      /\ hot' \in 0 .. MaxHot /\ Started' /\ discovered' = discovered /\ support' = support
      /\ 1 .. Len(Configured) + hot \subseteq 1 .. Len(Configured) + hot'
  BY Lengths, ToolAssumption
  DEF ToolAssumption, RegistryInv, RegistryTypeOK, RegisterServer, Started
<1>3. /\ servers' \in [DOMAIN servers' -> ServerConfig]
      /\ DOMAIN servers' \subseteq 1 .. Len(Configured) + hot'
      /\ Range(servers) \subseteq Range(servers') /\ c \in Range(servers')
  <2>1. CASE c \in Range(servers)
    BY <2>1, <1>2 DEF RegisterServer, RegistryInv, RegistryTypeOK
  <2>2. CASE c \notin Range(servers)
    <3>1. servers' = Extend(servers, {new}, c)
      BY <2>2 DEF RegisterServer
    <3> HIDE DEF new
    <3>2. /\ DOMAIN servers' = DOMAIN servers \cup {new} /\ servers'[new] = c
          /\ \A i \in DOMAIN servers : servers'[i] = servers[i]
      BY <3>1, <1>2 DEF Extend
    <3>3. servers' \in [DOMAIN servers' -> ServerConfig]
      BY <3>1, <1>1 DEF Extend, RegistryInv, RegistryTypeOK
    <3>4. DOMAIN servers' \subseteq 1 .. Len(Configured) + hot'
      BY <3>2, <1>2 DEF RegistryInv, RegistryTypeOK
    <3> QED BY <3>2, <3>3, <3>4 DEF Range
  <2> QED BY <2>1, <2>2
<1> HIDE DEF new
<1>4. PICK r \in DiscoverResults(c) : RegisterServerTools(c, r[1], r[2])
  BY DEF RegisterServer
<1> QED BY <1>1, <1>2, <1>3, <1>4, RegisterKeeps DEF RegistryInv, RegistryTypeOK

LEMMA UnregisterServerStep ==
  ASSUME RegistryInv, NEW id \in ServerIds, UnregisterServer(id) PROVE RegistryInv'
<1> DEFINE gone == {i \in DOMAIN servers : servers[i].id = id}
           own == {n \in DOMAIN owner : owner[n] = id}
<1>1. /\ servers' = Without(servers, gone) /\ records' = Without(records, {id})
      /\ index' = Without(index, own) /\ owner' = Without(owner, own)
      /\ support' = support /\ discovered' = discovered
  BY DEF UnregisterServer
<1>2. /\ hot' \in 0 .. MaxHot /\ Started'
      /\ 1 .. Len(Configured) + hot \subseteq 1 .. Len(Configured) + hot'
  BY Lengths, ToolAssumption
  DEF ToolAssumption, RegistryInv, RegistryTypeOK, UnregisterServer, Started
<1>3. /\ DOMAIN servers' = DOMAIN servers \ gone /\ DOMAIN records' = DOMAIN records \ {id}
      /\ DOMAIN index' = DOMAIN index \ own /\ DOMAIN owner' = DOMAIN owner \ own
      /\ \A i \in DOMAIN servers' : servers'[i] = servers[i]
      /\ \A n \in DOMAIN index' : index'[n] = index[n]
      /\ \A n \in DOMAIN owner' : owner'[n] = owner[n]
  BY <1>1 DEF Without
<1>4. /\ servers' \in [DOMAIN servers' -> ServerConfig]
      /\ records' \in [DOMAIN records' -> Statuses]
      /\ index' \in [DOMAIN index' -> [server : ServerIds, scopes : SUBSET STRING]]
      /\ owner' \in [DOMAIN owner' -> ServerIds]
  BY <1>1 DEF Without, RegistryInv, RegistryTypeOK
<1>5. RegistryTypeOK'
  BY <1>1, <1>2, <1>3, <1>4 DEF RegistryInv, RegistryTypeOK
<1>6. RegistryRoutes'
  <2>1. DOMAIN index' = DOMAIN owner'
    BY <1>3 DEF RegistryInv, RegistryRoutes
  <2>2. ASSUME NEW n \in DOMAIN owner'
        PROVE  /\ index'[n].server = owner'[n]
               /\ owner'[n] \in DOMAIN records'
               /\ \E d \in Range(servers') :
                    /\ d.id = owner'[n]
                    /\ n \in LiveTools[d.id] \cup d.static
                    /\ d.transport = "stdio"
    <3>1. n \in DOMAIN owner /\ owner[n] # id /\ owner'[n] = owner[n] /\ index'[n] = index[n]
      BY <2>1, <1>3
    <3>2. PICK i \in DOMAIN servers :
            /\ servers[i].id = owner[n]
            /\ n \in LiveTools[servers[i].id] \cup servers[i].static
            /\ servers[i].transport = "stdio"
      BY <3>1 DEF RegistryInv, RegistryRoutes, Range
    <3>3. servers'[i] = servers[i] /\ servers[i] \in Range(servers')
      BY <3>1, <3>2, <1>3 DEF Range
    <3> QED BY <3>1, <3>2, <3>3, <1>3 DEF RegistryInv, RegistryRoutes
  <2> QED BY <2>1, <2>2 DEF RegistryRoutes
<1> QED BY <1>2, <1>5, <1>6 DEF RegistryInv

LEMMA UnregisterInternalStep == ASSUME RegistryInv, UnregisterInternal PROVE RegistryInv'
BY Lengths, ToolAssumption
DEF ToolAssumption, RegistryInv, RegistryTypeOK, RegistryRoutes, UnregisterInternal, Started

LEMMA RegistryNextInv ==
  ASSUME RegistryInv, RegistryNext \/ UNCHANGED registry PROVE RegistryInv'
<1>1. CASE UNCHANGED registry
  BY <1>1 DEF registry, RegistryInv, RegistryTypeOK, RegistryRoutes, Started
<1> QED BY <1>1, DiscoverServerStep, RegisterInternalSupportToolsStep, RegisterServerStep,
           UnregisterServerStep, UnregisterInternalStep DEF RegistryNext

LEMMA RegistryInvariant == TurnSpec => []RegistryInv
<1>1. TurnInit => RegistryInv
  BY RegistryInitInv DEF TurnInit
<1>2. RegistryInv /\ [TurnNext]_agentVars => RegistryInv'
  BY RegistryNextInv DEF TurnNext, agentVars
<1> QED BY <1>1, <1>2, PTL DEF TurnSpec

(* register_server, unregister_server and discover_all: for any servers, any
   answers of theirs and any hot plugging, every tool that is routed has a server
   that is configured, recorded and offered it. *)
THEOREM ToolsAreRouted == TurnSpec => []RegistryRoutes
<1>1. RegistryInv => RegistryRoutes
  BY DEF RegistryInv
<1> QED BY <1>1, RegistryInvariant, PTL

-----------------------------------------------------------------------------
(* The types of a turn *)

(* A prompt is only built after the question was added to the history. *)
AskedInv ==
  /\ pc # "idle" => turn # 0
  /\ pc \in {"speaking", "context"} => history # <<>> /\ Last(history) = Message("user")

TypeInv == TurnTypeOK /\ AskedInv

LEMMA MinOfTwo ==
  ASSUME NEW a \in Int, NEW b \in Int
  PROVE  Min({a, b}) \in {a, b} /\ Min({a, b}) <= a /\ Min({a, b}) <= b
<1>1. \E x \in {a, b} : \A y \in {a, b} : x <= y
  OBVIOUS
<1> QED BY <1>1 DEF Min

LEMMA MaxOfTwo ==
  ASSUME NEW a \in Int, NEW b \in Int
  PROVE  Max({a, b}) \in {a, b} /\ Max({a, b}) >= a /\ Max({a, b}) >= b
<1>1. \E x \in {a, b} : \A y \in {a, b} : x >= y
  OBVIOUS
<1> QED BY <1>1 DEF Max

LEMMA ClipType == ASSUME NEW score \in Int PROVE Clip(score) \in 0 .. 100
<1> DEFINE m == Min({100, score})
<1>1. m \in Int /\ m <= 100
  BY MinOfTwo
<1>2. Clip(score) = Max({0, m})
  BY DEF Clip
<1> HIDE DEF m
<1>3. Max({0, m}) \in {0, m} /\ Max({0, m}) >= 0
  BY <1>1, MaxOfTwo
<1> QED BY <1>1, <1>2, <1>3

LEMMA HallucinationType ==
  ASSUME NEW text, NEW judge \in Int PROVE HallucinationScore(text, judge) \in 0 .. 100
<1>1. Clip(judge) \in 0 .. 100
  BY ClipType
<1> QED BY <1>1 DEF HallucinationScore

LEMMA NoTurnType == NoTurn \in Turns
<1>1. EmptyTrace \in Traces
  BY DEF EmptyTrace, Traces
<1>2. <<>> \in Seq(Prompts)
  BY EmptySeq
<1> QED BY <1>1, <1>2 DEF NoTurn, Turns, Drafts, Answers, NoSignal

LEMMA EmptyDbType == EmptyDb \in Databases
<1>1. <<>> \in Seq(Messages)
  BY EmptySeq
<1> QED BY <1>1 DEF EmptyDb, Databases

(* A message of the turn in progress. *)
LEMMA MessageType ==
  ASSUME turn \in Nat \ {0}, NEW role \in {"user", "assistant", "system"}
  PROVE  Message(role) \in Messages /\ Message(role).turn = turn
BY DEF Message, Messages

LEMMA SaveMessageType ==
  ASSUME turn \in Nat \ {0}, NEW role \in {"user", "assistant"}, NEW d \in Databases
  PROVE  /\ SaveMessage(d, role) \in Databases
         /\ SaveMessage(d, role).rows = Append(d.rows, Message(role))
         /\ SaveMessage(d, role).handoff = d.handoff
<1>1. Message(role) \in Messages /\ d.rows \in Seq(Messages)
  BY MessageType DEF Databases
<1>2. Append(d.rows, Message(role)) \in Seq(Messages)
  BY <1>1, AppendProperties
<1> QED BY <1>2 DEF SaveMessage, Databases

LEMMA StoreEntryType ==
  ASSUME turn \in Nat \ {0}, NEW role \in {"user", "assistant", "system"}, NEW d \in Databases
  PROVE  /\ StoreEntry(d, role) \in Databases
         /\ StoreEntry(d, role).rows = d.rows /\ StoreEntry(d, role).handoff = d.handoff
<1>1. Message(role) \in Messages /\ d.entries \in Seq(Messages)
  BY MessageType DEF Databases
<1>2. Append(d.entries, Message(role)) \in Seq(Messages)
  BY <1>1, AppendProperties
<1> QED BY <1>2 DEF StoreEntry, Databases

LEMMA SummarizedType ==
  ASSUME turn \in Nat \ {0}, NEW d \in Databases
  PROVE  /\ Summarized(d) \in Databases
         /\ Summarized(d).rows = d.rows /\ Summarized(d).handoff = d.handoff
<1> DEFINE entries == d.entries
           turns == {i \in DOMAIN entries : entries[i].role # "system"}
           count == Cardinality(turns)
           latest == SubSeq(entries, Len(entries) - count + 1, Len(entries))
           covers == {e \in Range(latest) : e.role # "system"}
           u == UpsertSummary(d, count, covers)
<1>1. entries \in Seq(Messages) /\ Len(entries) \in Nat /\ DOMAIN entries = 1 .. Len(entries)
  BY LenProperties DEF Databases
<1> HIDE DEF entries
<1>2. count \in Nat /\ count <= Len(entries)
  <2>1. IsFiniteSet(1 .. Len(entries)) /\ Cardinality(1 .. Len(entries)) = Len(entries)
    BY <1>1, FS_Interval
  <2>2. turns \subseteq 1 .. Len(entries)
    BY <1>1
  <2> QED BY <2>1, <2>2, FS_Subset, FS_CardinalityType
<1> HIDE DEF count
<1>3. covers \subseteq Messages
  <2>1. latest \in Seq(Messages)
    BY <1>1, <1>2, SubSeqProperties
  <2> HIDE DEF latest
  <2> QED BY <2>1 DEF Range
<1> HIDE DEF covers
<1>4. u \in Databases /\ u.rows = d.rows /\ u.handoff = d.handoff
  BY <1>2, <1>3 DEF UpsertSummary, Databases
<1> HIDE DEF u
<1>5. Summarized(d) = IF count < SummarizeAfter THEN d ELSE StoreEntry(u, "system")
  BY DEF Summarized, count, turns, entries, u, covers, latest
<1> QED BY <1>4, <1>5, StoreEntryType

LEMMA StoreTurnType ==
  ASSUME turn \in Nat \ {0}, NEW role \in {"user", "assistant"}, NEW d \in Databases
  PROVE  /\ StoreTurn(d, role) \in Databases
         /\ StoreTurn(d, role).rows = d.rows /\ StoreTurn(d, role).handoff = d.handoff
BY StoreEntryType, SummarizedType DEF StoreTurn

LEMMA HandoffType ==
  ASSUME NEW d \in Databases
  PROVE  /\ InitiateHandoff(d) \in Databases /\ InitiateHandoff(d).handoff
         /\ InitiateHandoff(d).rows = d.rows
BY DEF InitiateHandoff, Databases

(* A handoff that is cut short leaves the transcript alone. *)
LEMMA CutShortType ==
  ASSUME NEW d \in Databases, NEW e \in CutShort(d)
  PROVE  e \in Databases /\ e.rows = d.rows
<1>1. [d EXCEPT !.handoff = TRUE] \in Databases /\ [d EXCEPT !.handoff = TRUE].rows = d.rows
  BY DEF Databases
<1> QED BY <1>1, HandoffType DEF CutShort

LEMMA TraceTypes ==
  ASSUME NEW t \in Traces, NEW tool, NEW result
  PROVE  TraceTool(t, tool, result) \in Traces
<1> DEFINE critical == t.critical \/ IsCritical(StepName(tool))
<1>1. critical \in BOOLEAN /\ t.ok + 1 \in Nat /\ t.bad + 1 \in Nat
  BY DEF Traces
<1>2. TraceTool(t, tool, result) = IF result = "success" THEN [t EXCEPT !.ok = t.ok + 1]
                                   ELSE [t EXCEPT !.bad = t.bad + 1, !.critical = critical]
  BY DEF TraceTool
<1> HIDE DEF critical
<1> QED BY <1>1, <1>2 DEF Traces

LEMMA TraceCriticType ==
  ASSUME NEW t \in Traces, NEW result \in {"completed", "revised"}
  PROVE  TraceCritic(t, result) \in Traces
BY DEF Traces, TraceCritic

LEMMA GeneratedType ==
  ASSUME NEW c \in Turns, cur = c
  PROVE  Generated \in Turns /\ Generated.blocked = cur.blocked /\ Generated.answer = cur.answer
         /\ Generated.prompt = <<>> /\ Generated.phrases = cur.phrases
<1>1. EmptyTrace \in Traces
  BY DEF EmptyTrace, Traces
<1>2. <<>> \in Seq(Prompts)
  BY EmptySeq
<1> QED BY ZenonT(30), <1>1, <1>2 DEF Generated, Turns, Drafts

(* The messages of a prompt that are not part of the conversation. *)
SystemMessages == [turn : {0}, role : {"prompt", "summary", "memory", "knowledge"}]

(* The question is last, and what is no part of the conversation comes first. *)
WellFormed(prompt) ==
  /\ Last(prompt) = Message("user")
  /\ \A i, j \in DOMAIN prompt : IsSystem(prompt[j]) /\ ~IsSystem(prompt[i]) => j < i

(* The first s messages of p, and no others, are of the system. *)
Begins(p, s) ==
  /\ p \in Seq(Prompts) /\ s \in 0 .. Len(p)
  /\ \A i \in 1 .. Len(p) : IsSystem(p[i]) <=> i <= s

LEMMA Kinds ==
  /\ \A m \in SystemMessages : m \in Prompts /\ IsSystem(m)
  /\ \A m \in Messages : m \in Prompts /\ ~IsSystem(m)
  /\ \A kind \in {"prompt", "summary", "memory", "knowledge"} : System(kind) \in SystemMessages
BY DEF SystemMessages, Messages, Prompts, IsSystem, System

LEMMA JoinBegins ==
  ASSUME NEW a \in Seq(SystemMessages), NEW b \in Seq(Messages), Len(b) > 0
  PROVE  Begins(a \o b, Len(a)) /\ Len(a \o b) = Len(a) + Len(b) /\ Last(a \o b) = Last(b)
<1> DEFINE p == a \o b
<1>1. a \in Seq(Prompts) /\ b \in Seq(Prompts) /\ Len(a) \in Nat /\ Len(b) \in Nat
  BY Kinds, SeqMonotonic, LenProperties
<1>2. p \in Seq(Prompts) /\ Len(p) = Len(a) + Len(b)
  BY <1>1, ConcatProperties
<1>3. ASSUME NEW i \in 1 .. Len(p)
      PROVE  p[i] = IF i <= Len(a) THEN a[i] ELSE b[i - Len(a)]
  BY <1>1, <1>2, ConcatProperties
<1> HIDE DEF p
<1>4. ASSUME NEW i \in 1 .. Len(p) PROVE IsSystem(p[i]) <=> i <= Len(a)
  <2>1. CASE i <= Len(a)
    <3>1. i \in 1 .. Len(a)
      BY <2>1, <1>1
    <3>2. a[i] \in SystemMessages
      BY <3>1, ElementOfSeq
    <3> QED BY <2>1, <3>2, <1>3, Kinds
  <2>2. CASE ~(i <= Len(a))
    <3>1. i - Len(a) \in 1 .. Len(b)
      BY <2>2, <1>1, <1>2
    <3>2. b[i - Len(a)] \in Messages
      BY <3>1, ElementOfSeq
    <3> QED BY <2>2, <3>2, <1>3, Kinds
  <2> QED BY <2>1, <2>2
<1>5. Last(p) = Last(b)
  BY <1>1, <1>2, <1>3 DEF Last
<1> QED BY <1>1, <1>2, <1>4, <1>5 DEF Begins, p

(* Where enrich_messages inserts. *)
LEMMA FirstOfConversation ==
  ASSUME NEW p, NEW s, Begins(p, s), s < Len(p)
  PROVE  SelectInSeq(p, LAMBDA m : ~IsSystem(m)) = s + 1
<1> DEFINE at == {i \in 1 .. Len(p) : ~IsSystem(p[i])}
<1>1. Len(p) \in Nat /\ s \in Nat
  BY LenProperties DEF Begins
<1>2. s + 1 \in at /\ \A i \in at : s + 1 <= i /\ i \in Int
  BY <1>1 DEF Begins
<1>3. SelectInSeq(p, LAMBDA m : ~IsSystem(m)) = IF at # {} THEN Min(at) ELSE 0
  BY DEF SelectInSeq
<1> HIDE DEF at
<1>4. Min(at) \in at /\ \A i \in at : Min(at) <= i
  BY <1>2 DEF Min
<1> QED BY <1>1, <1>2, <1>3, <1>4

LEMMA InsertBegins ==
  ASSUME NEW p, NEW s, Begins(p, s), s < Len(p), NEW m \in SystemMessages
  PROVE  Begins(InsertAt(p, s + 1, m), s + 1) /\ Last(InsertAt(p, s + 1, m)) = Last(p)
         /\ Len(InsertAt(p, s + 1, m)) = Len(p) + 1
<1> DEFINE x == SubSeq(p, 1, s)
           y == SubSeq(p, s + 1, Len(p))
           u == x \o <<m>>
           z == u \o y
<1>1. p \in Seq(Prompts) /\ Len(p) \in Nat /\ s \in Nat /\ <<m>> \in Seq(Prompts) /\ Len(<<m>>) = 1
  BY LenProperties, Kinds DEF Begins
<1>2. x \in Seq(Prompts) /\ Len(x) = s /\ \A i \in 1 .. s : x[i] = p[i]
  BY <1>1, SubSeqProperties
<1>3. y \in Seq(Prompts) /\ Len(y) = Len(p) - s /\ \A i \in 1 .. Len(p) - s : y[i] = p[s + i]
  BY <1>1, SubSeqProperties
<1> HIDE DEF x, y
<1>4. u \in Seq(Prompts) /\ Len(u) = s + 1 /\ u[s + 1] = m /\ \A i \in 1 .. s : u[i] = p[i]
  BY <1>1, <1>2, ConcatProperties
<1> HIDE DEF u
<1>5. /\ z \in Seq(Prompts) /\ Len(z) = Len(p) + 1
      /\ \A i \in 1 .. Len(z) : z[i] = IF i <= s + 1 THEN u[i] ELSE y[i - (s + 1)]
  <2>1. /\ z \in Seq(Prompts) /\ Len(z) = Len(u) + Len(y)
        /\ \A i \in 1 .. Len(u) + Len(y) : z[i] = IF i <= Len(u) THEN u[i] ELSE y[i - Len(u)]
    BY <1>3, <1>4, ConcatProperties
  <2>2. Len(u) + Len(y) = Len(p) + 1 /\ Len(u) = s + 1
    BY <1>1, <1>3, <1>4
  <2> HIDE DEF z
  <2> QED BY <2>1, <2>2
<1> HIDE DEF z
<1>6. ASSUME NEW i \in 1 .. Len(z) PROVE IsSystem(z[i]) <=> i <= s + 1
  <2>1. CASE i <= s
    <3>1. i \in 1 .. s /\ i \in 1 .. Len(p) /\ i <= s + 1
      BY <2>1, <1>1
    <3>2. z[i] = p[i]
      BY <3>1, <1>4, <1>5
    <3>3. IsSystem(p[i])
      BY <2>1, <3>1 DEF Begins
    <3> QED BY <3>1, <3>2, <3>3
  <2>2. CASE i = s + 1
    BY <2>2, <1>1, <1>4, <1>5, Kinds
  <2>3. CASE i > s + 1
    <3>1. i - 1 \in 1 .. Len(p) /\ i - (s + 1) \in 1 .. Len(p) - s /\ s + (i - (s + 1)) = i - 1
      <4>1. i \in Int /\ i <= Len(p) + 1
        BY <1>1, <1>5
      <4> QED BY <2>3, <1>1, <4>1
    <3>2. z[i] = y[i - (s + 1)]
      BY <2>3, <1>1, <1>5
    <3>3. y[i - (s + 1)] = p[i - 1]
      BY <3>1, <1>3
    <3> QED BY <2>3, <3>1, <3>2, <3>3, <1>1 DEF Begins
  <2> QED BY <2>1, <2>2, <2>3, <1>1, <1>5
<1>7. z[Len(z)] = p[Len(p)]
  <2>1. Len(p) - s \in 1 .. Len(p) - s /\ Len(z) - (s + 1) = Len(p) - s /\ s + (Len(p) - s) = Len(p)
    BY <1>1, <1>5
  <2>2. z[Len(z)] = y[Len(z) - (s + 1)]
    BY <1>1, <1>5
  <2>3. y[Len(p) - s] = p[s + (Len(p) - s)]
    BY <2>1, <1>3
  <2> QED BY <2>1, <2>2, <2>3
<1>8. InsertAt(p, s + 1, m) = z
  <2>1. (s + 1) - 1 = s
    BY <1>1
  <2> QED BY <2>1 DEF InsertAt, z, u, x, y
<1> QED BY <1>1, <1>5, <1>6, <1>7, <1>8 DEF Begins, Last

LEMMA BeginsWell ==
  ASSUME NEW p, NEW s, Begins(p, s), Len(p) > 0, Last(p) = Message("user")
  PROVE  p \in Seq(Prompts) /\ p # <<>> /\ WellFormed(p)
<1>1. p \in Seq(Prompts) /\ Len(p) \in Nat /\ DOMAIN p = 1 .. Len(p) /\ s \in Nat
  BY LenProperties DEF Begins
<1>2. p # <<>>
  BY EmptySeq
<1> QED BY <1>1, <1>2 DEF Begins, WellFormed

(* The tail of the history that ContextBuilder.build takes ends like it. *)
LEMMA TailEnds ==
  ASSUME NEW h \in Seq(Messages), h # <<>>
  PROVE  Tail_(h) \in Seq(Messages) /\ Len(Tail_(h)) > 0 /\ Last(Tail_(h)) = Last(h)
<1> DEFINE n == Len(h)
           from == Max({1, n - MaxRecent + 1})
<1>1. n \in Nat \ {0}
  BY LenProperties, EmptySeq
<1>2. MaxRecent \in Nat \ {0}
  BY TurnAssumption DEF TurnAssumption
<1>3. from \in 1 .. n
  <2> DEFINE e == n - MaxRecent + 1
  <2>1. e \in Int /\ e <= n
    BY <1>1, <1>2
  <2> HIDE DEF e
  <2>2. \A x \in Int : Max({x, e}) \in {x, e} /\ Max({x, e}) >= x
    BY <2>1, MaxOfTwo
  <2>3. Max({1, e}) \in 1 .. n
    BY <1>1, <2>1, <2>2
  <2> QED BY <2>3 DEF e
<1>4. Tail_(h) = SubSeq(h, from, n)
  BY DEF Tail_
<1> HIDE DEF from
<1>5. /\ SubSeq(h, from, n) \in Seq(Messages) /\ Len(SubSeq(h, from, n)) = n - from + 1
      /\ \A i \in 1 .. n - from + 1 : SubSeq(h, from, n)[i] = h[from + i - 1]
  BY <1>1, <1>3, SubSeqProperties
<1>6. n - from + 1 \in 1 .. n - from + 1 /\ from + (n - from + 1) - 1 = n
  BY <1>1, <1>3
<1> QED BY <1>3, <1>4, <1>5, <1>6 DEF Last

LEMMA ContextType == RetrieveContext(tx) \in Seq(SystemMessages)
<1>1. /\ <<>> \in Seq(SystemMessages)
      /\ <<System("summary")>> \in Seq(SystemMessages)
      /\ <<System("memory")>> \in Seq(SystemMessages)
  BY Kinds, EmptySeq
<1> QED BY <1>1, ConcatProperties DEF RetrieveContext, SearchSimilar

LEMMA PromptShape ==
  ASSUME history \in Seq(Messages), history # <<>>, Last(history) = Message("user"),
         NEW found \in BOOLEAN
  PROVE  LET p == EnrichMessages(BuildMessages, found)
         IN p \in Seq(Prompts) /\ p # <<>> /\ WellFormed(p)
<1> DEFINE head == <<System("prompt")>> \o RetrieveContext(tx)
           tail == Tail_(history)
           p == head \o tail
           s == Len(head)
           z == InsertAt(p, s + 1, System("knowledge"))
<1>1. head \in Seq(SystemMessages)
  BY ContextType, Kinds, ConcatProperties
<1>2. tail \in Seq(Messages) /\ Len(tail) > 0 /\ Last(tail) = Message("user")
  BY TailEnds
<1>3. BuildMessages = p
  BY DEF BuildMessages
<1>4. s \in Nat /\ Len(tail) \in Nat
  BY <1>1, <1>2, LenProperties
<1> HIDE DEF head, tail
<1>5. Begins(p, s) /\ Len(p) = s + Len(tail) /\ Last(p) = Message("user")
  BY <1>1, <1>2, JoinBegins
<1> HIDE DEF p, s
<1>6. s < Len(p) /\ Len(p) > 0
  BY <1>2, <1>4, <1>5
<1>7. EnrichMessages(p, found) = IF found THEN z ELSE p
  BY <1>5, <1>6, FirstOfConversation DEF EnrichMessages
<1>8. Begins(z, s + 1) /\ Last(z) = Message("user") /\ Len(z) > 0
  BY <1>4, <1>5, <1>6, Kinds, InsertBegins
<1> HIDE DEF z
<1> QED BY <1>3, <1>5, <1>6, <1>7, <1>8, BeginsWell

-----------------------------------------------------------------------------
LEMMA TypeFacts ==
  ASSUME TypeInv
  PROVE  /\ cur \in Turns /\ tx \in Databases /\ db \in Databases /\ trace \in Traces
         /\ history \in Seq(Messages) /\ turn \in Nat /\ pc \in Labels
         /\ pc # "idle" => turn \in Nat \ {0}
BY DEF TypeInv, TurnTypeOK, AskedInv

LEMMA InitTypes == TurnInit => TypeInv
<1> SUFFICES ASSUME TurnInit PROVE TypeInv
  OBVIOUS
<1>1. EmptyTrace \in Traces /\ <<>> \in Seq(Messages)
  BY EmptySeq DEF EmptyTrace, Traces
<1>2. mode \in {"single", "mock", "multi_agent"} /\ config \in Configs
  BY DEF TurnInit, Bootstrap, CreateResponseGenerator
<1>3. redis \in [phase : {"listening", "processing", "speaking", "handoff_pending"},
                 failures : 0 .. MaxFailures]
  BY TurnAssumption DEF TurnAssumption, TurnInit
<1> QED BY <1>1, <1>2, <1>3, NoTurnType, EmptyDbType
        DEF TurnInit, TypeInv, TurnTypeOK, AskedInv, Labels

LEMMA UtterTypes == ASSUME TypeInv, Utter PROVE TypeInv'
<1>1. PICK phrases \in Transcripts, stt \in Confidences :
        cur' = [NoTurn EXCEPT !.phrases = phrases, !.stt = stt]
  BY DEF Utter
<1>2. cur' \in Turns
  BY <1>1, NoTurnType DEF Turns
<1>3. turn' \in Nat /\ turn' # 0 /\ pc' = "begin"
  BY TypeFacts DEF Utter, Goto
<1>4. UNCHANGED <<mode, config, history, trace, tx, db, broken, redis, jobs, died>> /\ irq' = FALSE
  BY DEF Utter
<1> QED BY <1>2, <1>3, <1>4 DEF TypeInv, TurnTypeOK, AskedInv, Labels

LEMMA SaveUserMessageTypes == ASSUME TypeInv, SaveUserMessage PROVE TypeInv'
<1>1. tx' \in Databases
  BY TypeFacts, SaveMessageType DEF SaveUserMessage
<1> QED BY <1>1 DEF SaveUserMessage, Goto, TypeInv, TurnTypeOK, AskedInv, Labels

LEMMA RememberUserTypes == ASSUME TypeInv, RememberUser PROVE TypeInv'
<1>1. tx' \in Databases
  BY TypeFacts, StoreTurnType DEF RememberUser
<1>2. Message("user") \in Messages
  BY TypeFacts, MessageType DEF RememberUser
<1>3. history' \in Seq(Messages) /\ history' # <<>> /\ Last(history') = Message("user")
  <2>1. history' = Append(history, Message("user"))
    BY DEF RememberUser
  <2>2. /\ history' \in Seq(Messages) /\ Len(history') = Len(history) + 1
        /\ history'[Len(history) + 1] = Message("user")
    BY <1>2, <2>1, TypeFacts, AppendProperties
  <2>3. Len(history) \in Nat
    BY TypeFacts, LenProperties
  <2> QED BY <2>2, <2>3, EmptySeq DEF Last
<1>4. Message("user")' = Message("user")
  BY DEF RememberUser, Message
<1> QED BY <1>1, <1>3, <1>4 DEF RememberUser, Goto, TypeInv, TurnTypeOK, AskedInv, Labels

LEMMA StartSpeakingTypes == ASSUME TypeInv, StartSpeaking PROVE TypeInv'
<1>1. Message("user")' = Message("user")
  BY DEF StartSpeaking, Message
<1> QED BY <1>1 DEF StartSpeaking, Goto, TypeInv, TurnTypeOK, AskedInv, Labels

LEMMA BuildContextTypes == ASSUME TypeInv, BuildContext PROVE TypeInv'
<1>1. PICK found \in BOOLEAN : cur' = [cur EXCEPT !.prompt = EnrichMessages(BuildMessages, found)]
  BY DEF BuildContext
<1>2. EnrichMessages(BuildMessages, found) \in Seq(Prompts)
  BY PromptShape DEF BuildContext, TypeInv, TurnTypeOK, AskedInv
<1>3. cur' \in Turns
  BY <1>1, <1>2, TypeFacts DEF Turns
<1> QED BY <1>3 DEF BuildContext, Goto, TypeInv, TurnTypeOK, AskedInv, Labels

LEMMA SingleAnswerTypes == ASSUME TypeInv, SingleAnswer PROVE TypeInv'
<1>1. cur' \in Turns
  <2>1. <<>> \in Seq(Prompts) /\ ModelAnswers \subseteq Answers
    BY EmptySeq, TurnAssumption DEF TurnAssumption, Answers
  <2> QED BY ZenonT(30), <2>1, TypeFacts DEF SingleAnswer, Turns
<1> QED BY <1>1 DEF SingleAnswer, Goto, TypeInv, TurnTypeOK, AskedInv, Labels

LEMMA PlanAndCheckTypes == ASSUME TypeInv, PlanAndCheck PROVE TypeInv'
<1>1. cur' \in Turns
  <2>1. <<>> \in Seq(Prompts)
    BY EmptySeq
  <2>2. \/ cur' = [cur EXCEPT !.rounds = 0, !.prompt = <<>>]
        \/ cur' = [cur EXCEPT !.blocked = TRUE, !.prompt = <<>>]
    BY DEF PlanAndCheck
  <2>3. CASE cur' = [cur EXCEPT !.rounds = 0, !.prompt = <<>>]
    BY <2>1, <2>3, TypeFacts DEF Turns
  <2>4. CASE cur' = [cur EXCEPT !.blocked = TRUE, !.prompt = <<>>]
    BY <2>1, <2>4, TypeFacts DEF Turns
  <2> QED BY <2>2, <2>3, <2>4
<1> QED BY <1>1 DEF PlanAndCheck, Goto, TypeInv, TurnTypeOK, AskedInv, Labels

(* ToolRouter.execute leaves the transcript alone and never takes a handoff back. *)
LEMMA ExecuteToolKeeps ==
  ASSUME TypeInv, NEW name, NEW result, ExecuteTool(name, result)
  PROVE  /\ tx' \in Databases /\ tx'.rows = tx.rows
         /\ redis' \in [phase : {"listening", "processing", "speaking", "handoff_pending"},
                        failures : 0 .. MaxFailures]
<1>1. tx' \in Databases /\ tx'.rows = tx.rows
  <2>1. tx' \in {tx, InitiateHandoff(tx)} \/ tx' \in CutShort(tx)
    BY DEF ExecuteTool
  <2> QED BY <2>1, TypeFacts, HandoffType, CutShortType
<1>2. redis' \in [phase : {"listening", "processing", "speaking", "handoff_pending"},
                  failures : 0 .. MaxFailures]
  BY DEF ExecuteTool, PhaseAfterHandoff, TypeInv, TurnTypeOK
<1> QED BY <1>1, <1>2

(* What the executor leaves of the turn. *)
LEMMA CallToolTypes == ASSUME TypeInv, CallTool PROVE TypeInv'
<1>1. PICK name \in ToolNames, result \in {"success", "error", "timeout"} :
        /\ ExecuteTool(name, result)
        /\ LET called == [cur EXCEPT !.steps = TraceTool(@, name, result)]
           IN \/ cur' = called /\ pc' = "executor"
              \/ cur' = [called EXCEPT !.rounds = @ + 1] /\ pc' = "executor"
              \/ /\ \E draft \in ModelAnswers : cur' = [called EXCEPT !.draft = draft, !.rounds = 0]
                 /\ pc' = "critic"
  BY ZenonT(30) DEF CallTool, Goto
<1>2. cur' \in Turns
  <2> DEFINE called == [cur EXCEPT !.steps = TraceTool(cur.steps, name, result)]
  <2>1. cur.steps \in Traces
    BY TypeFacts DEF Turns
  <2>2. called \in Turns
    BY <2>1, TypeFacts, TraceTypes DEF Turns
  <2>3. \/ cur' = called
        \/ cur' = [called EXCEPT !.rounds = @ + 1]
        \/ \E draft \in ModelAnswers : cur' = [called EXCEPT !.draft = draft, !.rounds = 0]
    BY <1>1
  <2> HIDE DEF called
  <2>4. CASE cur' = [called EXCEPT !.rounds = @ + 1]
    <3>1. called.rounds + 1 \in Nat
      BY <2>2 DEF Turns
    <3> QED BY <2>2, <2>4, <3>1 DEF Turns
  <2>5. ASSUME NEW draft \in ModelAnswers, cur' = [called EXCEPT !.draft = draft, !.rounds = 0]
        PROVE  cur' \in Turns
    <3>1. draft \in Drafts
      BY TurnAssumption DEF TurnAssumption
    <3> QED BY <2>2, <2>5, <3>1 DEF Turns
  <2> QED BY <2>2, <2>3, <2>4, <2>5
<1>3. pc' \in {"executor", "critic"}
  BY <1>1
<1> QED BY <1>1, <1>2, <1>3, ExecuteToolKeeps
        DEF CallTool, Goto, TypeInv, TurnTypeOK, AskedInv, Labels

LEMMA DraftAnswerTypes == ASSUME TypeInv, DraftAnswer PROVE TypeInv'
<1>1. cur' \in Turns
  <2>1. PICK draft \in ModelAnswers : cur' = [cur EXCEPT !.draft = draft, !.rounds = 0]
    BY DEF DraftAnswer
  <2>2. draft \in Drafts
    BY TurnAssumption DEF TurnAssumption
  <2> QED BY <2>1, <2>2, TypeFacts DEF Turns
<1> QED BY <1>1 DEF DraftAnswer, Goto, TypeInv, TurnTypeOK, AskedInv, Labels

LEMMA MockExecutorTypes == ASSUME TypeInv, MockExecutor PROVE TypeInv'
<1>1. PICK draft \in ModelAnswers \ {"none"} :
        LET drafted == [cur EXCEPT !.draft = draft]
            lookup == "knowledge_base_lookup"
        IN \/ \E result \in {"success", "error", "timeout"} :
                /\ ExecuteTool(lookup, result)
                /\ cur' = [drafted EXCEPT !.steps = TraceTool(@, lookup, result)]
           \/ cur' = drafted /\ UNCHANGED <<tx, redis>>
  BY DEF MockExecutor
<1> DEFINE drafted == [cur EXCEPT !.draft = draft]
<1>2. drafted \in Turns /\ drafted.steps \in Traces
  BY TypeFacts, TurnAssumption DEF TurnAssumption, Turns
<1> HIDE DEF drafted
<1>3. CASE cur' = drafted /\ UNCHANGED <<tx, redis>>
  BY <1>2, <1>3 DEF MockExecutor, Goto, TypeInv, TurnTypeOK, AskedInv, Labels
<1>4. ASSUME NEW result \in {"success", "error", "timeout"},
             ExecuteTool("knowledge_base_lookup", result),
             cur' = [drafted EXCEPT !.steps = TraceTool(@, "knowledge_base_lookup", result)]
      PROVE  TypeInv'
  <2>1. cur' \in Turns
    <3>1. TraceTool(drafted.steps, "knowledge_base_lookup", result) \in Traces
      BY <1>2, TraceTypes
    <3> QED BY <1>2, <1>4, <3>1 DEF Turns
  <2> QED BY <1>4, <2>1, ExecuteToolKeeps
          DEF MockExecutor, Goto, TypeInv, TurnTypeOK, AskedInv, Labels
<1> QED BY <1>1, <1>3, <1>4 DEF drafted

LEMMA CriticNodeTypes == ASSUME TypeInv, CriticNode PROVE TypeInv'
<1>1. PICK approved \in BOOLEAN :
        /\ cur' = [cur EXCEPT !.iteration = NextIteration(approved),
                   !.steps = TraceCritic(@, IF approved THEN "completed" ELSE "revised")]
        /\ pc' \in {"coordinator", "planner"}
  BY DEF CriticNode, Goto
<1>2. NextIteration(approved) \in Nat /\ cur.steps \in Traces
  BY TypeFacts DEF NextIteration, Turns
<1>3. cur' \in Turns
  <2> DEFINE steps == TraceCritic(cur.steps, IF approved THEN "completed" ELSE "revised")
             iteration == NextIteration(approved)
  <2>1. steps \in Traces
    BY <1>2, TraceCriticType
  <2>2. cur' = [cur EXCEPT !.iteration = iteration, !.steps = steps]
    BY <1>1
  <2> HIDE DEF steps, iteration
  <2>3. iteration \in Nat
    BY <1>2 DEF iteration
  <2> QED BY ZenonT(30), <2>1, <2>2, <2>3, TypeFacts DEF Turns
<1> QED BY <1>1, <1>3 DEF CriticNode, Goto, TypeInv, TurnTypeOK, AskedInv, Labels

LEMMA CoordinatorNodeTypes == ASSUME TypeInv, CoordinatorNode PROVE TypeInv'
<1>1. FinalResponse \in Answers
  BY TypeFacts DEF FinalResponse, Turns, Answers
<1>2. cur' \in Turns /\ trace' \in Traces
  BY ZenonT(30), <1>1, TypeFacts, GeneratedType DEF CoordinatorNode, Turns
<1> QED BY <1>2 DEF CoordinatorNode, Goto, TypeInv, TurnTypeOK, AskedInv, Labels

LEMMA GenerationFailsTypes == ASSUME TypeInv, GenerationFails PROVE TypeInv'
<1>1. cur' \in Turns
  BY ZenonT(30), TypeFacts, GeneratedType DEF GenerationFails, Turns
<1> QED BY <1>1 DEF GenerationFails, Goto, TypeInv, TurnTypeOK, AskedInv, Labels

LEMMA SpeakAllTypes == ASSUME TypeInv, SpeakAll PROVE TypeInv'
<1>1. PICK e2e \in LatencySamples :
        cur' = [cur EXCEPT !.text = cur.answer,
                           !.e2e = IF cur.answer = "none" THEN NoSignal ELSE e2e]
  BY DEF SpeakAll
<1>2. cur' \in Turns
  <2> DEFINE e == IF cur.answer = "none" THEN NoSignal ELSE e2e
  <2>1. e \in LatencySamples \cup {NoSignal} /\ cur.answer \in Answers
    BY TypeFacts DEF Turns
  <2>2. cur' = [cur EXCEPT !.text = cur.answer, !.e2e = e]
    BY <1>1
  <2> HIDE DEF e
  <2> QED BY <2>1, <2>2, TypeFacts DEF Turns
<1> QED BY <1>2 DEF SpeakAll, Goto, TypeInv, TurnTypeOK, AskedInv, Labels

LEMMA SpeakInterruptedTypes == ASSUME TypeInv, SpeakInterrupted PROVE TypeInv'
<1>1. PICK text \in {"none", "plain", cur.answer} :
        cur' = [cur EXCEPT !.text = text, !.interrupted = TRUE]
  BY DEF SpeakInterrupted
<1>2. text \in Answers
  BY TypeFacts DEF Turns, Answers, Drafts
<1>3. cur' \in Turns
  BY <1>1, <1>2, TypeFacts DEF Turns
<1> QED BY <1>3 DEF SpeakInterrupted, Goto, TypeInv, TurnTypeOK, AskedInv, Labels

LEMMA SpeakFailsTypes == ASSUME TypeInv, SpeakFails PROVE TypeInv'
<1>1. PICK text \in {"plain", cur.answer} : cur' = [cur EXCEPT !.text = text]
  BY DEF SpeakFails
<1>2. text \in Answers
  BY TypeFacts DEF Turns, Answers, Drafts
<1>3. cur' \in Turns
  BY <1>1, <1>2, TypeFacts DEF Turns
<1> QED BY <1>3 DEF SpeakFails, Goto, TypeInv, TurnTypeOK, AskedInv, Labels

LEMMA InterruptTypes == ASSUME TypeInv, Interrupt PROVE TypeInv'
BY DEF Interrupt, TypeInv, TurnTypeOK, AskedInv, Labels

(* The answer, if anything was said, ends the history and the saved messages. *)
LEMMA RecordAnswerTypes == ASSUME TypeInv, RecordAnswer PROVE TypeInv'
<1>1. tx' \in Databases
  BY TypeFacts, SaveMessageType DEF RecordAnswer
<1>2. Message("assistant") \in Messages
  BY TypeFacts, MessageType DEF RecordAnswer
<1>3. history' \in Seq(Messages)
  BY <1>2, TypeFacts, AppendProperties DEF RecordAnswer
<1> QED BY <1>1, <1>3 DEF RecordAnswer, Goto, TypeInv, TurnTypeOK, AskedInv, Labels

LEMMA StoreAnswerTypes == ASSUME TypeInv, StoreAnswer PROVE TypeInv'
<1>1. tx' \in Databases
  BY TypeFacts, StoreTurnType DEF StoreAnswer
<1> QED BY <1>1 DEF StoreAnswer, Goto, TypeInv, TurnTypeOK, AskedInv, Labels

LEMMA SaveRunType ==
  ASSUME NEW d \in Databases, NEW judge
  PROVE  /\ SaveRun(d, judge) \in Databases
         /\ SaveRun(d, judge).rows = d.rows /\ SaveRun(d, judge).handoff = d.handoff
<1>1. OverallStatus(Scores(judge)) \in {"none", "passed", "warning", "failed"}
  BY DEF OverallStatus
<1> QED BY <1>1 DEF SaveRun, Databases

LEMMA EvaluateTurnTypes == ASSUME TypeInv, EvaluateTurn PROVE TypeInv'
<1>1. PICK judge \in Judgements :
        /\ tx' = SaveRun(tx, judge)
        /\ cur' = [cur EXCEPT !.hallucination = HallucinationScore(cur.text, judge),
                              !.e2e = NoSignal, !.answer = "none", !.blocked = FALSE]
  BY DEF EvaluateTurn
<1>2. tx' \in Databases
  BY <1>1, TypeFacts, SaveRunType
<1>3. HallucinationScore(cur.text, judge) \in 0 .. 100
  BY TurnAssumption, HallucinationType DEF TurnAssumption
<1>4. cur' \in Turns
  <2> DEFINE h == HallucinationScore(cur.text, judge)
  <2>1. h \in 0 .. 100 \cup {NoSignal} /\ "none" \in Answers
    BY <1>3 DEF Answers, Drafts
  <2>2. cur' = [cur EXCEPT !.hallucination = h, !.e2e = NoSignal, !.answer = "none",
                           !.blocked = FALSE]
    BY <1>1
  <2> HIDE DEF h
  <2> QED BY <2>1, <2>2, TypeFacts DEF Turns
<1> QED BY <1>2, <1>4 DEF EvaluateTurn, Goto, TypeInv, TurnTypeOK, AskedInv, Labels

LEMMA TrackedFailuresType == ASSUME TypeInv PROVE TrackedFailures \in 0 .. MaxFailures
<1> DEFINE n == redis.failures + trace.bad
<1>1. trace.bad \in Nat /\ redis.failures \in 0 .. MaxFailures /\ MaxFailures \in Nat
  BY TypeFacts, TurnAssumption DEF TurnAssumption, TypeInv, TurnTypeOK, Traces
<1>2. n \in Nat /\ n \in Int /\ MaxFailures \in Int
  BY <1>1
<1>3. TrackedFailures = IF trace.bad > 0 THEN Min({n, MaxFailures}) ELSE 0
  BY DEF TrackedFailures
<1> HIDE DEF n
<1>4. Min({n, MaxFailures}) \in {n, MaxFailures} /\ Min({n, MaxFailures}) <= MaxFailures
  BY <1>1, <1>2, MinOfTwo
<1> QED BY <1>1, <1>2, <1>3, <1>4

LEMMA EscalateTypes == ASSUME TypeInv, Escalate PROVE TypeInv'
<1> DEFINE escalate == Decision # "none"
<1>1. /\ redis' = [phase |-> IF escalate THEN PhaseAfterHandoff(redis.phase) ELSE redis.phase,
                   failures |-> TrackedFailures]
      /\ tx' = IF escalate /\ ~tx.handoff THEN InitiateHandoff(tx) ELSE tx
      /\ cur' = [cur EXCEPT !.escalated = escalate, !.hallucination = NoSignal]
  BY DEF Escalate
<1>2. escalate \in BOOLEAN
  OBVIOUS
<1> HIDE DEF escalate
<1>3. redis' \in [phase : {"listening", "processing", "speaking", "handoff_pending"},
                  failures : 0 .. MaxFailures]
  <2>1. redis.phase \in {"listening", "processing", "speaking", "handoff_pending"}
    BY DEF TypeInv, TurnTypeOK
  <2> QED BY <2>1, <1>1, TrackedFailuresType DEF PhaseAfterHandoff
<1>4. tx' \in Databases
  BY <1>1, TypeFacts, HandoffType
<1>5. cur' \in Turns
  BY ZenonT(30), <1>1, <1>2, TypeFacts DEF Turns
<1> QED BY <1>3, <1>4, <1>5 DEF Escalate, Goto, TypeInv, TurnTypeOK, AskedInv, Labels

LEMMA OutcomeType ==
  ASSUME turn \in Nat, NEW d \in Databases, NEW c \in Turns
  PROVE  LET o == DeriveOutcome(c.text, c.interrupted, c.escalated)
             u == UpsertSessionOutcome(d, o)
         IN u \in Databases /\ u.rows = d.rows /\ u.handoff = d.handoff
<1> DEFINE o == DeriveOutcome(c.text, c.interrupted, c.escalated)
<1>1. o.escalation \in BOOLEAN /\ o.success \in BOOLEAN
  BY DEF DeriveOutcome, DeriveEscalation, DeriveTaskSuccess
<1> HIDE DEF o
<1>2. /\ UpsertSessionOutcome(d, o) \in Databases
      /\ UpsertSessionOutcome(d, o).rows = d.rows /\ UpsertSessionOutcome(d, o).handoff = d.handoff
  BY <1>1 DEF UpsertSessionOutcome, Databases
<1> QED BY <1>2 DEF o

LEMMA RecordOutcomeTypes == ASSUME TypeInv, RecordOutcome PROVE TypeInv'
<1>1. tx' \in Databases /\ db' = tx'
  BY TypeFacts, OutcomeType DEF RecordOutcome
<1> QED BY <1>1 DEF RecordOutcome, Goto, TypeInv, TurnTypeOK, AskedInv, Labels

LEMMA CloseTurnTypes == ASSUME TypeInv, CloseTurn PROVE TypeInv'
BY NoTurnType DEF CloseTurn, Goto, TypeInv, TurnTypeOK, AskedInv, Labels

LEMMA TurnDiesTypes == ASSUME TypeInv, TurnDies PROVE TypeInv'
<1>1. pc # "idle"
  BY DEF TurnDies, FaultsAt
<1>2. tx' \in Databases
  BY TypeFacts, CutShortType DEF TurnDies
<1>3. redis' \in [phase : {"listening", "processing", "speaking", "handoff_pending"},
                  failures : 0 .. MaxFailures]
  <2>1. redis' \in {redis, [redis EXCEPT !.failures = TrackedFailures]}
    BY DEF TurnDies
  <2> QED BY <2>1, TrackedFailuresType DEF TypeInv, TurnTypeOK
<1> QED BY <1>1, <1>2, <1>3, NoTurnType
        DEF TurnDies, Goto, TypeInv, TurnTypeOK, AskedInv, Labels

LEMMA DatabaseFailsTypes == ASSUME TypeInv, DatabaseFails PROVE TypeInv'
<1>1. pc # "idle" /\ pc' \in {"answer", "dead"}
  BY DEF DatabaseFails, Goto
<1>2. cur' \in Turns
  <2>1. Generated \in Turns
    BY TypeFacts, GeneratedType
  <2>2. [Generated EXCEPT !.blocked = FALSE] \in Turns
    BY <2>1 DEF Turns
  <2>3. cur' \in {[Generated EXCEPT !.blocked = FALSE], NoTurn}
    BY DEF DatabaseFails
  <2> QED BY <2>2, <2>3, NoTurnType
<1>3. history' \in Seq(Messages)
  <2>1. Append(history, Message("assistant")) \in Seq(Messages)
    BY <1>1, TypeFacts, MessageType, AppendProperties
  <2> QED BY <2>1, TypeFacts DEF DatabaseFails
<1>4. {irq', broken', died'} \subseteq BOOLEAN
  BY DEF DatabaseFails, TypeInv, TurnTypeOK
<1>5. redis' \in [phase : {"listening", "processing", "speaking", "handoff_pending"},
                  failures : 0 .. MaxFailures]
  <2>1. redis' \in {redis, [redis EXCEPT !.phase = "processing"],
                    [redis EXCEPT !.phase = "speaking"]}
    <3>1. redis = [redis EXCEPT !.phase = redis.phase]
      BY DEF TypeInv, TurnTypeOK
    <3> QED BY <3>1 DEF DatabaseFails
  <2> QED BY <2>1 DEF TypeInv, TurnTypeOK
<1> QED BY <1>1, <1>2, <1>3, <1>4, <1>5 DEF DatabaseFails, TypeInv, TurnTypeOK, AskedInv, Labels

LEMMA RelistenTypes == ASSUME TypeInv, Relisten PROVE TypeInv'
BY DEF Relisten, Goto, TypeInv, TurnTypeOK, AskedInv, Labels

(* The page of messages a job loads is the beginning of the saved ones. *)
LEMMA HistoryPrefix ==
  ASSUME NEW rows \in Seq(Messages)
  PROVE  \E n \in 0 .. Len(rows) :
           /\ LoadHistory(rows) = SubSeq(rows, 1, n)
           /\ LoadHistory(rows) \in Seq(Messages) /\ Len(LoadHistory(rows)) = n
           /\ \A i \in 1 .. n : LoadHistory(rows)[i] = rows[i]
<1> DEFINE n == Min({Len(rows), HistoryPage})
<1>1. Len(rows) \in Nat /\ HistoryPage \in Nat
  BY LenProperties, TurnAssumption DEF TurnAssumption
<1>2. n \in 0 .. Len(rows)
  <2>1. Len(rows) \in Int /\ HistoryPage \in Int
    BY <1>1
  <2>2. n \in {Len(rows), HistoryPage} /\ n <= Len(rows)
    BY <2>1, MinOfTwo
  <2> HIDE DEF n
  <2> QED BY <1>1, <2>2
<1>3. LoadHistory(rows) = SubSeq(rows, 1, n)
  BY DEF LoadHistory
<1> HIDE DEF n
<1>4. /\ SubSeq(rows, 1, n) \in Seq(Messages) /\ Len(SubSeq(rows, 1, n)) = n
      /\ \A i \in 1 .. n : SubSeq(rows, 1, n)[i] = rows[i]
  BY <1>1, <1>2, SubSeqProperties
<1> QED BY <1>2, <1>3, <1>4

LEMMA NewJobTypes == ASSUME TypeInv, NewJob PROVE TypeInv'
<1>1. db' \in Databases /\ tx' = db'
  BY TypeFacts DEF NewJob, Databases
<1>2. db.rows \in Seq(Messages)
  BY TypeFacts DEF Databases
<1>3. history' \in Seq(Messages)
  BY <1>2, HistoryPrefix DEF NewJob
<1>4. redis' \in [phase : {"listening", "processing", "speaking", "handoff_pending"},
                  failures : 0 .. MaxFailures]
  BY DEF NewJob, TypeInv, TurnTypeOK
<1>5. trace' \in Traces
  BY DEF NewJob, EmptyTrace, Traces
<1>6. jobs' \in Nat /\ pc' = "idle" /\ turn' = turn /\ mode' = mode /\ config' = config
  BY DEF NewJob, Goto, TypeInv, TurnTypeOK
<1>7. cur' \in Turns /\ {irq', broken', died'} \subseteq BOOLEAN
  BY NoTurnType DEF NewJob
<1> QED BY <1>1, <1>3, <1>4, <1>5, <1>6, <1>7 DEF TypeInv, TurnTypeOK, AskedInv, Labels

LEMMA UnchangedTypes == ASSUME TypeInv, UNCHANGED turnVars PROVE TypeInv'
BY DEF turnVars, TypeInv, TurnTypeOK, AskedInv, Message

(* One disjunct for every action. *)
LEMMA Actions ==
  ASSUME [TurnNext]_agentVars
  PROVE  \/ SaveUserMessage \/ RememberUser \/ StartSpeaking
         \/ BuildContext \/ SingleAnswer \/ PlanAndCheck \/ CallTool \/ DraftAnswer
         \/ MockExecutor \/ CriticNode \/ CoordinatorNode \/ GenerationFails
         \/ SpeakAll \/ SpeakInterrupted \/ SpeakFails \/ Interrupt
         \/ RecordAnswer \/ StoreAnswer \/ EvaluateTurn \/ Escalate \/ RecordOutcome \/ CloseTurn
         \/ TurnDies \/ DatabaseFails \/ Relisten \/ Utter \/ NewJob
         \/ UNCHANGED turnVars
BY DEF TurnNext, TurnStep, Generation, Rest, agentVars

LEMMA NextTypes == ASSUME TypeInv, [TurnNext]_agentVars PROVE TypeInv'
BY Actions, SaveUserMessageTypes, RememberUserTypes, StartSpeakingTypes, BuildContextTypes,
   SingleAnswerTypes, PlanAndCheckTypes, CallToolTypes, DraftAnswerTypes, MockExecutorTypes,
   CriticNodeTypes, CoordinatorNodeTypes, GenerationFailsTypes, SpeakAllTypes,
   SpeakInterruptedTypes, SpeakFailsTypes, InterruptTypes, RecordAnswerTypes, StoreAnswerTypes,
   EvaluateTurnTypes, EscalateTypes, RecordOutcomeTypes, CloseTurnTypes, TurnDiesTypes,
   DatabaseFailsTypes, RelistenTypes, UtterTypes, NewJobTypes, UnchangedTypes

LEMMA TypeInvariant == TurnSpec => []TypeInv
BY InitTypes, NextTypes, PTL DEF TurnSpec

(* Every variable of the turns of a session and of the tool registry keeps its
   type, whatever the models, the tools, Redis, the database and the jobs do. *)
THEOREM TurnTypeCorrect == TurnSpec => [](RegistryTypeOK /\ TurnTypeOK)
<1>1. RegistryInv => RegistryTypeOK
  BY DEF RegistryInv
<1>2. TypeInv => TurnTypeOK
  BY DEF TypeInv
<1> QED BY <1>1, <1>2, RegistryInvariant, TypeInvariant, PTL

-----------------------------------------------------------------------------
(* The properties of a turn *)

(* Until the coordinator has spoken there is no answer, and only it is reached
   with a blocked plan. *)
RefusalInv ==
  /\ pc \notin {"coordinator", "speak", "answer", "store", "evaluate", "escalate", "outcome",
               "close"}
       => ~cur.blocked /\ cur.answer = "none"
  /\ pc = "coordinator" => cur.answer = "none"
  /\ cur.blocked => cur.answer \in {"none", "refusal"}

(* The user of this turn asked for a human and the policy allows it. *)
Asked == Policy.fallback /\ Detect(cur.phrases, Policy.explicit)

(* The handoff is in the transaction before it is committed. *)
RequestInv ==
  /\ pc = "outcome" /\ Asked => tx.handoff
  /\ pc = "close" /\ Asked => db.handoff

(* The question is saved one step before it is remembered. *)
SubsequenceInv ==
  ~broken =>
    /\ pc # "remember" => Subsequence(history, tx.rows)
    /\ pc = "remember" => \E rows \in Seq(Messages) :
                            tx.rows = Append(rows, Message("user")) /\ Subsequence(history, rows)

(* What a job remembers of rows when it found the first k of them. *)
Remembered(rows, k) == LoadHistory(SubSeq(rows, 1, k)) \o SubSeq(rows, k + 1, Len(rows))

(* As long as no turn of the job died, the history is what the job found and all
   that is saved since, and nothing is uncommitted between the turns. *)
FollowInv ==
  ~died =>
    /\ \E k \in 0 .. Len(db.rows) :
         history = Remembered(IF pc = "remember" THEN db.rows ELSE tx.rows, k)
    /\ pc \in {"idle", "begin", "close"} => tx.rows = db.rows
    /\ pc = "remember" => tx.rows = Append(db.rows, Message("user"))
    /\ Len(db.rows) <= Len(tx.rows)
    /\ broken => pc = "answer"
    /\ pc # "dead"

(* The steps between the saved question and the saved answer, and after it: they
   leave the transcript, the history and the committed database alone. *)
Quiet ==
  \/ StartSpeaking \/ BuildContext \/ SingleAnswer \/ PlanAndCheck \/ CallTool \/ DraftAnswer
  \/ MockExecutor \/ CriticNode \/ CoordinatorNode \/ GenerationFails
  \/ SpeakAll \/ SpeakInterrupted \/ SpeakFails \/ Interrupt
  \/ StoreAnswer \/ EvaluateTurn \/ Escalate

LEMMA QuietKeeps ==
  ASSUME TypeInv, Quiet
  PROVE  /\ tx'.rows = tx.rows /\ db' = db /\ history' = history /\ turn' = turn
         /\ broken' = broken /\ died' = died /\ config' = config
         /\ pc \notin {"idle", "begin", "remember", "answer", "outcome", "close", "dead"}
         /\ pc' \notin {"idle", "begin", "remember", "close", "dead"}
<1> DEFINE Kept ==
             /\ db' = db /\ history' = history /\ turn' = turn
             /\ broken' = broken /\ died' = died /\ config' = config
             /\ pc \notin {"idle", "begin", "remember", "answer", "outcome", "close", "dead"}
             /\ pc' \notin {"idle", "begin", "remember", "close", "dead"}
<1>1. CASE StartSpeaking \/ BuildContext \/ SingleAnswer \/ PlanAndCheck \/ DraftAnswer
           \/ CriticNode \/ CoordinatorNode \/ GenerationFails
  BY <1>1 DEF StartSpeaking, BuildContext, SingleAnswer, PlanAndCheck, DraftAnswer, CriticNode,
              CoordinatorNode, GenerationFails, Goto
<1>2. CASE SpeakAll \/ SpeakInterrupted \/ SpeakFails \/ Interrupt
  BY <1>2 DEF SpeakAll, SpeakInterrupted, SpeakFails, Interrupt, Goto
<1>3. CASE CallTool \/ MockExecutor
  <2>1. tx'.rows = tx.rows
    BY <1>3, ExecuteToolKeeps DEF CallTool, MockExecutor
  <2>2. Kept
    BY <1>3 DEF CallTool, MockExecutor, Goto
  <2> QED BY <2>1, <2>2
<1>4. CASE StoreAnswer
  <2>1. tx'.rows = tx.rows
    BY <1>4, TypeFacts, StoreTurnType DEF StoreAnswer
  <2>2. Kept
    BY <1>4 DEF StoreAnswer, Goto
  <2> QED BY <2>1, <2>2
<1>5. CASE EvaluateTurn
  <2>1. tx'.rows = tx.rows
    BY <1>5, TypeFacts, SaveRunType DEF EvaluateTurn
  <2>2. Kept
    BY <1>5 DEF EvaluateTurn, Goto
  <2> QED BY <2>1, <2>2
<1>6. CASE Escalate
  <2>1. tx'.rows = tx.rows
    BY <1>6, TypeFacts, HandoffType DEF Escalate
  <2>2. Kept
    BY <1>6 DEF Escalate, Goto
  <2> QED BY <2>1, <2>2
<1> QED BY <1>1, <1>2, <1>3, <1>4, <1>5, <1>6 DEF Quiet

LEMMA Steps ==
  ASSUME [TurnNext]_agentVars
  PROVE  \/ Quiet \/ SaveUserMessage \/ RememberUser \/ RecordAnswer \/ RecordOutcome \/ CloseTurn
         \/ TurnDies \/ DatabaseFails \/ Relisten \/ Utter \/ NewJob \/ UNCHANGED turnVars
BY Actions DEF Quiet

(* What a step does to the fields of the turn that the properties are about. *)
LEMMA SameFields ==
  ASSUME TypeInv,
         \/ StartSpeaking \/ BuildContext \/ CallTool \/ DraftAnswer \/ MockExecutor \/ CriticNode
         \/ SpeakAll \/ SpeakInterrupted \/ SpeakFails \/ Interrupt \/ StoreAnswer \/ Escalate
         \/ SaveUserMessage \/ RememberUser \/ RecordAnswer \/ RecordOutcome \/ Relisten
         \/ UNCHANGED turnVars
  PROVE  /\ cur'.phrases = cur.phrases /\ cur'.blocked = cur.blocked /\ cur'.answer = cur.answer
         /\ ~BuildContext => cur'.prompt = cur.prompt
<1> USE TypeFacts DEF Turns
<1>1. CASE \/ StartSpeaking \/ Interrupt \/ StoreAnswer \/ SaveUserMessage \/ RememberUser
           \/ RecordAnswer \/ RecordOutcome \/ Relisten \/ UNCHANGED turnVars
  BY <1>1 DEF StartSpeaking, Interrupt, StoreAnswer, SaveUserMessage, RememberUser, RecordAnswer,
              RecordOutcome, Relisten, turnVars
<1>2. CASE BuildContext
  BY <1>2 DEF BuildContext
<1>3. CASE CallTool
  BY <1>3 DEF CallTool
<1>4. CASE DraftAnswer
  BY <1>4 DEF DraftAnswer
<1>5. CASE MockExecutor
  BY <1>5 DEF MockExecutor
<1>6. CASE CriticNode
  BY <1>6 DEF CriticNode
<1>7. CASE SpeakAll
  BY <1>7 DEF SpeakAll
<1>8. CASE SpeakInterrupted
  BY <1>8 DEF SpeakInterrupted
<1>9. CASE SpeakFails
  BY <1>9 DEF SpeakFails
<1>10. CASE Escalate
  BY <1>10 DEF Escalate
<1> QED BY <1>1, <1>2, <1>3, <1>4, <1>5, <1>6, <1>7, <1>8, <1>9, <1>10

LEMMA EmptyFields ==
  NoTurn.blocked = FALSE /\ NoTurn.answer = "none" /\ NoTurn.prompt = <<>>
BY DEF NoTurn

-----------------------------------------------------------------------------
LEMMA SingleAnswerFields ==
  ASSUME TypeInv, SingleAnswer
  PROVE  /\ cur'.phrases = cur.phrases /\ cur'.blocked = cur.blocked /\ cur'.prompt = <<>>
         /\ pc = "single" /\ pc' = "speak"
<1>1. PICK draft : cur' = [cur EXCEPT !.answer = draft, !.prompt = <<>>]
  BY DEF SingleAnswer
<1> QED BY <1>1, TypeFacts DEF Turns, SingleAnswer, Goto

LEMMA PlanAndCheckFields ==
  ASSUME TypeInv, PlanAndCheck
  PROVE  /\ cur'.phrases = cur.phrases /\ cur'.answer = cur.answer /\ cur'.prompt = <<>>
         /\ pc = "planner"
         /\ \/ pc' = "executor" /\ cur'.blocked = cur.blocked
            \/ pc' = "coordinator"
<1>1. CASE cur' = [cur EXCEPT !.rounds = 0, !.prompt = <<>>] /\ pc' = "executor"
  BY <1>1, TypeFacts DEF Turns, PlanAndCheck
<1>2. CASE cur' = [cur EXCEPT !.blocked = TRUE, !.prompt = <<>>] /\ pc' = "coordinator"
  BY <1>2, TypeFacts DEF Turns, PlanAndCheck
<1> QED BY <1>1, <1>2 DEF PlanAndCheck, Goto

LEMMA CoordinatorNodeFields ==
  ASSUME TypeInv, CoordinatorNode
  PROVE  /\ cur'.phrases = cur.phrases /\ cur'.blocked = cur.blocked /\ cur'.prompt = <<>>
         /\ cur'.answer = FinalResponse /\ pc' = "speak"
BY TypeFacts, GeneratedType DEF CoordinatorNode, Goto, Turns

(* An exception of the generator leaves nothing of the graph's run. *)
LEMMA GenerationFailsFields ==
  ASSUME TypeInv, cur' = [Generated EXCEPT !.blocked = FALSE]
  PROVE  /\ cur'.phrases = cur.phrases /\ cur'.blocked = FALSE /\ cur'.answer = cur.answer
         /\ cur'.prompt = <<>>
BY TypeFacts, GeneratedType DEF Turns

LEMMA EvaluateTurnFields ==
  ASSUME TypeInv, EvaluateTurn
  PROVE  /\ cur'.phrases = cur.phrases /\ cur'.blocked = FALSE /\ cur'.answer = "none"
         /\ cur'.prompt = cur.prompt
<1>1. PICK h : cur' = [cur EXCEPT !.hallucination = h, !.e2e = NoSignal, !.answer = "none",
                                  !.blocked = FALSE]
  BY DEF EvaluateTurn
<1> QED BY <1>1, TypeFacts DEF Turns

LEMMA UtterFields ==
  ASSUME Utter
  PROVE  cur'.blocked = FALSE /\ cur'.answer = "none" /\ cur'.prompt = <<>> /\ pc' = "begin"
<1>1. PICK phrases, stt : cur' = [NoTurn EXCEPT !.phrases = phrases, !.stt = stt]
  BY DEF Utter
<1> QED BY <1>1 DEF NoTurn, Utter, Goto

LEMMA RefusalNext == ASSUME TypeInv, RefusalInv, [TurnNext]_agentVars PROVE RefusalInv'
<1>1. CASE \/ StartSpeaking \/ BuildContext \/ CallTool \/ DraftAnswer \/ MockExecutor \/ CriticNode
           \/ SaveUserMessage \/ RememberUser
  <2>1. pc \in {"begin", "remember", "speaking", "context", "executor", "critic"}
    BY <1>1 DEF StartSpeaking, BuildContext, CallTool, DraftAnswer, MockExecutor, CriticNode,
                SaveUserMessage, RememberUser
  <2>2. ~cur'.blocked /\ cur'.answer = "none"
    BY <1>1, <2>1, SameFields DEF RefusalInv
  <2> QED BY <2>2 DEF RefusalInv
<1>2. CASE \/ SpeakAll \/ SpeakInterrupted \/ SpeakFails \/ Interrupt \/ StoreAnswer \/ Escalate
           \/ RecordAnswer \/ RecordOutcome
  <2>1. pc' \in {"speak", "answer", "store", "evaluate", "escalate", "outcome", "close"}
    BY <1>2 DEF SpeakAll, SpeakInterrupted, SpeakFails, Interrupt, StoreAnswer, Escalate,
                RecordAnswer, RecordOutcome, Goto
  <2> QED BY <1>2, <2>1, SameFields DEF RefusalInv
<1>3. CASE Relisten \/ UNCHANGED turnVars
  BY <1>3, SameFields DEF RefusalInv, Relisten, Goto, turnVars
<1>4. CASE SingleAnswer
  BY <1>4, SingleAnswerFields DEF RefusalInv
<1>5. CASE PlanAndCheck
  BY <1>5, PlanAndCheckFields DEF RefusalInv
<1>6. CASE CoordinatorNode
  BY <1>6, CoordinatorNodeFields DEF RefusalInv, FinalResponse
<1>7. CASE GenerationFails
  <2>1. cur.answer = "none" /\ pc' = "answer"
    BY <1>7 DEF GenerationFails, Goto, RefusalInv
  <2> QED BY <1>7, <2>1, GenerationFailsFields DEF GenerationFails, RefusalInv
<1>8. CASE EvaluateTurn
  BY <1>8, EvaluateTurnFields DEF RefusalInv
<1>9. CASE CloseTurn \/ TurnDies \/ NewJob
  BY <1>9, EmptyFields DEF CloseTurn, TurnDies, NewJob, RefusalInv
<1>10. CASE DatabaseFails
  <2>1. CASE cur' = NoTurn
    BY <2>1, EmptyFields DEF RefusalInv
  <2>2. CASE /\ pc \in {"context", "executor"}
             /\ cur' = [Generated EXCEPT !.blocked = FALSE]
    BY <2>2, GenerationFailsFields DEF RefusalInv
  <2> QED BY <1>10, <2>1, <2>2 DEF DatabaseFails
<1>11. CASE Utter
  BY <1>11, UtterFields DEF RefusalInv
<1> QED BY <1>1, <1>2, <1>3, <1>4, <1>5, <1>6, <1>7, <1>8, <1>9, <1>10, <1>11, Actions

(* The refusal of the safety agent stands, for any models, tools and number of
   rounds: what the coordinator says once a plan is blocked is the refusal, and
   the executor does not run again. *)
THEOREM RefusalsStand == TurnSpec => []RefusalStands
<1>1. TurnInit => RefusalInv
  BY EmptyFields DEF TurnInit, RefusalInv
<1>2. TypeInv /\ RefusalInv /\ [TurnNext]_agentVars => RefusalInv'
  BY RefusalNext
<1>3. RefusalInv => RefusalStands
  BY DEF RefusalInv, RefusalStands
<1> QED BY <1>1, <1>2, <1>3, TypeInvariant, PTL DEF TurnSpec

-----------------------------------------------------------------------------
(* A prompt is built once a turn, and kept until the planner or the stream has it. *)
LEMMA PromptNext ==
  ASSUME TypeInv, PromptEndsWithQuestion, [TurnNext]_agentVars PROVE PromptEndsWithQuestion'
<1>1. CASE cur'.prompt = <<>>
  BY <1>1 DEF PromptEndsWithQuestion
<1>2. CASE cur'.prompt = cur.prompt /\ turn' = turn
  BY <1>2 DEF PromptEndsWithQuestion, Message, IsSystem
<1>3. CASE \/ StartSpeaking \/ CallTool \/ DraftAnswer \/ MockExecutor \/ CriticNode
           \/ SpeakAll \/ SpeakInterrupted \/ SpeakFails \/ Interrupt \/ StoreAnswer \/ Escalate
           \/ SaveUserMessage \/ RememberUser \/ RecordAnswer \/ RecordOutcome \/ Relisten
           \/ UNCHANGED turnVars
  <2>1. ~BuildContext \/ cur'.prompt = cur.prompt
    <3>1. CASE pc # "context" \/ UNCHANGED turnVars
      BY <3>1 DEF BuildContext, turnVars
    <3>2. CASE pc = "context"
      BY <1>3, <3>2 DEF StartSpeaking, CallTool, DraftAnswer, MockExecutor, CriticNode,
           SpeakAll, SpeakInterrupted, SpeakFails, Interrupt, StoreAnswer, Escalate,
           SaveUserMessage, RememberUser, RecordAnswer, RecordOutcome, Relisten, turnVars
    <3> QED BY <3>1, <3>2
  <2>2. turn' = turn
    BY <1>3, QuietKeeps DEF Quiet, SaveUserMessage, RememberUser, RecordAnswer, RecordOutcome,
                            Relisten, turnVars
  <2> QED BY <1>2, <1>3, <2>1, <2>2, SameFields
<1>4. CASE BuildContext
  <2>1. PICK found \in BOOLEAN :
          cur' = [cur EXCEPT !.prompt = EnrichMessages(BuildMessages, found)]
    BY <1>4 DEF BuildContext
  <2>2. WellFormed(EnrichMessages(BuildMessages, found))
    BY <1>4, PromptShape DEF BuildContext, TypeInv, TurnTypeOK, AskedInv
  <2>3. cur'.prompt = EnrichMessages(BuildMessages, found) /\ turn' = turn
    BY <1>4, <2>1, TypeFacts DEF BuildContext, Turns
  <2> QED BY <2>2, <2>3 DEF WellFormed, PromptEndsWithQuestion, Message, IsSystem
<1>5. CASE SingleAnswer \/ PlanAndCheck \/ CoordinatorNode
  BY <1>1, <1>5, SingleAnswerFields, PlanAndCheckFields, CoordinatorNodeFields
<1>6. CASE GenerationFails
  BY <1>1, <1>6, GenerationFailsFields DEF GenerationFails
<1>7. CASE EvaluateTurn
  BY <1>2, <1>7, EvaluateTurnFields DEF EvaluateTurn
<1>8. CASE CloseTurn \/ TurnDies \/ NewJob
  BY <1>1, <1>8, EmptyFields DEF CloseTurn, TurnDies, NewJob
<1>9. CASE DatabaseFails
  BY <1>1, <1>9, EmptyFields, GenerationFailsFields DEF DatabaseFails
<1>10. CASE Utter
  BY <1>1, <1>10, UtterFields
<1> QED BY <1>3, <1>4, <1>5, <1>6, <1>7, <1>8, <1>9, <1>10, Actions

(* ContextBuilder.build and enrich_messages: however long the history is, however
   little of it is kept and whatever was found, the models are asked the question
   the user just put, after all that is context. *)
THEOREM PromptsEndWithQuestion == TurnSpec => []PromptEndsWithQuestion
<1>1. TurnInit => PromptEndsWithQuestion
  BY EmptyFields DEF TurnInit, PromptEndsWithQuestion
<1>2. TypeInv /\ PromptEndsWithQuestion /\ [TurnNext]_agentVars => PromptEndsWithQuestion'
  BY PromptNext
<1> QED BY <1>1, <1>2, TypeInvariant, PTL DEF TurnSpec

-----------------------------------------------------------------------------
(* HandoffPolicyEngine.evaluate looks at the user's request first. *)
LEMMA RequestDecides == ASSUME Asked PROVE Decision = "user_request"
<1> DEFINE ctx == TurnContext(cur.phrases, cur.interrupted, cur.stt, trace, cur.hallucination,
                              TrackedFailures)
<1>1. ctx.phrases = cur.phrases
  BY DEF TurnContext
<1>2. Decision = Evaluate(ctx, Policy)
  BY DEF Decision
<1> HIDE DEF ctx
<1>3. Policy.fallback /\ Detect(ctx.phrases, Policy.explicit)
  BY <1>1 DEF Asked
<1>4. Evaluate(ctx, Policy) = "user_request"
  BY <1>3 DEF Evaluate
<1> QED BY <1>2, <1>4

LEMMA AskedKept ==
  ASSUME cur'.phrases = cur.phrases, config' = config
  PROVE  Asked' = Asked
BY DEF Asked, Policy

LEMMA RequestNext == ASSUME TypeInv, RequestInv, [TurnNext]_agentVars PROVE RequestInv'
<1>1. CASE pc' \notin {"outcome", "close"}
  BY <1>1 DEF RequestInv
<1>2. CASE Escalate
  <2>1. pc' = "outcome" /\ Asked' = Asked
    BY <1>2, SameFields, AskedKept DEF Escalate, Goto
  <2>2. Asked => tx'.handoff
    <3>1. tx' = IF Decision # "none" /\ ~tx.handoff THEN InitiateHandoff(tx) ELSE tx
      BY <1>2 DEF Escalate
    <3> QED BY <3>1, RequestDecides, TypeFacts, HandoffType
  <2> QED BY <2>1, <2>2 DEF RequestInv
<1>3. CASE RecordOutcome
  <2>1. pc = "outcome" /\ pc' = "close" /\ Asked' = Asked
    BY <1>3, SameFields, AskedKept DEF RecordOutcome, Goto
  <2>2. db'.handoff = tx.handoff
    BY <1>3, TypeFacts, OutcomeType DEF RecordOutcome
  <2> QED BY <2>1, <2>2 DEF RequestInv
<1>4. CASE UNCHANGED turnVars
  BY <1>4, SameFields, AskedKept DEF RequestInv, turnVars
<1>5. CASE Quiet /\ ~Escalate
  <2>1. pc' # "outcome"
    <3>1. CASE StartSpeaking \/ BuildContext \/ SingleAnswer \/ PlanAndCheck \/ CallTool
               \/ DraftAnswer \/ MockExecutor \/ CriticNode \/ CoordinatorNode \/ GenerationFails
      BY <3>1 DEF StartSpeaking, BuildContext, SingleAnswer, PlanAndCheck, CallTool, DraftAnswer,
                  MockExecutor, CriticNode, CoordinatorNode, GenerationFails, Goto
    <3>2. CASE SpeakAll \/ SpeakInterrupted \/ SpeakFails \/ Interrupt \/ StoreAnswer
               \/ EvaluateTurn
      BY <3>2 DEF SpeakAll, SpeakInterrupted, SpeakFails, Interrupt, StoreAnswer, EvaluateTurn,
        Goto
    <3> QED BY <1>5, <3>1, <3>2 DEF Quiet
  <2> QED BY <1>1, <1>5, <2>1, QuietKeeps
<1>6. CASE SaveUserMessage \/ RememberUser \/ RecordAnswer \/ CloseTurn \/ TurnDies
           \/ DatabaseFails \/ Relisten \/ Utter \/ NewJob
  BY <1>1, <1>6 DEF SaveUserMessage, RememberUser, RecordAnswer, CloseTurn, TurnDies,
    DatabaseFails,
                    Relisten, Utter, NewJob, Goto
<1> QED BY <1>2, <1>3, <1>4, <1>5, <1>6, Steps

(* A user who asks for a human, where the policy of the session allows it, has the
   handoff in the database when the turn is committed, whatever failed before. *)
THEOREM RequestsAreEscalated == TurnSpec => []RequestIsEscalated
<1>1. TurnInit => RequestInv
  BY DEF TurnInit, RequestInv
<1>2. TypeInv /\ RequestInv /\ [TurnNext]_agentVars => RequestInv'
  BY RequestNext
<1>3. RequestInv => RequestIsEscalated
  BY DEF RequestInv, RequestIsEscalated, Asked
<1> QED BY <1>1, <1>2, <1>3, TypeInvariant, PTL DEF TurnSpec

-----------------------------------------------------------------------------
(* Subsequences *)

LEMMA SubsequenceOfLonger ==
  ASSUME NEW s \in Seq(Messages), NEW t \in Seq(Messages), NEW m \in Messages, Subsequence(s, t)
  PROVE  Subsequence(s, Append(t, m))
<1> DEFINE u == Append(t, m)
<1>1. PICK at \in [DOMAIN s -> DOMAIN t] :
        \A i \in DOMAIN s : s[i] = t[at[i]] /\ \A j \in 1 .. i - 1 : at[j] < at[i]
  BY DEF Subsequence
<1>2. Len(u) = Len(t) + 1 /\ \A i \in 1 .. Len(t) : u[i] = t[i]
  BY AppendProperties
<1>3. Len(t) \in Nat /\ DOMAIN t = 1 .. Len(t) /\ u \in Seq(Messages)
  BY LenProperties, AppendProperties
<1>4. DOMAIN u = 1 .. Len(t) + 1
  BY <1>2, <1>3, LenProperties
<1> HIDE DEF u
<1>5. at \in [DOMAIN s -> DOMAIN u]
  BY <1>3, <1>4
<1>6. \A i \in DOMAIN s : s[i] = u[at[i]]
  BY <1>1, <1>2, <1>3
<1> QED BY <1>1, <1>5, <1>6 DEF Subsequence, u

LEMMA SubsequenceOfBoth ==
  ASSUME NEW s \in Seq(Messages), NEW t \in Seq(Messages), NEW m \in Messages, Subsequence(s, t)
  PROVE  Subsequence(Append(s, m), Append(t, m))
<1> DEFINE u == Append(t, m)
           r == Append(s, m)
<1>1. PICK at \in [DOMAIN s -> DOMAIN t] :
        \A i \in DOMAIN s : s[i] = t[at[i]] /\ \A j \in 1 .. i - 1 : at[j] < at[i]
  BY DEF Subsequence
<1>2. /\ Len(u) = Len(t) + 1 /\ u[Len(t) + 1] = m /\ \A i \in 1 .. Len(t) : u[i] = t[i]
      /\ Len(r) = Len(s) + 1 /\ r[Len(s) + 1] = m /\ \A i \in 1 .. Len(s) : r[i] = s[i]
  BY AppendProperties
<1>3. /\ Len(t) \in Nat /\ DOMAIN t = 1 .. Len(t) /\ u \in Seq(Messages)
      /\ Len(s) \in Nat /\ DOMAIN s = 1 .. Len(s) /\ r \in Seq(Messages)
  BY LenProperties, AppendProperties
<1>4. DOMAIN u = 1 .. Len(t) + 1 /\ DOMAIN r = 1 .. Len(s) + 1
  BY <1>2, <1>3, LenProperties
<1> HIDE DEF u, r
<1> DEFINE to == [i \in DOMAIN r |-> IF i = Len(s) + 1 THEN Len(t) + 1 ELSE at[i]]
<1>5. to \in [DOMAIN r -> DOMAIN u]
  BY <1>3, <1>4
<1>6. ASSUME NEW i \in 1 .. Len(s) PROVE to[i] = at[i] /\ at[i] \in 1 .. Len(t)
  <2>1. i \in DOMAIN r /\ i # Len(s) + 1 /\ i \in DOMAIN s
    BY <1>3, <1>4
  <2> QED BY <2>1, <1>3
<1>7. to[Len(s) + 1] = Len(t) + 1
  BY <1>3, <1>4
<1> HIDE DEF to
<1>8. ASSUME NEW i \in DOMAIN r
      PROVE  r[i] = u[to[i]] /\ \A j \in 1 .. i - 1 : to[j] < to[i]
  <2>1. CASE i = Len(s) + 1
    BY <2>1, <1>2, <1>3, <1>6, <1>7
  <2>2. CASE i # Len(s) + 1
    <3>1. i \in 1 .. Len(s) /\ i \in DOMAIN s
      BY <2>2, <1>3, <1>4
    <3>2. r[i] = u[to[i]]
      BY <3>1, <1>1, <1>2, <1>6
    <3>3. ASSUME NEW j \in 1 .. i - 1 PROVE to[j] < to[i]
      <4>1. j \in 1 .. Len(s)
        BY <3>1, <1>3
      <4> QED BY <4>1, <3>1, <1>1, <1>6
    <3> QED BY <3>2, <3>3
  <2> QED BY <2>1, <2>2
<1> QED BY <1>5, <1>8 DEF Subsequence, u, r

LEMMA PrefixIsSubsequence ==
  ASSUME NEW s \in Seq(Messages), NEW t \in Seq(Messages), NEW n \in 0 .. Len(t), Len(s) = n,
         \A i \in 1 .. n : s[i] = t[i]
  PROVE  Subsequence(s, t)
<1> DEFINE at == [i \in DOMAIN s |-> i]
<1>1. Len(t) \in Nat /\ DOMAIN t = 1 .. Len(t) /\ DOMAIN s = 1 .. n
  BY LenProperties
<1>2. at \in [DOMAIN s -> DOMAIN t] /\ \A i \in 1 .. n : at[i] = i
  BY <1>1
<1>3. \A i \in DOMAIN s : s[i] = t[at[i]] /\ \A j \in 1 .. i - 1 : at[j] < at[i]
  BY <1>1, <1>2
<1> QED BY <1>2, <1>3 DEF Subsequence

LEMMA AppendToSecond ==
  ASSUME NEW S, NEW a \in Seq(S), NEW b \in Seq(S), NEW m \in S
  PROVE  a \o Append(b, m) = Append(a \o b, m)
<1> DEFINE one == <<m>>
<1>1. one \in Seq(S) /\ a \o b \in Seq(S)
  BY ConcatProperties
<1>2. Append(b, m) = b \o one /\ Append(a \o b, m) = (a \o b) \o one
  BY <1>1, AppendIsConcat
<1> HIDE DEF one
<1>3. (a \o b) \o one = a \o (b \o one)
  BY <1>1, ConcatAssociative
<1> QED BY <1>2, <1>3

(* Saving and remembering one more message. *)
LEMMA RememberOneMore ==
  ASSUME NEW rows \in Seq(Messages), NEW k \in 0 .. Len(rows), NEW m \in Messages
  PROVE  Remembered(Append(rows, m), k) = Append(Remembered(rows, k), m)
<1> DEFINE n == Len(rows)
           u == Append(rows, m)
           x == SubSeq(rows, 1, k)
           y == SubSeq(rows, k + 1, n)
           a == LoadHistory(x)
           v == SubSeq(u, 1, k)
           w == SubSeq(u, k + 1, n + 1)
<1>1. n \in Nat /\ k \in Nat /\ \A i \in 1 .. n : rows[i] \in Messages
  BY LenProperties, ElementOfSeq
<1>2. u \in Seq(Messages) /\ Len(u) = n + 1 /\ u[n + 1] = m /\ \A i \in 1 .. n : u[i] = rows[i]
  BY AppendProperties
<1>3. \A i \in 1 .. n + 1 : u[i] \in Messages
  BY <1>2, ElementOfSeq
<1> HIDE DEF n, u
<1>4. k <= n
  BY DEF n
<1>5. x \in Seq(Messages) /\ Len(x) = k /\ \A i \in 1 .. k : x[i] = rows[i]
  <2>1. \A i \in 1 .. k : rows[i] \in Messages
    BY <1>1, <1>4
  <2> QED BY <2>1, <1>1, SubSeqProperties
<1>6. v \in Seq(Messages) /\ Len(v) = k /\ \A i \in 1 .. k : v[i] = u[i]
  <2>1. \A i \in 1 .. k : u[i] \in Messages
    BY <1>1, <1>3, <1>4
  <2> QED BY <2>1, <1>1, SubSeqProperties
<1>7. y \in Seq(Messages) /\ Len(y) = n - k /\ \A i \in 1 .. n - k : y[i] = rows[k + i]
  <2>1. \A i \in k + 1 .. n : rows[i] \in Messages
    BY <1>1
  <2>2. /\ y \in Seq(Messages) /\ Len(y) = IF k + 1 <= n THEN n - (k + 1) + 1 ELSE 0
        /\ \A i \in 1 .. n - (k + 1) + 1 : y[i] = rows[k + 1 + i - 1]
    BY <2>1, <1>1, SubSeqProperties
  <2> HIDE DEF y
  <2> QED BY <2>2, <1>1, <1>4
<1>8. w \in Seq(Messages) /\ Len(w) = n - k + 1 /\ \A i \in 1 .. n - k + 1 : w[i] = u[k + i]
  <2>1. \A i \in k + 1 .. n + 1 : u[i] \in Messages
    BY <1>1, <1>3
  <2>2. /\ w \in Seq(Messages) /\ Len(w) = IF k + 1 <= n + 1 THEN (n + 1) - (k + 1) + 1 ELSE 0
        /\ \A i \in 1 .. (n + 1) - (k + 1) + 1 : w[i] = u[k + 1 + i - 1]
    BY <2>1, <1>1, SubSeqProperties
  <2> HIDE DEF w
  <2> QED BY <2>2, <1>1, <1>4
<1> HIDE DEF x, y, v, w
<1>9. v = x
  <2>1. \A i \in 1 .. k : v[i] = x[i]
    BY <1>1, <1>2, <1>4, <1>5, <1>6
  <2> QED BY <2>1, <1>5, <1>6, SeqEqual
<1>10. w = Append(y, m)
  <2>1. /\ Append(y, m) \in Seq(Messages) /\ Len(Append(y, m)) = n - k + 1
        /\ \A i \in 1 .. n - k : Append(y, m)[i] = y[i]
        /\ Append(y, m)[n - k + 1] = m
    BY <1>7, AppendProperties
  <2>2. ASSUME NEW i \in 1 .. n - k + 1 PROVE w[i] = Append(y, m)[i]
    <3>1. CASE i = n - k + 1
      <4>1. k + i = n + 1
        BY <3>1, <1>1, <1>4
      <4> QED BY <3>1, <4>1, <2>1, <1>2, <1>8
    <3>2. CASE i # n - k + 1
      <4>1. i \in 1 .. n - k /\ k + i \in 1 .. n
        BY <3>2, <1>1, <1>4
      <4> QED BY <4>1, <2>1, <1>2, <1>7, <1>8
    <3> QED BY <3>1, <3>2
  <2> QED BY <2>1, <2>2, <1>8, SeqEqual
<1>11. a \in Seq(Messages)
  BY <1>5, HistoryPrefix
<1> HIDE DEF a
<1>12. a \o Append(y, m) = Append(a \o y, m)
  BY <1>7, <1>11, AppendToSecond
<1>13. Remembered(u, k) = LoadHistory(v) \o w
  BY <1>2 DEF Remembered, v, w
<1>14. Remembered(rows, k) = a \o y
  BY DEF Remembered, a, x, y, n
<1> QED BY <1>9, <1>10, <1>12, <1>13, <1>14 DEF a, u

(* What a job finds. *)
LEMMA RememberAllFound ==
  ASSUME NEW rows \in Seq(Messages)
  PROVE  Remembered(rows, Len(rows)) = LoadHistory(rows)
<1>1. Len(rows) \in Nat
  BY LenProperties
<1>2. SubSeq(rows, 1, Len(rows)) = rows
  BY SubSeqFull
<1>3. SubSeq(rows, Len(rows) + 1, Len(rows)) = <<>>
  BY <1>1, SubSeqEmpty
<1>4. LoadHistory(rows) \in Seq(Messages)
  BY HistoryPrefix
<1> QED BY <1>2, <1>3, <1>4, ConcatEmptySeq DEF Remembered

LEMMA RowsType == ASSUME TypeInv PROVE tx.rows \in Seq(Messages) /\ db.rows \in Seq(Messages)
BY TypeFacts DEF Databases

LEMMA SubsequenceNext ==
  ASSUME TypeInv, SubsequenceInv, [TurnNext]_agentVars PROVE SubsequenceInv'
<1>1. CASE Quiet
  BY <1>1, QuietKeeps DEF SubsequenceInv
<1>2. CASE SaveUserMessage
  <2>1. /\ tx'.rows = Append(tx.rows, Message("user")) /\ history' = history /\ pc = "begin"
        /\ pc' = "remember" /\ broken' = broken /\ Message("user")' = Message("user")
    BY <1>2, TypeFacts, SaveMessageType DEF SaveUserMessage, Goto, Message
  <2> QED BY <2>1, RowsType DEF SubsequenceInv
<1>3. CASE RememberUser
  <2>1. /\ tx'.rows = tx.rows /\ history' = Append(history, Message("user")) /\ pc = "remember"
        /\ pc' = "speaking" /\ ~broken /\ Message("user") \in Messages
    BY <1>3, TypeFacts, StoreTurnType, MessageType DEF RememberUser, Goto
  <2>2. PICK rows \in Seq(Messages) :
          tx.rows = Append(rows, Message("user")) /\ Subsequence(history, rows)
    BY <2>1 DEF SubsequenceInv
  <2>3. Subsequence(history', tx'.rows)
    BY <2>1, <2>2, TypeFacts, SubsequenceOfBoth
  <2> QED BY <2>1, <2>3 DEF SubsequenceInv
<1>4. CASE RecordAnswer
  <2>1. pc = "answer" /\ pc' = "store" /\ ~broken /\ Message("assistant") \in Messages
    BY <1>4, TypeFacts, MessageType DEF RecordAnswer, Goto
  <2>2. Subsequence(history, tx.rows)
    BY <2>1 DEF SubsequenceInv
  <2>3. CASE cur.text = "none"
    BY <1>4, <2>1, <2>2, <2>3 DEF RecordAnswer, SubsequenceInv
  <2>4. CASE cur.text # "none"
    <3>1. /\ history' = Append(history, Message("assistant"))
          /\ tx'.rows = Append(tx.rows, Message("assistant"))
      BY <1>4, <2>4, TypeFacts, SaveMessageType DEF RecordAnswer
    <3>2. Subsequence(history', tx'.rows)
      BY <2>1, <2>2, <3>1, TypeFacts, RowsType, SubsequenceOfBoth
    <3> QED BY <2>1, <3>2 DEF SubsequenceInv
  <2> QED BY <2>3, <2>4
<1>5. CASE RecordOutcome
  <2>1. tx'.rows = tx.rows
    BY <1>5, TypeFacts, OutcomeType DEF RecordOutcome
  <2> QED BY <1>5, <2>1 DEF RecordOutcome, Goto, SubsequenceInv
<1>6. CASE CloseTurn \/ Relisten \/ Utter
  BY <1>6 DEF CloseTurn, Relisten, Utter, Goto, SubsequenceInv
<1>7. CASE TurnDies
  <2>1. /\ history' = history /\ broken' = broken /\ pc' = "dead" /\ pc # "idle"
        /\ tx'.rows = tx.rows
    <3>1. tx' = tx \/ tx' \in CutShort(tx)
      BY <1>7 DEF TurnDies
    <3> QED BY <1>7, <3>1, TypeFacts, CutShortType DEF TurnDies, FaultsAt, Goto
  <2>2. ASSUME ~broken PROVE Subsequence(history, tx.rows)
    <3>1. CASE pc = "remember"
      <4>1. Message("user") \in Messages
        BY <2>1, TypeFacts, MessageType
      <4> QED BY <2>2, <3>1, <4>1, TypeFacts, SubsequenceOfLonger DEF SubsequenceInv
    <3> QED BY <2>2, <3>1 DEF SubsequenceInv
  <2> QED BY <2>1, <2>2 DEF SubsequenceInv
<1>8. CASE DatabaseFails
  BY <1>8 DEF DatabaseFails, SubsequenceInv
<1>9. CASE NewJob
  <2>1. history' = LoadHistory(db.rows) /\ tx'.rows = db.rows /\ pc' = "idle"
    BY <1>9, TypeFacts DEF NewJob, Goto, Databases
  <2>2. Subsequence(history', tx'.rows)
    BY <2>1, RowsType, HistoryPrefix, PrefixIsSubsequence
  <2> QED BY <2>1, <2>2 DEF SubsequenceInv
<1>10. CASE UNCHANGED turnVars
  BY <1>10 DEF turnVars, SubsequenceInv, Message
<1> QED BY <1>1, <1>2, <1>3, <1>4, <1>5, <1>6, <1>7, <1>8, <1>9, <1>10, Steps

LEMMA FollowNext ==
  ASSUME TypeInv, FollowInv, [TurnNext]_agentVars PROVE FollowInv'
<1>1. Len(tx.rows) \in Nat /\ Len(db.rows) \in Nat
  BY RowsType, LenProperties
<1>2. CASE died /\ died' = died
  BY <1>2 DEF FollowInv
<1>3. CASE died'
  BY <1>3 DEF FollowInv
<1>4. ASSUME ~died, Quiet PROVE FollowInv'
  BY <1>4, QuietKeeps DEF FollowInv
<1>5. ASSUME ~died, SaveUserMessage PROVE FollowInv'
  <2>1. /\ tx'.rows = Append(tx.rows, Message("user")) /\ history' = history /\ pc = "begin"
        /\ pc' = "remember" /\ ~broken' /\ Message("user")' = Message("user") /\ db' = db
        /\ Message("user") \in Messages
    BY <1>5, TypeFacts, SaveMessageType, MessageType DEF SaveUserMessage, Goto, Message
  <2>2. tx.rows = db.rows /\ \E k \in 0 .. Len(db.rows) : history = Remembered(db.rows, k)
    BY <1>5, <2>1 DEF FollowInv
  <2>3. Len(tx'.rows) = Len(tx.rows) + 1
    BY <2>1, RowsType, AppendProperties
  <2>4. Len(db'.rows) <= Len(tx'.rows)
    BY <1>1, <2>1, <2>2, <2>3
  <2> QED BY <2>1, <2>2, <2>4 DEF FollowInv
<1>6. ASSUME ~died, RememberUser PROVE FollowInv'
  <2>1. /\ tx'.rows = tx.rows /\ history' = Append(history, Message("user")) /\ pc = "remember"
        /\ pc' = "speaking" /\ ~broken' /\ Message("user") \in Messages /\ db' = db
    BY <1>6, TypeFacts, StoreTurnType, MessageType DEF RememberUser, Goto
  <2>2. PICK k \in 0 .. Len(db.rows) : history = Remembered(db.rows, k)
    BY <1>6, <2>1 DEF FollowInv
  <2>3. tx.rows = Append(db.rows, Message("user")) /\ Len(db.rows) <= Len(tx.rows)
    BY <1>6, <2>1 DEF FollowInv
  <2>4. history' = Remembered(tx'.rows, k)
    BY <2>1, <2>2, <2>3, RowsType, RememberOneMore
  <2> QED BY <2>1, <2>3, <2>4 DEF FollowInv
<1>7. ASSUME ~died, RecordAnswer PROVE FollowInv'
  <2>1. /\ pc = "answer" /\ pc' = "store" /\ ~broken' /\ db' = db
        /\ Message("assistant") \in Messages
    BY <1>7, TypeFacts, MessageType DEF RecordAnswer, Goto
  <2>2. PICK k \in 0 .. Len(db.rows) : history = Remembered(tx.rows, k)
    BY <1>7, <2>1 DEF FollowInv
  <2>3. Len(db.rows) <= Len(tx.rows)
    BY <1>7 DEF FollowInv
  <2>4. CASE cur.text = "none"
    BY <1>7, <2>1, <2>2, <2>3, <2>4 DEF RecordAnswer, FollowInv
  <2>5. CASE cur.text # "none"
    <3>1. /\ history' = Append(history, Message("assistant"))
          /\ tx'.rows = Append(tx.rows, Message("assistant"))
      BY <1>7, <2>5, TypeFacts, SaveMessageType DEF RecordAnswer
    <3>2. k \in 0 .. Len(tx.rows) /\ Len(tx'.rows) = Len(tx.rows) + 1
      BY <1>1, <2>1, <2>3, <3>1, RowsType, AppendProperties
    <3>3. history' = Remembered(tx'.rows, k)
      BY <2>1, <2>2, <3>1, <3>2, RowsType, RememberOneMore
    <3>4. Len(db'.rows) <= Len(tx'.rows)
      BY <1>1, <2>1, <2>3, <3>2
    <3> QED BY <2>1, <3>3, <3>4 DEF FollowInv
  <2> QED BY <2>4, <2>5
<1>8. ASSUME ~died, RecordOutcome PROVE FollowInv'
  <2>1. /\ tx'.rows = tx.rows /\ db'.rows = tx.rows /\ history' = history /\ ~broken'
        /\ pc = "outcome" /\ pc' = "close"
    BY <1>8, TypeFacts, OutcomeType DEF RecordOutcome, Goto
  <2>2. PICK k \in 0 .. Len(db.rows) : history = Remembered(tx.rows, k)
    BY <1>8, <2>1 DEF FollowInv
  <2>3. k \in 0 .. Len(tx.rows)
    BY <1>1, <1>8 DEF FollowInv
  <2> QED BY <1>1, <2>1, <2>2, <2>3 DEF FollowInv
<1>9. ASSUME ~died, CloseTurn \/ Relisten \/ Utter PROVE FollowInv'
  BY <1>9 DEF CloseTurn, Relisten, Utter, Goto, FollowInv
<1>10. CASE TurnDies
  BY <1>3, <1>10 DEF TurnDies
<1>11. ASSUME ~died, ~died', DatabaseFails PROVE FollowInv'
  <2>1. pc \in {"context", "executor"} /\ pc' = "answer" /\ UNCHANGED <<history, died, tx, db>>
    BY <1>11 DEF DatabaseFails, Goto
  <2> QED BY <1>11, <2>1 DEF FollowInv
<1>12. CASE NewJob
  <2>1. /\ history' = LoadHistory(db.rows) /\ tx'.rows = db.rows /\ db'.rows = db.rows
        /\ pc' = "idle" /\ ~broken'
    BY <1>12, TypeFacts DEF NewJob, Goto, Databases
  <2>2. history' = Remembered(tx'.rows, Len(db'.rows))
    BY <2>1, RowsType, RememberAllFound
  <2>3. Len(db'.rows) \in 0 .. Len(db'.rows) /\ Len(db'.rows) <= Len(tx'.rows)
    BY <1>1, <2>1
  <2> QED BY <2>1, <2>2, <2>3 DEF FollowInv
<1>13. CASE UNCHANGED turnVars
  BY <1>13 DEF turnVars, FollowInv, Message
<1>14. Quiet \/ SaveUserMessage \/ RememberUser \/ RecordAnswer \/ RecordOutcome \/ CloseTurn
       \/ Relisten \/ Utter => died' = died
  BY QuietKeeps DEF SaveUserMessage, RememberUser, RecordAnswer, RecordOutcome, CloseTurn,
                    Relisten, Utter
<1>15. DatabaseFails => died' \in {TRUE, died}
  BY DEF DatabaseFails
<1>16. died \in BOOLEAN /\ died' \in BOOLEAN
  BY NextTypes DEF TypeInv, TurnTypeOK
<1> QED BY <1>2, <1>3, <1>4, <1>5, <1>6, <1>7, <1>8, <1>9, <1>10, <1>11, <1>12, <1>13, <1>14,
           <1>15, <1>16, Steps

(* For any number of turns, jobs and faults, and any page of history: what the
   agents remember is part of the saved transcript, in its order, and a job none of
   whose turns failed remembers the page it found and everything since. *)
THEOREM HistoriesAreTranscripts == TurnSpec => []HistoryIsTranscript
<1>1. TurnInit => SubsequenceInv /\ FollowInv
  <2> SUFFICES ASSUME TurnInit PROVE SubsequenceInv /\ FollowInv
    OBVIOUS
  <2>1. history = <<>> /\ tx.rows = <<>> /\ db.rows = <<>> /\ pc = "idle" /\ ~broken
    BY DEF TurnInit, EmptyDb
  <2>2. <<>> \in Seq(Messages) /\ Len(<<>>) = 0
    BY EmptySeq
  <2>3. Subsequence(history, tx.rows)
    <3>1. 0 \in 0 .. Len(tx.rows) /\ Len(history) = 0 /\ 1 .. 0 = {}
      BY <2>1, <2>2
    <3> QED BY <2>1, <2>2, <3>1, PrefixIsSubsequence
  <2>4. history = Remembered(tx.rows, 0)
    <3>1. LoadHistory(<<>>) = <<>>
      <4>1. LoadHistory(<<>>) \in Seq(Messages) /\ Len(LoadHistory(<<>>)) \in 0 .. Len(<<>>)
        BY <2>2, HistoryPrefix
      <4>2. Len(LoadHistory(<<>>)) = 0
        BY <2>2, <4>1
      <4> HIDE DEF LoadHistory
      <4> QED BY <4>1, <4>2, EmptySeq
    <3> QED BY <2>1, <2>2, <3>1, RememberAllFound
  <2> QED BY <2>1, <2>2, <2>3, <2>4 DEF SubsequenceInv, FollowInv
<1>2. TypeInv /\ SubsequenceInv /\ FollowInv /\ [TurnNext]_agentVars
        => SubsequenceInv' /\ FollowInv'
  BY SubsequenceNext, FollowNext
<1>3. TypeInv /\ SubsequenceInv /\ FollowInv => HistoryIsTranscript
  <2> SUFFICES ASSUME TypeInv, SubsequenceInv, FollowInv PROVE HistoryIsTranscript
    OBVIOUS
  <2>1. ASSUME ~broken PROVE Subsequence(history, tx.rows)
    <3>1. CASE pc = "remember"
      <4>1. Message("user") \in Messages
        BY <3>1, TypeFacts, MessageType
      <4> QED BY <2>1, <3>1, <4>1, TypeFacts, SubsequenceOfLonger DEF SubsequenceInv
    <3> QED BY <2>1, <3>1 DEF SubsequenceInv
  <2>2. ASSUME pc = "idle", ~died
        PROVE  \E k \in 0 .. Len(db.rows) : history = Remembered(db.rows, k)
    BY <2>2 DEF FollowInv
  <2> QED BY <2>1, <2>2 DEF HistoryIsTranscript, Remembered
<1> QED BY <1>1, <1>2, <1>3, TypeInvariant, PTL DEF TurnSpec
=============================================================================
