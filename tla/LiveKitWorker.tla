--------------------------- MODULE LiveKitWorker ----------------------------
(***************************************************************************)
(* LiveKit jobs that serve one voice session: the token endpoint that      *)
(* dispatches them, the worker's entrypoint, and the session runner with   *)
(* its ingress, its listener and its shutdown.                             *)
(*                                                                         *)
(* Every token request dispatches an agent, so that several jobs may be in *)
(* the room.  A job is a process of its own: its queue, its tasks and its  *)
(* gauge are not shared; the session's row and its state in Redis are.     *)
(* The participant leaves and rejoins at any time, the framework asks a    *)
(* job to stop, a job's process dies, Redis, the database and the speech   *)
(* recognition fail.  A statement that reads the row and one that writes   *)
(* it are steps of their own; the UPDATE and its commit are one, since     *)
(* until then others see the old row and do not get past its lock.  Only a *)
(* turn that failed after it wrote the row leaves it written, locked and   *)
(* not committed, until the next commit of its job.                        *)
(***************************************************************************)
EXTENDS Integers, FiniteSets

CONSTANTS
  Jobs,
  QueueSize,  \* maxsize of _audio_queue
  Faults,     \* which of "dispatch", "setup", "redis", "db", "stt", "turn", "job", "stop" happen
  MaxJoins    \* bound: times the participant joins

ASSUME LiveKitAssumption == QueueSize \in Nat \ {0} /\ MaxJoins \in Nat

VARIABLES
  status,   \* of the session's row
  phase,    \* of the session's state in Redis, "absent" without one
  token,    \* the client has a token
  present,  \* the participant is in the room
  joins,
  job       \* job -> its state

vars == <<status, phase, token, present, joins, job>>

(***************************************************************************)
(* A job: where the entrypoint is; whether prepare went through and what   *)
(* the job added to active_sessions; shutdown_event and the grace timers   *)
(* that will set it; the ingress task, which may have seen the phase       *)
(* SPEAKING and be about to interrupt; the listening task, its queue and   *)
(* its interrupt event; a handle_reconnect that was asked for, or has read *)
(* the row; an open transaction in which the session is handoff_pending; a *)
(* failed end_session.                                                     *)
(***************************************************************************)
NoJob ==
  [pc |-> "idle", prepared |-> FALSE, gauge |-> 0, stop |-> FALSE, timers |-> 0,
   ear |-> "off", listen |-> "off", queue |-> 0, irq |-> FALSE, rejoin |-> "no",
   open |-> FALSE, endFailed |-> FALSE]

Init ==
  /\ status = "created" /\ phase = "idle"
  /\ token = FALSE /\ present = FALSE /\ joins = 0
  /\ job = [j \in Jobs |-> NoJob]

Set(j, r) == job' = [job EXCEPT ![j] = r]

(* The finally clause of the entrypoint, however it is reached: shutdown cancels
   the tasks of the runner, and waits for none of them.  What a cancelled task
   was doing, and its interrupt event, matter to nobody any more. *)
Cancel(t) == IF t \in {"off", "over"} THEN t ELSE "cancelled"

Finally(j) ==
  [job[j] EXCEPT !.pc = "put", !.ear = Cancel(@), !.listen = Cancel(@), !.irq = FALSE]

ShuttingDown(j) == job[j].pc \in {"put", "end", "endupd"}

(* The tasks go on until they are cancelled. *)
Running(j) == job[j].pc = "run"

(* The status as the transaction of a job sees it, and as its commit leaves
   it; a write of the row waits for the open transaction of another job. *)
Seen(j) == IF job[j].open THEN "handoff_pending" ELSE status

RowFree(j) == \A k \in Jobs \ {j} : ~job[k].open

-----------------------------------------------------------------------------
(* dispatch_agent: an agent for the room, or an error that is logged *)
DispatchAgent(j) ==
  \/ Set(j, [job[j] EXCEPT !.pc = "setup"])
  \/ "dispatch" \in Faults /\ UNCHANGED job

CreateParticipantToken == token' = TRUE

(* create_livekit_token: the token is issued whether or not the dispatch
   works. *)
CreateLivekitToken(j) ==
  /\ job[j].pc = "idle"
  /\ CreateParticipantToken
  /\ DispatchAgent(j)
  /\ UNCHANGED <<status, phase, present, joins>>

(* Participants: the room's events reach the jobs whose handlers are
   registered, which is once their tasks are started, and until they are
   over. *)
Registered(j) == Running(j) \/ (ShuttingDown(j) /\ job[j].listen # "off")

(* participant_connected: handle_reconnect in a task of its own *)
Join ==
  /\ token /\ ~present /\ joins < MaxJoins
  /\ present' = TRUE /\ joins' = joins + 1
  /\ job' = [j \in Jobs |-> IF Registered(j) THEN [job[j] EXCEPT !.rejoin = "asked"] ELSE job[j]]
  /\ UNCHANGED <<status, phase, token>>

(* participant_disconnected: the grace timer; the stream of the participant's
   track ends, and the ingress task with it *)
Leave ==
  /\ present
  /\ present' = FALSE
  /\ job' = [j \in Jobs |->
       IF Registered(j)
       THEN [job[j] EXCEPT !.timers = @ + 1, !.ear = IF @ = "off" THEN @ ELSE "over"]
       ELSE IF job[j].pc = "track" THEN [job[j] EXCEPT !.ear = "over"] ELSE job[j]]
  /\ UNCHANGED <<status, phase, token, joins>>

-----------------------------------------------------------------------------
(* entrypoint up to the runner: without a runner there is nothing to shut
   down *)
Setup(j) ==
  /\ job[j].pc = "setup"
  /\ \/ Set(j, [job[j] EXCEPT !.pc = "prepare"])
     \/ "setup" \in Faults /\ Set(j, [job[j] EXCEPT !.pc = "done"])
  /\ UNCHANGED <<status, phase, token, present, joins>>

(* prepare: activate_session reads the status; an active session stays as it is.
   Then load_history, commit and active_sessions.inc. *)
Prepared(r) == [r EXCEPT !.pc = "wait", !.prepared = TRUE, !.gauge = @ + 1]

Prepare(j) ==
  /\ job[j].pc = "prepare" /\ status # "completed"
  /\ Set(j, IF status = "active" THEN Prepared(job[j]) ELSE [job[j] EXCEPT !.pc = "activate"])
  /\ UNCHANGED <<status, phase, token, present, joins>>

(* update_status, which does not look at the status again, and the phase *)
Activate(j) ==
  /\ job[j].pc = "activate" /\ RowFree(j)
  /\ status' = "active"
  /\ phase' = "listening"
  /\ Set(j, Prepared(job[j]))
  /\ UNCHANGED <<token, present, joins>>

PrepareFails(j) ==
  /\ job[j].pc \in {"prepare", "activate"}
  /\ Faults \cap {"redis", "db"} # {} \/ (job[j].pc = "prepare" /\ status = "completed")
  /\ Set(j, Finally(j))
  /\ UNCHANGED <<status, phase, token, present, joins>>

(* wait_for_participant, which raises when the job is asked to stop *)
WaitForParticipant(j) ==
  /\ job[j].pc = "wait"
  /\ \/ present /\ Set(j, [job[j] EXCEPT !.pc = "track"])
     \/ job[j].stop /\ Set(j, Finally(j))
  /\ UNCHANGED <<status, phase, token, present, joins>>

BugNoAudioTrack(j) ==
  /\ job[j].pc = "track"
  /\ Set(j, [job[j] EXCEPT !.pc = "done"])
  /\ UNCHANGED <<status, phase, token, present, joins>>

(* _wait_for_audio_track gives up: return, through the finally clause *)
NoAudioTrack(j) ==
  /\ job[j].pc = "track"
  /\ Set(j, Finally(j))
  /\ UNCHANGED <<status, phase, token, present, joins>>

(* The track is found, the handlers are registered, start makes the tasks. *)
Start(j) ==
  /\ job[j].pc = "track" /\ present /\ job[j].ear = "off"
  /\ Set(j, [job[j] EXCEPT !.pc = "run", !.ear = "on", !.listen = "stt"])
  /\ UNCHANGED <<status, phase, token, present, joins>>

-----------------------------------------------------------------------------
(* _ingress_audio: a full queue loses its oldest frame; the phase is read
   before the frame is queued. *)
Queued(r) == [r EXCEPT !.queue = IF @ < QueueSize THEN @ + 1 ELSE QueueSize]

IngressFrame(j) ==
  /\ Running(j) /\ job[j].ear = "on" /\ present
  /\ Set(j, IF phase = "speaking" THEN [job[j] EXCEPT !.ear = "barge"] ELSE Queued(job[j]))
  /\ UNCHANGED <<status, phase, token, present, joins>>

(* _maybe_barge_in goes on: interrupt, whatever the phase is by now *)
BargeIn(j) ==
  /\ Running(j) /\ job[j].ear = "barge"
  /\ Set(j, [Queued(job[j]) EXCEPT !.ear = "on", !.irq = TRUE])
  /\ UNCHANGED <<status, phase, token, present, joins>>

(* Redis fails under _maybe_barge_in: the task ends, nobody waits for it. *)
IngressDies(j) ==
  /\ "redis" \in Faults /\ Running(j) /\ job[j].ear \in {"on", "barge"}
  /\ Set(j, [job[j] EXCEPT !.ear = "over"])
  /\ UNCHANGED <<status, phase, token, present, joins>>

(* handle_client_interrupt, on a data message of the participant; while the job
   shuts down it sets an event nobody waits for *)
HandleClientInterrupt(j) ==
  /\ Running(j) /\ present /\ ~job[j].irq
  /\ Set(j, [job[j] EXCEPT !.irq = TRUE])
  /\ UNCHANGED <<status, phase, token, present, joins>>

-----------------------------------------------------------------------------
(* _continuous_listening: run_listening again and again, each with a new
   interrupt event. *)
Again(r) == [r EXCEPT !.listen = "stt", !.irq = FALSE]

(* A frame without an event of the recognition. *)
Listen(j) ==
  /\ Running(j) /\ job[j].listen = "stt" /\ job[j].queue > 0
  /\ Set(j, [job[j] EXCEPT !.queue = @ - 1])
  /\ UNCHANGED <<status, phase, token, present, joins>>

(* An event, with a set interrupt: the listener starts over, the event is lost. *)
DropEvent(j) ==
  /\ Running(j) /\ job[j].listen = "stt" /\ job[j].queue > 0 /\ job[j].irq
  /\ Set(j, Again([job[j] EXCEPT !.queue = @ - 1]))
  /\ UNCHANGED <<status, phase, token, present, joins>>

(* A final transcript: _process_turn with an interrupt event of its own,
   update_phase(PROCESSING) *)
BeginTurn(j) ==
  /\ Running(j) /\ job[j].listen = "stt" /\ job[j].queue > 0 /\ ~job[j].irq /\ phase # "absent"
  /\ phase' = "processing"
  /\ Set(j, [job[j] EXCEPT !.queue = @ - 1, !.irq = FALSE, !.listen = "think"])
  /\ UNCHANGED <<status, token, present, joins>>

(* update_phase(SPEAKING), then the answer *)
Speak(j) ==
  /\ Running(j) /\ job[j].listen = "think" /\ phase # "absent"
  /\ phase' = "speaking"
  /\ Set(j, [job[j] EXCEPT !.listen = "speak"])
  /\ UNCHANGED <<status, token, present, joins>>

(* The end of the turn: the commit, then update_phase(LISTENING); the interrupt
   event stays as it is.  A turn that asked for a human has put the session in
   handoff_pending, whatever its status was, and its state back into Redis. *)
EndTurn(j) ==
  /\ Running(j) /\ job[j].listen = "speak"
  /\ \/ phase # "absent" /\ status' = Seen(j)
     \/ RowFree(j) /\ status' = "handoff_pending"
  /\ phase' = "listening"
  /\ Set(j, [job[j] EXCEPT !.listen = "stt", !.open = FALSE])
  /\ UNCHANGED <<token, present, joins>>

(* The turn raises, for a fault or because another job ended the session and
   its state is gone: run_listening reports it and is called again; the
   phase stays as it is, and nobody rolls back what the turn's handoff wrote. *)
TurnFails(j) ==
  /\ Running(j) /\ job[j].listen \in {"think", "speak"}
  /\ \/ /\ phase = "absent" \/ "turn" \in Faults
        /\ Set(j, Again(job[j]))
     \/ /\ "turn" \in Faults /\ RowFree(j)
        /\ Set(j, [Again(job[j]) EXCEPT !.open = TRUE])
  /\ UNCHANGED <<status, phase, token, present, joins>>

SttFails(j) ==
  /\ "stt" \in Faults /\ Running(j) /\ job[j].listen = "stt" /\ job[j].irq
  /\ Set(j, Again(job[j]))
  /\ UNCHANGED <<status, phase, token, present, joins>>

-----------------------------------------------------------------------------
(* The loop comes to the cancelled tasks, which get their CancelledError. *)
TasksEnd(j) ==
  /\ ShuttingDown(j) /\ job[j].listen = "cancelled"
  /\ Set(j, [job[j] EXCEPT !.ear = "over", !.listen = "over"])
  /\ UNCHANGED <<status, phase, token, present, joins>>

(* handle_reconnect, in a task nobody cancels: resume_session reads the row, and
   a terminal session raises *)
ReadReconnect(j) ==
  /\ job[j].rejoin = "asked"
  /\ Set(j, [job[j] EXCEPT !.rejoin = IF Seen(j) = "completed" THEN "no" ELSE "read"])
  /\ UNCHANGED <<status, phase, token, present, joins>>

(* then it writes the state if it is missing, even if the session ended since,
   and commits *)
HandleReconnect(j) ==
  /\ job[j].rejoin = "read"
  /\ phase' = IF phase = "absent" THEN "listening" ELSE phase
  /\ status' = Seen(j)
  /\ Set(j, [job[j] EXCEPT !.rejoin = "no", !.open = FALSE])
  /\ UNCHANGED <<token, present, joins>>

(* _delayed_shutdown: the timer of a disconnect, which nothing cancels *)
DelayedShutdown(j) ==
  /\ job[j].timers > 0
  /\ Set(j, [job[j] EXCEPT !.timers = @ - 1, !.stop = TRUE])
  /\ UNCHANGED <<status, phase, token, present, joins>>

(* The shutdown callback of the framework. *)
RequestShutdown(j) ==
  /\ "stop" \in Faults /\ job[j].pc \in {"setup", "prepare", "activate", "wait", "track", "run"}
  /\ ~job[j].stop
  /\ Set(j, [job[j] EXCEPT !.stop = TRUE])
  /\ UNCHANGED <<status, phase, token, present, joins>>

BugStopRunning(j) ==
  /\ job[j].pc = "run" /\ job[j].stop /\ job[j].ear = "over"
  /\ Set(j, Finally(j))
  /\ UNCHANGED <<status, phase, token, present, joins>>

(* shutdown_event.wait returns *)
StopRunning(j) ==
  /\ job[j].pc = "run" /\ job[j].stop
  /\ Set(j, Finally(j))
  /\ UNCHANGED <<status, phase, token, present, joins>>

(* _audio_queue.put(None): waits while the queue is full, and the tasks that
   would empty it have been told to stop *)
PutSentinel(j) ==
  /\ job[j].pc = "put" /\ job[j].queue < QueueSize
  /\ Set(j, [job[j] EXCEPT !.queue = 0, !.pc = "end"])
  /\ UNCHANGED <<status, phase, token, present, joins>>

(* The job is over, and its timers and tasks; a reconnect under way may outlive
   it until the process is gone. *)
Exited(r, failed) ==
  [NoJob EXCEPT !.pc = "done", !.prepared = r.prepared, !.gauge = r.gauge - 1,
                !.rejoin = r.rejoin, !.endFailed = failed]

(* The end of shutdown: clear_session and active_sessions.dec.  Deleting the
   state in Redis is best effort. *)
Over(j) ==
  /\ phase' \in {"absent"} \cup IF "redis" \in Faults THEN {phase} ELSE {}
  /\ Set(j, Exited(job[j], FALSE))

(* end_session reads the status: an ended session is left as it is *)
EndSession(j) ==
  /\ job[j].pc = "end"
  /\ IF Seen(j) = "completed" THEN Over(j)
     ELSE Set(j, [job[j] EXCEPT !.pc = "endupd"]) /\ UNCHANGED phase
  /\ UNCHANGED <<status, token, present, joins>>

(* else it writes it, and commits *)
EndUpdate(j) ==
  /\ job[j].pc = "endupd" /\ RowFree(j)
  /\ status' = "completed"
  /\ Over(j)
  /\ UNCHANGED <<token, present, joins>>

(* A failure of either is logged. *)
EndFails(j) ==
  /\ "db" \in Faults /\ job[j].pc \in {"end", "endupd"}
  /\ Set(j, Exited(job[j], TRUE))
  /\ UNCHANGED <<status, phase, token, present, joins>>

(* The process of the job dies; the room may get another job. *)
JobDies(j) ==
  /\ "job" \in Faults /\ job[j].pc \notin {"idle", "done", "dead"}
  /\ Set(j, [NoJob EXCEPT !.pc = "dead", !.prepared = job[j].prepared])
  /\ UNCHANGED <<status, phase, token, present, joins>>

-----------------------------------------------------------------------------
(* The entrypoint's own steps, and the timers that end it. *)
Entrypoint(j) ==
  \/ Setup(j) \/ Prepare(j) \/ Activate(j) \/ PrepareFails(j) \/ WaitForParticipant(j)
  \/ NoAudioTrack(j) \/ Start(j) \/ StopRunning(j)
  \/ PutSentinel(j) \/ EndSession(j) \/ EndUpdate(j) \/ EndFails(j)

Tasks(j) ==
  \/ IngressFrame(j) \/ BargeIn(j) \/ IngressDies(j) \/ HandleClientInterrupt(j)
  \/ Listen(j) \/ DropEvent(j) \/ BeginTurn(j) \/ Speak(j) \/ EndTurn(j)
  \/ TurnFails(j) \/ SttFails(j) \/ TasksEnd(j)
  \/ ReadReconnect(j) \/ HandleReconnect(j)

Next ==
  \/ Join \/ Leave
  \/ \E j \in Jobs :
       \/ CreateLivekitToken(j) \/ Entrypoint(j) \/ Tasks(j)
       \/ DelayedShutdown(j) \/ RequestShutdown(j) \/ JobDies(j)

Spec == Init /\ [][Next]_vars

(* The event loop of a job runs its coroutines and its timers. *)
FairSpec ==
  Spec /\ \A j \in Jobs : WF_vars(Entrypoint(j)) /\ WF_vars(DelayedShutdown(j))

-----------------------------------------------------------------------------
JobState ==
  [pc : {"idle", "setup", "prepare", "activate", "wait", "track", "run", "put", "end", "endupd",
         "done", "dead"},
   prepared : BOOLEAN, gauge : Int, stop : BOOLEAN, timers : Nat,
   ear : {"off", "on", "barge", "cancelled", "over"},
   listen : {"off", "stt", "think", "speak", "cancelled", "over"},
   queue : 0 .. QueueSize, irq : BOOLEAN, rejoin : {"no", "asked", "read"},
   open : BOOLEAN, endFailed : BOOLEAN]

(* The queue of a job, like every other field, stays within its bounds. *)
TypeOK ==
  /\ status \in {"created", "active", "handoff_pending", "completed"}
  /\ phase \in {"idle", "listening", "processing", "speaking", "absent"}
  /\ token \in BOOLEAN /\ present \in BOOLEAN /\ joins \in 0 .. MaxJoins
  /\ job \in [Jobs -> JobState]

(* A job may put a session back that another one ended: its activation read the
   row before, or its turn, perhaps a failed one that a later commit saved, hands
   over to a human.  But then it has yet to end the session itself: when all jobs
   of the room are over, the session is completed, unless a job logged that it
   could not end it, or died; and on every way out a prepared job takes itself
   out of active_sessions. *)
JobSettles ==
  /\ \A j \in Jobs : job[j].pc = "done" /\ job[j].prepared => job[j].gauge = 0
  /\ (\A j \in Jobs : job[j].pc \in {"idle", "done", "dead"}) /\ (\E j \in Jobs : job[j].prepared)
       => \/ status = "completed"
          \/ \E j \in Jobs : job[j].endFailed \/ (job[j].pc = "dead" /\ job[j].prepared)

(* A participant who leaves a running job, and a stop asked for by the
   framework, end the job, unless the queue was full when its readers were
   cancelled: then the put of the sentinel never returns; or unless a failed
   turn of another job left the session's row locked. *)
StopEnds ==
  \A j \in Jobs :
    job[j].timers > 0 \/ job[j].stop
      ~> \/ job[j].pc \in {"done", "dead"}
         \/ job[j].pc = "put" /\ job[j].queue = QueueSize
         \/ job[j].pc \in {"activate", "endupd"} /\ ~RowFree(j)

(* "Reconnect within grace: session resumes, pipeline continues": a grace
   timer stops the job only while the participant is away. *)
RejoinKeepsSession ==
  [][\A j \in Jobs : job'[j].timers < job[j].timers /\ job'[j].stop # job[j].stop => ~present]_vars
=============================================================================
