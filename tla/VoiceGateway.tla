----------------------------- MODULE VoiceGateway -----------------------------
(***************************************************************************)
(* One voice WebSocket: the receive loop, its control messages, and the    *)
(* listening and heartbeat tasks it starts.                                *)
(*                                                                         *)
(* api/ws/voice.py and modules/voice_gateway/application/pipeline.py.  The *)
(* tasks of one event loop interleave at every await, so a handler is one  *)
(* step per call that waits.  The loop and its listening tasks share one   *)
(* audio queue, one interrupt event and one database session: a commit of  *)
(* either publishes what both have flushed.  Session i is the one created  *)
(* by the i-th start; a resume starts a new task for an old session.  What *)
(* is said, heard and sent is left out, its order is not.                  *)
(***************************************************************************)
EXTENDS Integers, Sequences, FiniteSets

CONSTANTS Msgs,        \* the messages the client sends
          Faults,      \* what may go wrong
          MaxStarts,   \* bound: start messages of one connection
          MaxTurns,    \* bound: committed turns of a session
          QMax         \* WS_AUDIO_QUEUE_MAX_FRAMES

ASSUME MsgsAssumption ==
  Msgs \subseteq {"start", "restart", "resume", "audio", "end", "interrupt",
                  "ping"}
ASSUME FaultsAssumption ==
  Faults \subseteq {"refuse", "db", "bootstrap", "send", "pipeline", "redis",
                    "cleanup"}
ASSUME BoundsAssumption ==
  MaxStarts \in Nat /\ MaxTurns \in Nat /\ QMax \in Nat \ {0}

VARIABLES
  conn,    \* the receive loop, then the steps of its finally block
  hpc,     \* where the control message being handled waits
  starts,  \* start messages so far: the newest session and task
  sid,     \* session_id of the loop
  held,    \* listening_task and heartbeat_task of the loop
  sess,    \* voice_sessions status
  of,      \* the session a task listens for
  task,    \* the listening tasks
  reader,  \* the STT provider's reader of the audio queue, per task
  heard,   \* sessions whose frames an STT stream holds, per task
  queue,   \* audio_queue: the session of each frame, or the end sentinel
  intr,    \* pipeline._interrupt_event is set
  dirty,   \* sessions with rows flushed and not committed
  saved,   \* turns committed per session
  beats,   \* tasks whose heartbeat loop runs
  gauge    \* active_sessions

vars == <<conn, hpc, starts, sid, held, sess, of, task, reader, heard, queue,
          intr, dirty, saved, beats, gauge>>

loop == <<conn, hpc, starts, sid, held>>
listening == <<of, task, reader, heard>>
database == <<sess, dirty, saved>>

None == 0                      \* no session, no task, the end sentinel
Ids == 1..MaxStarts
Stopped == {"none", "done"}
InTurn == {"user", "answer", "commit", "clear"}

Running(n) == task[n] \notin Stopped
Active == {i \in Ids : sess[i] = "active"}

Init ==
  /\ conn = "open" /\ hpc = "idle"
  /\ starts = 0 /\ sid = None /\ held = None
  /\ sess = [i \in Ids |-> "none"]
  /\ of = [n \in Ids |-> None]
  /\ task = [n \in Ids |-> "none"]
  /\ reader = [n \in Ids |-> "off"]
  /\ heard = [n \in Ids |-> {}]
  /\ queue = <<>>
  /\ intr = FALSE
  /\ dirty = {}
  /\ saved = [i \in Ids |-> 0]
  /\ beats = {}
  /\ gauge = 0

-----------------------------------------------------------------------------
(* db_session.commit(): one transaction for the loop and its tasks.        *)
Publish ==
  /\ saved' = [i \in Ids |-> IF i \in dirty THEN saved[i] + 1 ELSE saved[i]]
  /\ dirty' = {}

Stop(n) ==
  /\ task' = [task EXCEPT ![n] = "done"]
  /\ reader' = [reader EXCEPT ![n] = "off"]
  /\ heard' = [heard EXCEPT ![n] = {}]

(* Mutant: the queue is not emptied before the sentinel is put.             *)
BugSignalAudioEnd ==
  queue' = Append(IF Len(queue) < QMax THEN queue ELSE Tail(queue), None)

(* _signal_audio_end, with a listener about to be cancelled: its reader,    *)
(* when it waits for the queue, is woken first and takes the sentinel.     *)
SignalAudioEnd ==
  \/ queue' = <<None>>
  \/ held # None /\ reader[held] = "on" /\ queue' = <<>>

(* Mutant: the loop forgets its tasks without cancelling them.              *)
BugCancelTasks == UNCHANGED <<listening, beats>>

(* listening_task.cancel() and heartbeat_task.cancel(): a cancelled task    *)
(* runs nothing more than its CancelledError.                              *)
CancelTasks ==
  /\ IF held = None THEN UNCHANGED <<task, reader, heard>> ELSE Stop(held)
  /\ beats' = beats \ {held}
  /\ UNCHANGED of

(* An exception, or a disconnect, leaves the receive loop.                  *)
Leave == conn' = "closing" /\ hpc' = "idle"

(* The handler is done; session_id of the result becomes the loop's, and a *)
(* result without one becomes None.                                        *)
Return(s) == hpc' = "idle" /\ sid' = s /\ UNCHANGED <<conn, starts>>

(* The answer is sent before the handler returns; a client that is gone by *)
(* then makes send_json raise.                                             *)
Reply(s) == Return(s) \/ ("send" \in Faults /\ Leave /\ UNCHANGED <<starts, sid>>)

Serving(m) == conn = "open" /\ hpc = "idle" /\ m \in Msgs

-----------------------------------------------------------------------------
(* {"type": "start"} *)

(* "start" is the client that waits for its last session to end, "restart" *)
(* the one that does not.                                                  *)
MayStart == \/ Serving("start") /\ Active = {}
            \/ Serving("restart")

(* Not authenticated, over the limit, or a session that does not exist.     *)
RefuseStart ==
  /\ MayStart /\ "refuse" \in Faults
  /\ Reply(None)
  /\ UNCHANGED <<held, database, listening, queue, intr, beats, gauge>>

(* create_session and activate_session, flushed.                            *)
StartCreate ==
  /\ MayStart
  /\ starts < MaxStarts
  /\ starts' = starts + 1
  /\ of' = [of EXCEPT ![starts + 1] = starts + 1]
  /\ hpc' = "start"
  /\ UNCHANGED <<conn, sid, held, database, task, reader, heard, queue, intr,
                 beats, gauge>>

(* The same with the id of a session: a terminal one raises                *)
(* SessionStateError, which nothing but the loop catches.                  *)
StartResume ==
  /\ Serving("resume")
  /\ starts < MaxStarts
  /\ \E i \in Ids :
       \/ /\ sess[i] = "active"
          /\ starts' = starts + 1
          /\ of' = [of EXCEPT ![starts + 1] = i]
          /\ hpc' = "start"
          /\ UNCHANGED conn
       \/ /\ sess[i] = "ended"
          /\ Leave
          /\ UNCHANGED <<starts, of>>
  /\ UNCHANGED <<sid, held, database, task, reader, heard, queue, intr, beats,
                 gauge>>

StartCommit ==
  /\ hpc = "start"
  /\ Publish
  /\ sess' = [sess EXCEPT ![of[starts]] = "active"]
  /\ hpc' = "tasks"
  /\ UNCHANGED <<conn, starts, sid, held, listening, queue, intr, beats, gauge>>

(* bootstrap_session_agent_config, history, the gauge and both tasks.       *)
StartTasks ==
  /\ hpc = "tasks"
  /\ task' = [task EXCEPT ![starts] = "ready"]
  /\ beats' = beats \cup {starts}
  /\ gauge' = gauge + 1
  /\ hpc' = "started"
  /\ UNCHANGED <<conn, starts, sid, held, database, of, reader, heard, queue,
                 intr>>

(* Only after "started" is sent does the loop learn the session and its    *)
(* tasks.                                                                  *)
StartReturn ==
  /\ hpc = "started"
  /\ \/ Return(of[starts]) /\ held' = starts
     \/ "send" \in Faults /\ Leave /\ UNCHANGED <<starts, sid, held>>
  /\ UNCHANGED <<database, listening, queue, intr, beats, gauge>>

-----------------------------------------------------------------------------
(* The other messages *)

(* _enqueue_audio_frame: a full queue drops its oldest element.             *)
Enqueue(q, f) == Append(IF Len(q) < QMax THEN q ELSE Tail(q), f)

Audio ==
  /\ Serving("audio")
  /\ sid # None
  /\ queue' = Enqueue(queue, sid)
  /\ UNCHANGED <<loop, database, listening, intr, beats, gauge>>

(* ping, whose record_heartbeat may raise, an unknown type and invalid     *)
(* JSON: the result has no session_id.                                     *)
Ping ==
  /\ Serving("ping")
  /\ \/ Reply(None)
     \/ "db" \in Faults /\ sid # None /\ Leave /\ UNCHANGED <<starts, sid>>
  /\ UNCHANGED <<held, database, listening, queue, intr, beats, gauge>>

(* pipeline.interrupt: set_interrupt in Redis, then the event.              *)
InterruptFlag ==
  /\ Serving("interrupt")
  /\ sid # None
  /\ hpc' = "interrupt"
  /\ UNCHANGED <<conn, starts, sid, held, database, listening, queue, intr,
                 beats, gauge>>

InterruptEvent ==
  /\ hpc = "interrupt"
  /\ intr' = TRUE
  /\ Reply(None)
  /\ UNCHANGED <<held, database, listening, queue, beats, gauge>>

(* The sentinel and the cancellation come before anything waits.            *)
End ==
  /\ Serving("end")
  /\ sid # None
  /\ SignalAudioEnd
  /\ CancelTasks
  /\ hpc' = "end"
  /\ UNCHANGED <<conn, starts, sid, held, database, intr, gauge>>

(* end_session, commit, clear_session and the gauge.                        *)
EndCommit ==
  /\ hpc = "end"
  /\ Publish
  /\ sess' = [sess EXCEPT ![sid] = "ended"]
  /\ gauge' = gauge - 1
  /\ hpc' = "ended"
  /\ UNCHANGED <<conn, starts, sid, held, listening, queue, intr, beats>>

EndReturn ==
  /\ hpc = "ended"
  /\ Reply(None)
  /\ UNCHANGED <<held, database, listening, queue, intr, beats, gauge>>

(* A call of a handler raises: before the session is committed, in the     *)
(* bootstrap after it, or while a session is interrupted or ended.         *)
HandlerFails ==
  /\ \/ "db" \in Faults /\ hpc \in {"start", "interrupt", "end"}
     \/ "bootstrap" \in Faults /\ hpc = "tasks"
  /\ Leave
  /\ UNCHANGED <<starts, sid, held, database, listening, queue, intr, beats,
                 gauge>>

-----------------------------------------------------------------------------
(* The end of the connection *)

Disconnect ==
  /\ conn = "open" /\ hpc = "idle"
  /\ Leave
  /\ UNCHANGED <<starts, sid, held, database, listening, queue, intr, beats,
                 gauge>>

(* The database session is closed before the finally block, its tasks are  *)
(* still running.                                                          *)
CloseDatabase ==
  /\ conn = "closing"
  /\ dirty' = {}
  /\ conn' = "finally"
  /\ UNCHANGED <<hpc, starts, sid, held, sess, saved, listening, queue, intr,
                 beats, gauge>>


CleanUp ==
  /\ conn = "finally"
  /\ CancelTasks
  /\ SignalAudioEnd
  /\ IF sid = None
       THEN conn' = "closed" /\ UNCHANGED gauge
       ELSE conn' = "ending" /\ gauge' = gauge - 1
  /\ UNCHANGED <<hpc, starts, sid, held, database, intr>>

(* end_session in a database session of its own; a failure is logged.       *)
CleanUpSession ==
  /\ conn = "ending"
  /\ conn' = "closed"
  /\ \/ sess' = [sess EXCEPT ![sid] = "ended"]
     \/ "cleanup" \in Faults /\ UNCHANGED sess
  /\ UNCHANGED <<hpc, starts, sid, held, dirty, saved, listening, queue, intr,
                 beats, gauge>>

-----------------------------------------------------------------------------
(* run_listening and _process_turn *)

Advance(n, t) == task' = [task EXCEPT ![n] = t]

Listen(n) ==
  /\ task[n] = "ready"
  /\ Advance(n, "listen")
  /\ reader' = [reader EXCEPT ![n] = "on"]
  /\ intr' = FALSE
  /\ UNCHANGED <<loop, database, of, heard, queue, beats, gauge>>

(* audio_stream: the provider reads on while a turn is processed.           *)
ReadAudio(n) ==
  /\ reader[n] = "on"
  /\ queue # <<>>
  /\ queue' = Tail(queue)
  /\ IF Head(queue) = None
       THEN reader' = [reader EXCEPT ![n] = "eof"] /\ UNCHANGED heard
       ELSE heard' = [heard EXCEPT ![n] = @ \cup {Head(queue)}] /\ UNCHANGED reader
  /\ UNCHANGED <<loop, database, of, task, intr, beats, gauge>>

(* An event of the STT stream: the interrupt event ends the stream; a      *)
(* final one that says something is a turn, with an event of its own.      *)
Transcript(n) ==
  /\ task[n] = "listen" /\ heard[n] # {}
  /\ IF intr
       THEN Stop(n) /\ UNCHANGED intr
       ELSE /\ heard' = [heard EXCEPT ![n] = {}]
            /\ \/ saved[of[n]] < MaxTurns /\ Advance(n, "user") /\ intr' = FALSE
               \/ UNCHANGED <<task, intr>>
            /\ UNCHANGED reader
  /\ UNCHANGED <<loop, database, of, queue, beats, gauge>>

(* The STT stream ends after the sentinel.                                  *)
StreamEnds(n) ==
  /\ task[n] = "listen" /\ reader[n] = "eof"
  /\ Stop(n)
  /\ UNCHANGED <<loop, database, of, queue, intr, beats, gauge>>

(* update_phase and save_user_message.                                      *)
TurnUser(n) ==
  /\ task[n] = "user"
  /\ dirty' = dirty \cup {of[n]}
  /\ Advance(n, "answer")
  /\ UNCHANGED <<loop, sess, saved, of, reader, heard, queue, intr, beats, gauge>>

(* Tokens and speech until the answer or an interrupt ends them, then what *)
(* was said, the metrics, the evaluation, the escalation and the outcome.  *)
TurnAnswer(n) ==
  /\ task[n] = "answer"
  /\ dirty' = dirty \cup {of[n]}
  /\ Advance(n, "commit")
  /\ UNCHANGED <<loop, sess, saved, of, reader, heard, queue, intr, beats, gauge>>

TurnCommit(n) ==
  /\ task[n] = "commit"
  /\ Publish
  /\ Advance(n, "clear")
  /\ UNCHANGED <<loop, sess, of, reader, heard, queue, intr, beats, gauge>>

(* clear_interrupt and update_phase(LISTENING), in Redis only.              *)
TurnClear(n) ==
  /\ task[n] = "clear"
  /\ Advance(n, "listen")
  /\ UNCHANGED <<loop, database, of, reader, heard, queue, intr, beats, gauge>>

(* Any call of the listener raises: reported to the client, and it is over. *)
ListenerFails(n) ==
  /\ "pipeline" \in Faults
  /\ Running(n)
  /\ Stop(n)
  /\ UNCHANGED <<loop, database, of, queue, intr, beats, gauge>>

(* record_heartbeat raises in heartbeat_loop, which nobody awaits.          *)
HeartbeatDies(n) ==
  /\ "redis" \in Faults
  /\ n \in beats
  /\ beats' = beats \ {n}
  /\ UNCHANGED <<loop, database, listening, queue, intr, gauge>>

-----------------------------------------------------------------------------
Handle == \/ StartCommit \/ StartTasks \/ StartReturn
          \/ InterruptEvent \/ EndCommit \/ EndReturn

Finally == CloseDatabase \/ CleanUp \/ CleanUpSession

Receive == \/ RefuseStart \/ StartCreate \/ StartResume
           \/ Audio \/ Ping \/ InterruptFlag \/ End \/ Disconnect

ListenerStep(n) ==
  \/ Listen(n) \/ StreamEnds(n)
  \/ TurnUser(n) \/ TurnAnswer(n) \/ TurnCommit(n) \/ TurnClear(n)

(* The connection is closed: what its tasks still do is theirs.             *)
Closed == conn = "closed" /\ UNCHANGED vars

Next ==
  \/ Receive \/ Handle \/ HandlerFails \/ Finally \/ Closed
  \/ \E n \in Ids : \/ ListenerStep(n) \/ ReadAudio(n) \/ Transcript(n)
                    \/ ListenerFails(n) \/ HeartbeatDies(n)

Spec == Init /\ [][Next]_vars

(* The event loop runs every task that can go on; nothing makes the client *)
(* send or leave, and nothing makes the STT provider hear something.       *)
FairSpec ==
  /\ Spec
  /\ WF_vars(Handle) /\ WF_vars(Finally)
  /\ \A n \in Ids : WF_vars(ListenerStep(n)) /\ WF_vars(ReadAudio(n))

-----------------------------------------------------------------------------
(* Properties *)

TypeOK ==
  /\ conn \in {"open", "closing", "finally", "ending", "closed"}
  /\ hpc \in {"idle", "start", "tasks", "started", "interrupt", "end", "ended"}
  /\ starts \in 0..MaxStarts
  /\ sid \in Ids \cup {None} /\ held \in Ids \cup {None}
  /\ sess \in [Ids -> {"none", "active", "ended"}]
  /\ of \in [Ids -> Ids \cup {None}]
  /\ task \in [Ids -> {"ready", "listen"} \cup InTurn \cup Stopped]
  /\ reader \in [Ids -> {"off", "on", "eof"}]
  /\ heard \in [Ids -> SUBSET Ids]
  /\ queue \in Seq(Ids \cup {None}) /\ Len(queue) <= QMax
  /\ intr \in BOOLEAN
  /\ dirty \in SUBSET Ids
  /\ saved \in [Ids -> Nat]
  /\ beats \in SUBSET Ids
  /\ gauge \in Int

(* run_listening: the audio of one session never reaches the speech         *)
(* recognition of another session of the same socket.                      *)
OwnAudio == \A n \in Ids : heard[n] \subseteq {of[n]}

(* voice_websocket: two listening tasks never compete for the audio queue   *)
(* and the interrupt event of one socket.                                  *)
OneListener == \A m, n \in Ids : Running(m) /\ Running(n) => m = n

(* A session that was resumed on this socket has had two listening tasks.   *)
Twice(i) == \E m, n \in Ids : m # n /\ of[m] = i /\ of[n] = i

(* A task that runs and that the loop does not hold.                        *)
Lost(n) == n # held /\ Running(n)

(* end and the disconnect: what is written into a session after its end is  *)
(* written by a task of its own that the loop lost sight of, and is         *)
(* committed only in a session that was resumed on this socket, or by such  *)
(* a task after the connection is closed.                                   *)
EndedSessionIsQuiet ==
  [][\A i \in Ids : sess[i] = "ended" =>
       /\ i \in dirty' \ dirty => \E n \in Ids : of[n] = i /\ Lost(n)
       /\ saved'[i] # saved[i] =>
            Twice(i) \/ (conn = "closed" /\ \E n \in Ids : Lost(n))]_vars

(* active_sessions: between messages and after the connection the gauge is  *)
(* the number of sessions that are active.                                 *)
GaugeExact ==
  conn \in {"open", "closed"} /\ hpc = "idle" => gauge = Cardinality(Active)

(* The sessions that one socket has after each other do not mix: neither    *)
(* their audio, nor their listening tasks, nor what the gauge counts.      *)
SocketConsistent == OwnAudio /\ OneListener /\ GaugeExact


(* docs/architecture/failure-recovery.md on the disconnect: "Session ended  *)
(* with reason `disconnect` if cleanup succeeds".                          *)
DisconnectEndsSession == conn = "closed" => Active = {}

(* While the client is connected an active session has a listening task:    *)
(* a turn, an interrupt or an earlier session does not end it.             *)
KeepsListening ==
  conn = "open" /\ hpc = "idle" =>
    \A i \in Active : \E n \in Ids : of[n] = i /\ Running(n)
=============================================================================
