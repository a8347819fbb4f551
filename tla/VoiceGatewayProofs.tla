------------------------ MODULE VoiceGatewayProofs --------------------------
(***************************************************************************)
(* Proofs about VoiceGateway for any messages, any faults, any number of   *)
(* starts and turns and any queue.                                         *)
(*                                                                         *)
(* What keeps an ended session quiet is that the task the loop holds is    *)
(* stopped before the session ends, and that the commit of the end         *)
(* publishes what was flushed before: only a session with two tasks can    *)
(* have another one running, or rows left.                                 *)
(* If sessions follow each other (Polite), the task that runs is that of   *)
(* the active session, and no frame outlives the session it belongs to.    *)
(***************************************************************************)
EXTENDS VoiceGateway, TLAPS, FiniteSetTheorems

Starting == {"start", "tasks", "started"}

(* Where the loop is, and the session and task it knows. *)
LoopInv ==
  /\ hpc # "idle" => conn = "open"
  /\ held <= starts
  /\ hpc \in Starting => held < starts /\ sess[of[starts]] # "ended"
  /\ hpc = "end" => sid # None
  /\ sid # None => held # None /\ of[held] = sid

(* Tasks and sessions are numbered by the starts so far. *)
NumberInv ==
  \A n \in Ids : IF n <= starts THEN of[n] \in 1 .. starts
                 ELSE of[n] = None /\ task[n] = "none" /\ sess[n] = "none"

(* The task the loop holds does not outlive its session. *)
HeldInv ==
  held # None /\ \/ sess[of[held]] = "ended"
                 \/ hpc \in {"end", "ended"}
                 \/ conn \in {"ending", "closed"}
    => ~Running(held)

(* Only a session resumed on this socket has a task, or rows, after its end. *)
LostInv ==
  \A i \in Ids : sess[i] = "ended" /\ conn # "closed" =>
    /\ \A n \in Ids : of[n] = i /\ Running(n) => Twice(i)
    /\ i \in dirty => Twice(i)

IndInv == TypeOK /\ LoopInv /\ NumberInv /\ HeldInv /\ LostInv

-----------------------------------------------------------------------------
(* Type correctness *)

LEMMA EmptyQueue ==
  ASSUME NEW f \in Ids \cup {None}
  PROVE  /\ <<>> \in Seq(Ids \cup {None}) /\ Len(<<>>) <= QMax
         /\ <<f>> \in Seq(Ids \cup {None}) /\ Len(<<f>>) <= QMax
<1> DEFINE S == Ids \cup {None}
<1>1. f \in S
  OBVIOUS
<1> HIDE DEF S
<1>2. <<>> \in Seq(S) /\ <<f>> \in Seq(S)
  BY <1>1
<1>3. Len(<<>>) <= QMax /\ Len(<<f>>) <= QMax
  BY BoundsAssumption
<1> QED BY <1>2, <1>3 DEF S

LEMMA InitType == Init => TypeOK
<1> SUFFICES ASSUME Init PROVE TypeOK
  OBVIOUS
<1>1. starts \in 0 .. MaxStarts /\ saved \in [Ids -> Nat] /\ gauge \in Int
  BY BoundsAssumption DEF Init
<1>2. queue \in Seq(Ids \cup {None}) /\ Len(queue) <= QMax
  BY EmptyQueue DEF Init
<1> QED BY <1>1, <1>2 DEF Init, TypeOK, Stopped

(* Taking from the queue and putting into it, with and without room. *)
LEMMA QueueOps ==
  ASSUME NEW q \in Seq(Ids \cup {None}), Len(q) <= QMax, NEW f \in Ids \cup {None}
  PROVE  /\ Enqueue(q, f) \in Seq(Ids \cup {None}) /\ Len(Enqueue(q, f)) <= QMax
         /\ q # <<>> => /\ Head(q) \in Ids \cup {None}
                        /\ Tail(q) \in Seq(Ids \cup {None}) /\ Len(Tail(q)) <= QMax
BY BoundsAssumption DEF Enqueue

LEMMA SignalType ==
  ASSUME SignalAudioEnd
  PROVE  queue' \in Seq(Ids \cup {None}) /\ Len(queue') <= QMax
BY EmptyQueue DEF SignalAudioEnd

LEMMA StopType ==
  ASSUME TypeOK, NEW n \in Ids, Stop(n)
  PROVE  /\ task' \in [Ids -> {"ready", "listen"} \cup InTurn \cup Stopped]
         /\ reader' \in [Ids -> {"off", "on", "eof"}]
         /\ heard' \in [Ids -> SUBSET Ids]
BY DEF TypeOK, Stop, Stopped

LEMMA CancelType ==
  ASSUME TypeOK, CancelTasks
  PROVE  /\ of' \in [Ids -> Ids \cup {None}]
         /\ task' \in [Ids -> {"ready", "listen"} \cup InTurn \cup Stopped]
         /\ reader' \in [Ids -> {"off", "on", "eof"}]
         /\ heard' \in [Ids -> SUBSET Ids]
         /\ beats' \in SUBSET Ids
<1>1. CASE held = None
  BY <1>1 DEF CancelTasks, TypeOK
<1>2. CASE held # None
  <2>1. held \in Ids /\ Stop(held)
    BY <1>2 DEF TypeOK, CancelTasks
  <2> QED BY <2>1, StopType DEF CancelTasks, TypeOK
<1> QED BY <1>1, <1>2

LEMMA PublishType ==
  ASSUME TypeOK, Publish PROVE saved' \in [Ids -> Nat] /\ dirty' \in SUBSET Ids
BY DEF TypeOK, Publish

(* While a start is served its task has a number. *)
LEMMA StartNumber ==
  ASSUME TypeOK, LoopInv, NumberInv, hpc \in Starting
  PROVE  starts \in Ids /\ of[starts] \in Ids
<1>1. starts \in Ids
  BY BoundsAssumption DEF TypeOK, LoopInv, Ids, None
<1>2. starts <= starts
  BY <1>1 DEF Ids
<1> QED BY <1>1, <1>2, BoundsAssumption DEF TypeOK, NumberInv, Ids

-----------------------------------------------------------------------------
(* The loop *)

LEMMA ReceiveType == TypeOK /\ Receive => TypeOK'
<1> SUFFICES ASSUME TypeOK, Receive PROVE TypeOK'
  OBVIOUS
<1> USE DEF loop, listening, database, Leave, Return, Reply, Serving
<1>1. CASE RefuseStart
  BY <1>1 DEF RefuseStart, TypeOK
<1>2. CASE StartCreate
  <2>1. starts + 1 \in Ids
    BY <1>2, BoundsAssumption DEF StartCreate, TypeOK, Ids
  <2> QED BY <1>2, <2>1, BoundsAssumption DEF StartCreate, TypeOK
<1>3. CASE StartResume
  <2>1. ASSUME starts < MaxStarts PROVE starts + 1 \in Ids /\ starts + 1 \in 0 .. MaxStarts
    BY <2>1, BoundsAssumption DEF TypeOK, Ids
  <2>2. PICK i \in Ids :
          \/ /\ sess[i] = "active"
             /\ starts' = starts + 1
             /\ of' = [of EXCEPT ![starts + 1] = i]
             /\ hpc' = "start"
             /\ UNCHANGED conn
          \/ /\ sess[i] = "ended"
             /\ conn' = "closing" /\ hpc' = "idle"
             /\ UNCHANGED <<starts, of>>
    BY <1>3 DEF StartResume
  <2>3. starts' \in 0 .. MaxStarts /\ of' \in [Ids -> Ids \cup {None}]
    BY <1>3, <2>1, <2>2 DEF StartResume, TypeOK
  <2> QED BY <1>3, <2>2, <2>3 DEF StartResume, TypeOK
<1>4. CASE Audio
  BY <1>4, QueueOps DEF Audio, TypeOK
<1>5. CASE Ping
  BY <1>5 DEF Ping, TypeOK
<1>6. CASE InterruptFlag
  BY <1>6 DEF InterruptFlag, TypeOK
<1>7. CASE End
  BY <1>7, SignalType, CancelType DEF End, TypeOK
<1>8. CASE Disconnect
  BY <1>8 DEF Disconnect, TypeOK
<1> QED BY <1>1, <1>2, <1>3, <1>4, <1>5, <1>6, <1>7, <1>8 DEF Receive

LEMMA HandleType ==
  TypeOK /\ LoopInv /\ NumberInv /\ (Handle \/ HandlerFails \/ Finally) => TypeOK'
<1> SUFFICES ASSUME TypeOK, LoopInv, NumberInv, Handle \/ HandlerFails \/ Finally
             PROVE  TypeOK'
  OBVIOUS
<1> USE DEF listening, database, Leave, Return, Reply
<1>1. CASE StartCommit
  BY <1>1, PublishType DEF StartCommit, TypeOK
<1>2. CASE StartTasks
  <2>1. starts \in Ids
    BY <1>2, StartNumber DEF StartTasks, Starting
  <2> QED BY <1>2, <2>1 DEF StartTasks, TypeOK
<1>3. CASE StartReturn
  <2>1. starts \in Ids /\ of[starts] \in Ids
    BY <1>3, StartNumber DEF StartReturn, Starting
  <2> QED BY <1>3, <2>1 DEF StartReturn, TypeOK
<1>4. CASE InterruptEvent
  BY <1>4 DEF InterruptEvent, TypeOK
<1>5. CASE EndCommit
  <2>1. gauge' \in Int
    BY <1>5 DEF EndCommit, TypeOK
  <2> QED BY <1>5, <2>1, PublishType, Zenon DEF EndCommit, TypeOK
<1>6. CASE EndReturn
  BY <1>6 DEF EndReturn, TypeOK
<1>7. CASE HandlerFails
  BY <1>7 DEF HandlerFails, TypeOK
<1>8. CASE CloseDatabase
  BY <1>8 DEF CloseDatabase, TypeOK
<1>9. CASE CleanUp
  BY <1>9, SignalType, CancelType DEF CleanUp, TypeOK
<1>10. CASE CleanUpSession
  BY <1>10 DEF CleanUpSession, TypeOK
<1> QED BY <1>1, <1>2, <1>3, <1>4, <1>5, <1>6, <1>7, <1>8, <1>9, <1>10 DEF Handle, Finally

TaskStep(n) ==
  ListenerStep(n) \/ ReadAudio(n) \/ Transcript(n) \/ ListenerFails(n) \/ HeartbeatDies(n)

LEMMA TaskType ==
  ASSUME TypeOK, NumberInv, NEW n \in Ids, TaskStep(n) PROVE TypeOK'
<1>11. ASSUME Running(n) PROVE of[n] \in Ids
  BY <1>11, BoundsAssumption DEF NumberInv, TypeOK, Running, Stopped, Ids
<1> USE DEF loop, listening, database
<1>1. CASE Listen(n)
  BY <1>1 DEF Listen, Advance, TypeOK
<1>2. CASE StreamEnds(n)
  BY <1>2, StopType DEF StreamEnds, TypeOK
<1>3. CASE TurnUser(n)
  BY <1>3, <1>11 DEF Running, Stopped, TurnUser, Advance, InTurn, TypeOK
<1>4. CASE TurnAnswer(n)
  BY <1>4, <1>11 DEF Running, Stopped, TurnAnswer, Advance, InTurn, TypeOK
<1>5. CASE TurnCommit(n)
  BY <1>5, PublishType DEF TurnCommit, Advance, InTurn, TypeOK
<1>6. CASE TurnClear(n)
  BY <1>6 DEF TurnClear, Advance, TypeOK
<1>7. CASE ReadAudio(n)
  <2>1. /\ queue' \in Seq(Ids \cup {None}) /\ Len(queue') <= QMax
        /\ Head(queue) \in Ids \cup {None}
    BY <1>7, QueueOps DEF ReadAudio, TypeOK
  <2>2. reader' \in [Ids -> {"off", "on", "eof"}] /\ heard' \in [Ids -> SUBSET Ids]
    <3>1. CASE Head(queue) = None
      BY <1>7, <3>1 DEF ReadAudio, TypeOK
    <3>2. CASE Head(queue) # None
      <4>1. Head(queue) \in Ids
        BY <2>1, <3>2
      <4>2. heard[n] \cup {Head(queue)} \in SUBSET Ids
        BY <4>1 DEF TypeOK
      <4>3. /\ heard' = [heard EXCEPT ![n] = heard[n] \cup {Head(queue)}]
            /\ reader' = reader
        BY <1>7, <3>2 DEF ReadAudio
      <4> QED BY <4>2, <4>3 DEF TypeOK
    <3> QED BY <3>1, <3>2
  <2> QED BY <1>7, <2>1, <2>2 DEF ReadAudio, TypeOK
<1>8. CASE Transcript(n)
  <2>1. CASE intr
    BY <1>8, <2>1, StopType DEF Transcript, TypeOK
  <2>2. CASE ~intr
    BY <1>8, <2>2 DEF Transcript, Advance, InTurn, TypeOK
  <2> QED BY <2>1, <2>2
<1>9. CASE ListenerFails(n)
  BY <1>9, StopType DEF ListenerFails, TypeOK
<1>10. CASE HeartbeatDies(n)
  BY <1>10 DEF HeartbeatDies, TypeOK
<1> QED BY <1>1, <1>2, <1>3, <1>4, <1>5, <1>6, <1>7, <1>8, <1>9, <1>10
        DEF TaskStep, ListenerStep
-----------------------------------------------------------------------------
(* Quiet after the end *)

(* What the steps of a task change of what the invariants speak of. *)
TaskKeeps ==
  \A m \in Ids : /\ task'[m] \notin Stopped => task[m] \notin Stopped
                 /\ task[m] = "none" => task'[m] = "none"

FlushesOwn(n) == dirty' \subseteq dirty \/ (Running(n) /\ dirty' = dirty \cup {of[n]})

LEMMA TaskEffect ==
  ASSUME TypeOK, NEW n \in Ids, TaskStep(n)
  PROVE  UNCHANGED <<conn, hpc, starts, sid, held, sess, of>> /\ TaskKeeps /\ FlushesOwn(n)
<1>1. UNCHANGED <<conn, hpc, starts, sid, held, sess, of>>
  BY DEF TaskStep, ListenerStep, Listen, StreamEnds, TurnUser, TurnAnswer, TurnCommit, TurnClear,
         ReadAudio, Transcript, ListenerFails, HeartbeatDies, loop, listening, database
<1>2. TaskKeeps
  <2> USE DEF TaskKeeps, TypeOK, Stopped, InTurn
  <2>1. CASE UNCHANGED task
    BY <2>1
  <2>2. CASE Stop(n) /\ task[n] # "none"
    BY <2>2 DEF Stop
  <2>3. CASE task[n] \notin Stopped /\ \E t \in {"listen"} \cup InTurn : Advance(n, t)
    BY <2>3 DEF Advance
  <2> QED BY <2>1, <2>2, <2>3
          DEF TaskStep, ListenerStep, Listen, StreamEnds, TurnUser, TurnAnswer, TurnCommit,
              TurnClear, ReadAudio, Transcript, ListenerFails, HeartbeatDies, listening, Running
<1>3. FlushesOwn(n)
  <2>1. CASE dirty' = dirty \/ dirty' = {}
    BY <2>1 DEF FlushesOwn
  <2>2. CASE task[n] \in {"user", "answer"} /\ dirty' = dirty \cup {of[n]}
    BY <2>2 DEF FlushesOwn, Running, Stopped
  <2> QED
    BY <2>1, <2>2 DEF Publish, database, TaskStep, ListenerStep, Listen, StreamEnds, TurnUser,
      TurnAnswer, TurnCommit, TurnClear,
         ReadAudio, Transcript, ListenerFails, HeartbeatDies
<1> QED BY <1>1, <1>2, <1>3

LEMMA TaskInv ==
  ASSUME IndInv, NEW n \in Ids, TaskStep(n) PROVE IndInv'
<1> USE DEF IndInv
<1>1. TypeOK'
  BY TaskType
<1>2. UNCHANGED <<conn, hpc, starts, sid, held, sess, of>> /\ TaskKeeps /\ FlushesOwn(n)
  BY TaskEffect
<1>3. LoopInv'
  BY <1>2 DEF LoopInv
<1>7. ASSUME NEW m \in Ids
      PROVE  /\ Running(m)' => Running(m)
             /\ task[m] = "none" => task'[m] = "none"
  BY <1>2 DEF TaskKeeps, Running
<1>4. NumberInv'
  <2> SUFFICES ASSUME NEW m \in Ids
               PROVE  IF m <= starts THEN of[m] \in 1 .. starts
                      ELSE of[m] = None /\ task'[m] = "none" /\ sess[m] = "none"
    BY <1>2 DEF NumberInv
  <2> QED BY <1>7 DEF NumberInv
<1>5. HeldInv'
  <2>1. held # None => held \in Ids
    BY DEF TypeOK
  <2> QED BY <1>2, <1>7, <2>1 DEF HeldInv
<1>6. LostInv'
  <2> SUFFICES ASSUME NEW i \in Ids, sess[i] = "ended", conn # "closed"
               PROVE  /\ \A m \in Ids : of[m] = i /\ Running(m)' => Twice(i)
                      /\ i \in dirty' => Twice(i)
    BY <1>2 DEF LostInv, Twice
  <2>1. ASSUME NEW m \in Ids, of[m] = i, Running(m) PROVE Twice(i)
    BY <2>1 DEF LostInv
  <2>2. i \in dirty => Twice(i)
    BY DEF LostInv
  <2> QED BY <1>2, <1>7, <2>1, <2>2 DEF FlushesOwn
<1> QED BY <1>1, <1>3, <1>4, <1>5, <1>6

(* What a message that starts or ends nothing changes. *)
LEMMA IdleInv ==
  ASSUME IndInv, TypeOK',
         UNCHANGED <<starts, held, sess, of, task>>, sid' \in {sid, None},
         dirty' \subseteq dirty, conn' = "closed" <=> conn = "closed",
         conn' = "ending" => conn = "ending",
         hpc' = "idle" \/ (hpc' = "interrupt" /\ conn' = "open")
  PROVE  IndInv'
<1> USE DEF IndInv
<1>1. LoopInv'
  BY DEF LoopInv, Starting
<1>2. NumberInv'
  BY DEF NumberInv
<1>3. HeldInv'
  BY DEF HeldInv, Running
<1>4. LostInv'
  <2> SUFFICES ASSUME NEW i \in Ids, sess[i] = "ended", conn # "closed"
               PROVE  /\ \A n \in Ids : of[n] = i /\ Running(n) => Twice(i)
                      /\ i \in dirty => Twice(i)
    <3>1. ASSUME NEW n \in Ids, NEW i PROVE Twice(i)' = Twice(i) /\ Running(n)' = Running(n)
      BY DEF Twice, Running
    <3> QED BY <3>1 DEF LostInv
  <2> QED BY DEF LostInv
<1> QED BY <1>1, <1>2, <1>3, <1>4

(* The task of a new start does not run yet and has a session that goes on. *)
LEMMA StartInv ==
  ASSUME IndInv, TypeOK', conn = "open", hpc = "idle", starts < MaxStarts, starts' = starts + 1,
         NEW i \in Ids, sess[i] # "ended", i <= starts + 1,
         of' = [of EXCEPT ![starts + 1] = i], hpc' = "start",
         UNCHANGED <<conn, sid, held, sess, task, dirty>>
  PROVE  IndInv'
<1> USE DEF IndInv
<1>1. starts + 1 \in Ids /\ starts \in Nat /\ held \in Nat
  BY BoundsAssumption DEF TypeOK, Ids, None
<1>2. /\ of'[starts + 1] = i
      /\ \A n \in Ids : n # starts + 1 => of'[n] = of[n]
      /\ of[starts + 1] = None /\ task[starts + 1] = "none"
  BY <1>1 DEF TypeOK, NumberInv
<1>3. held # starts + 1
  BY <1>1 DEF LoopInv
<1>4. LoopInv'
  BY <1>1, <1>2, <1>3 DEF LoopInv, TypeOK, Starting
<1>5. NumberInv'
  <2> SUFFICES ASSUME NEW n \in Ids
               PROVE  IF n <= starts + 1 THEN of'[n] \in 1 .. starts + 1
                      ELSE of'[n] = None /\ task[n] = "none" /\ sess[n] = "none"
    BY DEF NumberInv
  <2>1. n \in Nat /\ i \in 1 .. starts + 1
    BY DEF Ids
  <2>2. CASE n = starts + 1
    BY <1>1, <1>2, <2>1, <2>2
  <2>3. CASE n # starts + 1
    <3>1. of'[n] = of[n] /\ (n <= starts <=> n <= starts + 1)
      BY <1>1, <1>2, <2>1, <2>3
    <3> QED BY <1>1, <3>1 DEF NumberInv
  <2> QED BY <2>2, <2>3
<1>6. HeldInv'
  BY <1>2, <1>3 DEF HeldInv, Running, TypeOK
<1>7. LostInv'
  <2> SUFFICES ASSUME NEW k \in Ids, sess[k] = "ended", conn # "closed"
               PROVE  /\ \A n \in Ids : of'[n] = k /\ Running(n) => Twice(k)'
                      /\ k \in dirty => Twice(k)'
    BY DEF LostInv, Running
  <2>1. k # None
    BY DEF Ids, None
  <2>2. Twice(k) => Twice(k)'
    BY <1>2, <2>1 DEF Twice
  <2> QED BY <1>2, <2>2 DEF LostInv, Running, Stopped
<1> QED BY <1>4, <1>5, <1>6, <1>7

LEMMA StartCommitInv == IndInv /\ StartCommit => IndInv'
<1> SUFFICES ASSUME IndInv, StartCommit PROVE IndInv'
  OBVIOUS
<1> USE DEF IndInv
<1>1. TypeOK'
  BY HandleType DEF Handle
<1>2. /\ UNCHANGED <<conn, starts, sid, held, of, task>>
      /\ conn = "open" /\ hpc = "start" /\ hpc' = "tasks" /\ dirty' = {}
  BY DEF StartCommit, listening, Publish, LoopInv
<1>3. starts \in Ids /\ of[starts] \in Ids /\ held < starts
  BY <1>2, StartNumber DEF Starting, LoopInv
<1>4. /\ sess'[of[starts]] = "active"
      /\ \A i \in Ids : sess'[i] = "ended" => sess[i] = "ended"
      /\ \A i \in Ids : i # of[starts] => sess'[i] = sess[i]
  BY <1>3 DEF StartCommit, TypeOK
<1>5. LoopInv'
  BY <1>2, <1>3, <1>4 DEF LoopInv, Starting
<1>6. NumberInv'
  <2>1. of[starts] \in 1 .. starts
    BY <1>3 DEF NumberInv, Ids
  <2> QED BY <1>2, <1>3, <1>4, <2>1 DEF NumberInv, Ids
<1>7. HeldInv'
  <2>1. held # None => held \in Ids /\ of[held] \in Ids
    BY DEF TypeOK, NumberInv, LoopInv, None
  <2> QED BY <1>2, <1>4, <2>1 DEF HeldInv, Running
<1>8. LostInv'
  BY <1>2, <1>4 DEF LostInv, Running, Twice
<1> QED BY <1>1, <1>5, <1>6, <1>7, <1>8

LEMMA StartTasksInv == IndInv /\ StartTasks => IndInv'
<1> SUFFICES ASSUME IndInv, StartTasks PROVE IndInv'
  OBVIOUS
<1> USE DEF IndInv
<1>1. TypeOK'
  BY HandleType DEF Handle
<1>2. /\ UNCHANGED <<conn, starts, sid, held, of, sess, dirty>>
      /\ conn = "open" /\ hpc = "tasks" /\ hpc' = "started"
  BY DEF StartTasks, database, LoopInv
<1>3. starts \in Ids /\ of[starts] \in Ids /\ held < starts /\ sess[of[starts]] # "ended"
  BY <1>2, StartNumber DEF Starting, LoopInv
<1>4. /\ task' = [task EXCEPT ![starts] = "ready"]
      /\ \A n \in Ids : n # starts => Running(n)' = Running(n) /\ task'[n] = task[n]
  BY <1>3 DEF StartTasks, TypeOK, Running
<1>5. LoopInv'
  BY <1>2, <1>3 DEF LoopInv, Starting
<1>6. NumberInv'
  <2> SUFFICES ASSUME NEW n \in Ids
               PROVE  IF n <= starts THEN of[n] \in 1 .. starts
                      ELSE of[n] = None /\ task'[n] = "none" /\ sess[n] = "none"
    BY <1>2 DEF NumberInv
  <2>1. starts <= starts
    BY <1>3 DEF Ids
  <2> QED BY <1>4, <2>1 DEF NumberInv
<1>7. HeldInv'
  <2>1. held # starts /\ (held # None => held \in Ids)
    BY <1>3 DEF TypeOK, Ids
  <2> QED BY <1>2, <1>4, <2>1 DEF HeldInv
<1>8. LostInv'
  <2> SUFFICES ASSUME NEW i \in Ids, sess[i] = "ended", conn # "closed"
               PROVE  /\ \A n \in Ids : of[n] = i /\ Running(n)' => Twice(i)
                      /\ i \in dirty => Twice(i)
    BY <1>2 DEF LostInv, Twice
  <2> QED BY <1>3, <1>4 DEF LostInv
<1> QED BY <1>1, <1>5, <1>6, <1>7, <1>8

LEMMA StartReturnInv == IndInv /\ StartReturn => IndInv'
<1> SUFFICES ASSUME IndInv, StartReturn PROVE IndInv'
  OBVIOUS
<1> USE DEF IndInv
<1>1. TypeOK'
  BY HandleType DEF Handle
<1>2. /\ UNCHANGED <<starts, of, task, sess, dirty>>
      /\ conn = "open" /\ hpc = "started" /\ hpc' = "idle"
  BY DEF StartReturn, database, listening, LoopInv, Return, Leave
<1>3. starts \in Ids /\ of[starts] \in Ids /\ sess[of[starts]] # "ended"
  BY <1>2, StartNumber DEF Starting, LoopInv
<1>4. CASE Leave /\ UNCHANGED <<starts, sid, held>>
  BY <1>1, <1>2, <1>4, IdleInv DEF Leave
<1>5. CASE Return(of[starts]) /\ held' = starts
  <2>1. UNCHANGED conn /\ sid' = of[starts]
    BY <1>5 DEF Return
  <2>2. starts # None /\ starts <= starts
    BY <1>3 DEF Ids, None
  <2>3. LoopInv'
    BY <1>2, <1>5, <2>1, <2>2 DEF LoopInv, Starting
  <2>4. NumberInv'
    BY <1>2 DEF NumberInv
  <2>5. HeldInv'
    BY <1>2, <1>3, <1>5, <2>1 DEF HeldInv
  <2>6. LostInv'
    BY <1>2, <2>1 DEF LostInv, Twice, Running
  <2> QED BY <1>1, <2>3, <2>4, <2>5, <2>6
<1> QED BY <1>4, <1>5 DEF StartReturn

(* What stopping the held task leaves. *)
LEMMA CancelEffect ==
  ASSUME TypeOK, CancelTasks
  PROVE  /\ UNCHANGED of
         /\ \A n \in Ids : /\ Running(n)' => Running(n) /\ n # held
                           /\ task[n] = "none" => task'[n] \in Stopped
                           /\ task[n] = "none" /\ n # held => task'[n] = "none"
<1>1. CASE held = None
  <2>1. UNCHANGED <<of, task>> /\ \A n \in Ids : n # held
    BY <1>1 DEF CancelTasks, Ids, None
  <2> QED BY <2>1 DEF Running, Stopped
<1>2. CASE held # None
  <2>1. UNCHANGED of /\ task' = [task EXCEPT ![held] = "done"]
    BY <1>2 DEF CancelTasks, Stop
  <2> QED BY <2>1 DEF Running, Stopped, TypeOK
<1> QED BY <1>1, <1>2

LEMMA EndInv ==
  ASSUME IndInv, TypeOK', CancelTasks, hpc = "idle",
         UNCHANGED <<starts, sid, held, sess, dirty>>,
         conn' # "closed" => conn # "closed",
         hpc' = "idle" \/ (hpc' = "end" /\ conn' = "open" /\ sid # None)
  PROVE  IndInv'
<1> USE DEF IndInv
<1>1. /\ UNCHANGED of
      /\ \A n \in Ids : /\ Running(n)' => Running(n) /\ n # held
                        /\ task[n] = "none" /\ n # held => task'[n] = "none"
  BY CancelEffect
<1>2. LoopInv'
  BY <1>1 DEF LoopInv, Starting
<1>3. NumberInv'
  <2> SUFFICES ASSUME NEW n \in Ids
               PROVE  IF n <= starts THEN of[n] \in 1 .. starts
                      ELSE of[n] = None /\ task'[n] = "none" /\ sess[n] = "none"
    BY <1>1 DEF NumberInv
  <2>1. held <= starts
    BY DEF LoopInv
  <2> QED BY <1>1, <2>1 DEF NumberInv
<1>4. HeldInv'
  <2>1. held # None => held \in Ids
    BY DEF TypeOK
  <2> QED BY <1>1, <2>1 DEF HeldInv
<1>5. LostInv'
  <2> SUFFICES ASSUME NEW i \in Ids, sess[i] = "ended", conn # "closed"
               PROVE  /\ \A n \in Ids : of[n] = i /\ Running(n)' => Twice(i)
                      /\ i \in dirty => Twice(i)
    BY <1>1 DEF LostInv, Twice
  <2> QED BY <1>1 DEF LostInv
<1> QED BY <1>2, <1>3, <1>4, <1>5

(* The session that ends has one task only, or was resumed. *)
LEMMA EndCommitInv == IndInv /\ EndCommit => IndInv'
<1> SUFFICES ASSUME IndInv, EndCommit PROVE IndInv'
  OBVIOUS
<1> USE DEF IndInv
<1>1. TypeOK'
  BY HandleType DEF Handle
<1>2. /\ UNCHANGED <<conn, starts, sid, held, of, task>>
      /\ conn = "open" /\ hpc = "end" /\ hpc' = "ended" /\ dirty' = {}
  BY DEF EndCommit, listening, Publish, LoopInv
<1>3. /\ sid \in Ids /\ held \in Ids /\ of[held] = sid /\ ~Running(held)
      /\ held <= starts
  BY <1>2 DEF LoopInv, TypeOK, HeldInv
<1>4. \A i \in Ids : i # sid => sess'[i] = sess[i]
  BY DEF EndCommit, TypeOK
<1>5. LoopInv'
  BY <1>2 DEF LoopInv, Starting
<1>6. NumberInv'
  <2> SUFFICES ASSUME NEW n \in Ids
               PROVE  IF n <= starts THEN of[n] \in 1 .. starts
                      ELSE of[n] = None /\ task[n] = "none" /\ sess'[n] = "none"
    BY <1>2 DEF NumberInv
  <2>1. sid \in 1 .. starts
    BY <1>3 DEF NumberInv
  <2> QED BY <1>4, <2>1 DEF NumberInv, Ids
<1>7. HeldInv'
  BY <1>2, <1>3 DEF HeldInv, Running
<1>8. LostInv'
  <2> SUFFICES ASSUME NEW i \in Ids, sess'[i] = "ended", NEW n \in Ids, of[n] = i, Running(n)
               PROVE  Twice(i)
    BY <1>2 DEF LostInv, Twice, Running
  <2>1. CASE i = sid
    BY <1>3, <2>1 DEF Twice
  <2>2. CASE i # sid
    BY <1>2, <1>4, <2>2 DEF LostInv
  <2> QED BY <2>1, <2>2
<1> QED BY <1>1, <1>5, <1>6, <1>7, <1>8

LEMMA CleanUpSessionInv == IndInv /\ CleanUpSession => IndInv'
<1> SUFFICES ASSUME IndInv, CleanUpSession PROVE IndInv'
  OBVIOUS
<1> USE DEF IndInv
<1>1. TypeOK'
  BY HandleType DEF Finally
<1>2. /\ UNCHANGED <<hpc, starts, sid, held, of, task, dirty>>
      /\ conn = "ending" /\ hpc = "idle" /\ conn' = "closed"
  BY DEF CleanUpSession, listening, LoopInv
<1>3. \A i \in Ids : i # sid => sess'[i] = sess[i]
  BY DEF CleanUpSession, TypeOK
<1>4. LoopInv'
  BY <1>2 DEF LoopInv, Starting
<1>5. NumberInv'
  <2> SUFFICES ASSUME NEW n \in Ids
               PROVE  IF n <= starts THEN of[n] \in 1 .. starts
                      ELSE of[n] = None /\ task[n] = "none" /\ sess'[n] = "none"
    BY <1>2 DEF NumberInv
  <2>1. CASE sid = None
    BY <1>3, <2>1 DEF NumberInv, Ids, None
  <2>2. CASE sid # None
    <3>1. sid \in 1 .. starts
      BY <2>2 DEF LoopInv, NumberInv, TypeOK
    <3> QED BY <1>3, <3>1 DEF NumberInv, Ids
  <2> QED BY <2>1, <2>2
<1>6. HeldInv'
  BY <1>2 DEF HeldInv, Running
<1>7. LostInv'
  BY <1>2 DEF LostInv
<1> QED BY <1>1, <1>4, <1>5, <1>6, <1>7

LEMMA ReceiveInv == IndInv /\ Receive => IndInv'
<1> SUFFICES ASSUME IndInv, Receive PROVE IndInv'
  OBVIOUS
<1>1. TypeOK'
  BY ReceiveType DEF IndInv
<1>2. hpc = "idle" /\ conn = "open"
  BY DEF Receive, RefuseStart, StartCreate, StartResume, Audio, Ping, InterruptFlag, End,
         Disconnect, MayStart, Serving
<1>3. CASE RefuseStart \/ Audio \/ Ping \/ InterruptFlag \/ Disconnect
  BY <1>1, <1>2, <1>3, IdleInv
  DEF RefuseStart, Audio, Ping, InterruptFlag, Disconnect, Reply, Return, Leave, loop, listening,
      database
<1>4. CASE StartCreate
  <2>1. /\ starts < MaxStarts /\ starts + 1 \in Ids /\ starts + 1 <= starts + 1
        /\ ~(starts + 1 <= starts)
    BY <1>4, BoundsAssumption DEF StartCreate, Ids, IndInv, TypeOK
  <2>2. sess[starts + 1] # "ended"
    BY <2>1 DEF IndInv, NumberInv
  <2> QED BY <1>1, <1>2, <1>4, <2>1, <2>2, StartInv DEF StartCreate, database
<1>5. CASE StartResume
  <2>1. PICK i \in Ids :
          \/ /\ sess[i] = "active"
             /\ starts' = starts + 1
             /\ of' = [of EXCEPT ![starts + 1] = i]
             /\ hpc' = "start"
             /\ UNCHANGED conn
          \/ /\ sess[i] = "ended"
             /\ Leave
             /\ UNCHANGED <<starts, of>>
    BY <1>5 DEF StartResume
  <2>2. CASE Leave /\ UNCHANGED <<starts, of>>
    BY <1>1, <1>2, <1>5, <2>2, IdleInv DEF StartResume, Leave, database
  <2>3. CASE /\ sess[i] = "active"
             /\ starts' = starts + 1
             /\ of' = [of EXCEPT ![starts + 1] = i]
             /\ hpc' = "start"
             /\ UNCHANGED conn
    <3>1. i <= starts + 1
      BY <2>3 DEF IndInv, NumberInv, TypeOK, Ids
    <3> QED BY <1>1, <1>2, <1>5, <2>3, <3>1, StartInv DEF StartResume, database
  <2> QED BY <2>1, <2>2, <2>3
<1>6. CASE End
  BY <1>1, <1>2, <1>6, EndInv DEF End, database
<1> QED BY <1>3, <1>4, <1>5, <1>6 DEF Receive

LEMMA HandleInv == IndInv /\ (Handle \/ HandlerFails \/ Finally) => IndInv'
<1> SUFFICES ASSUME IndInv, Handle \/ HandlerFails \/ Finally PROVE IndInv'
  OBVIOUS
<1>1. TypeOK'
  BY HandleType DEF IndInv
<1>2. CASE StartCommit \/ StartTasks \/ StartReturn \/ EndCommit
  BY <1>2, StartCommitInv, StartTasksInv, StartReturnInv, EndCommitInv
<1>3. CASE InterruptEvent \/ EndReturn \/ HandlerFails
  <2>1. conn = "open"
    BY <1>3 DEF InterruptEvent, EndReturn, HandlerFails, IndInv, LoopInv
  <2> QED BY <1>1, <1>3, <2>1, IdleInv
          DEF InterruptEvent, EndReturn, HandlerFails, Reply, Return, Leave, listening, database
<1>4. CASE CloseDatabase
  <2>1. hpc = "idle"
    BY <1>4 DEF CloseDatabase, IndInv, LoopInv
  <2> QED BY <1>1, <1>4, <2>1, IdleInv DEF CloseDatabase, listening
<1>5. CASE CleanUp
  <2>1. hpc = "idle"
    BY <1>5 DEF CleanUp, IndInv, LoopInv
  <2> QED BY <1>1, <1>5, <2>1, EndInv DEF CleanUp, database
<1>6. CASE CleanUpSession
  BY <1>6, CleanUpSessionInv
<1> QED BY <1>2, <1>3, <1>4, <1>5, <1>6 DEF Handle, Finally

LEMMA InitInv == Init => IndInv
<1> SUFFICES ASSUME Init PROVE IndInv
  OBVIOUS
<1>1. TypeOK
  BY InitType
<1>2. LoopInv
  BY DEF Init, LoopInv, Starting, None
<1>3. NumberInv
  BY DEF Init, NumberInv, Ids
<1>4. HeldInv /\ LostInv
  BY DEF Init, HeldInv, LostInv
<1> QED BY <1>1, <1>2, <1>3, <1>4 DEF IndInv

LEMMA NextInv == IndInv /\ [Next]_vars => IndInv'
<1> SUFFICES ASSUME IndInv, [Next]_vars PROVE IndInv'
  OBVIOUS
<1>1. CASE UNCHANGED vars
  BY <1>1 DEF vars, IndInv, TypeOK, LoopInv, NumberInv, HeldInv, LostInv, Twice, Running
<1>2. CASE Receive
  BY <1>2, ReceiveInv
<1>3. CASE Handle \/ HandlerFails \/ Finally
  BY <1>3, HandleInv
<1>4. CASE \E n \in Ids : TaskStep(n)
  BY <1>4, TaskInv
<1> QED BY <1>1, <1>2, <1>3, <1>4 DEF Next, Closed, TaskStep

LEMMA Inductive == Spec => []IndInv
BY InitInv, NextInv, PTL DEF Spec

(* Every variable of a socket keeps its type; above all the audio queue never
   holds more than WS_AUDIO_QUEUE_MAX_FRAMES (voice.py, _enqueue_audio_frame). *)
THEOREM TypeCorrect == Spec => []TypeOK
<1>1. IndInv => TypeOK
  BY DEF IndInv
<1> QED BY <1>1, Inductive, PTL

(* Who may flush, and who may commit. *)
LEMMA QuietStep ==
  ASSUME IndInv, [Next]_vars, NEW i \in Ids, sess[i] = "ended"
  PROVE  /\ i \in dirty' \ dirty => \E n \in Ids : of[n] = i /\ Lost(n)
         /\ saved'[i] # saved[i] => Twice(i) \/ (conn = "closed" /\ \E n \in Ids : Lost(n))
<1> USE DEF IndInv
<1>1. CASE dirty' \subseteq dirty /\ UNCHANGED saved
  BY <1>1
<1>2. ASSUME NEW n \in Ids, TurnUser(n) \/ TurnAnswer(n)
      PROVE  /\ UNCHANGED saved
             /\ i \in dirty' \ dirty => \E m \in Ids : of[m] = i /\ Lost(m)
  <2>1. dirty' = dirty \cup {of[n]} /\ Running(n) /\ UNCHANGED saved
    BY <1>2 DEF TurnUser, TurnAnswer, Running, Stopped
  <2>2. of[n] = i => n # held
    BY <2>1 DEF HeldInv, Ids, None
  <2> QED BY <2>1, <2>2 DEF Lost
<1>3. CASE StartCommit \/ EndCommit
  <2>1. conn = "open" /\ Publish
    BY <1>3 DEF StartCommit, EndCommit, LoopInv
  <2>2. dirty' = {} /\ (saved'[i] # saved[i] => i \in dirty)
    BY <2>1 DEF Publish
  <2> QED BY <2>1, <2>2 DEF LostInv
<1>4. ASSUME NEW n \in Ids, TurnCommit(n)
      PROVE  /\ dirty' = {}
             /\ saved'[i] # saved[i] => Twice(i) \/ (conn = "closed" /\ \E m \in Ids : Lost(m))
  <2>1. Publish /\ Running(n)
    BY <1>4 DEF TurnCommit, Running, Stopped
  <2>2. dirty' = {} /\ (saved'[i] # saved[i] => i \in dirty)
    BY <2>1 DEF Publish
  <2>3. conn = "closed" => n # held
    BY <2>1 DEF HeldInv, Ids, None
  <2> QED BY <2>1, <2>2, <2>3 DEF LostInv, Lost
<1> QED
  BY <1>1, <1>2, <1>3, <1>4
  DEF Next, vars, Receive, Handle, Finally, Closed, ListenerStep, RefuseStart, StartCreate,
      StartResume, Audio, Ping, InterruptFlag, End, Disconnect, StartTasks, StartReturn,
      InterruptEvent, EndReturn, HandlerFails, CloseDatabase, CleanUp, CleanUpSession, Listen,
      StreamEnds, TurnClear, ReadAudio, Transcript, ListenerFails, HeartbeatDies, database

(* end and the disconnect: whatever the client sends, whatever fails and however
   many sessions it had, nothing is written into a session after its end but by
   a task of that session the loop lost sight of, and nothing is committed in it
   unless it was resumed on this socket or the connection is closed. *)
THEOREM EndedIsQuiet == Spec => EndedSessionIsQuiet
<1>1. IndInv /\ [Next]_vars =>
        [\A i \in Ids : sess[i] = "ended" =>
           /\ i \in dirty' \ dirty => \E n \in Ids : of[n] = i /\ Lost(n)
           /\ saved'[i] # saved[i] =>
                Twice(i) \/ (conn = "closed" /\ \E n \in Ids : Lost(n))]_vars
  BY QuietStep
<1> QED BY <1>1, Inductive, PTL DEF Spec, EndedSessionIsQuiet

-----------------------------------------------------------------------------
(* One session after the other *)

(* A client that starts again only when its session is over and never resumes,
   and no failure but those the loop and the listener recover from. *)
Polite ==
  /\ Msgs \cap {"restart", "resume"} = {}
  /\ Faults \cap {"send", "bootstrap", "cleanup"} = {}

(* The task that runs is the one of the active session. *)
RunsInv ==
  \A n \in Ids : Running(n) =>
    /\ sess[of[n]] = "active"
    /\ n = IF hpc = "started" THEN starts ELSE held
    /\ hpc \notin {"start", "tasks", "end", "ended"} /\ conn \notin {"ending", "closed"}

(* What a task has heard is of its session. *)
EarInv ==
  \A n \in Ids : /\ heard[n] \subseteq {of[n]}
                 /\ reader[n] # "off" \/ heard[n] # {} => Running(n)

Balanced == \/ Active = {} /\ gauge = 0
            \/ gauge = 1 /\ \E i \in Ids : Active = {i}

(* At most one session is active, and the gauge counts it, early or late. *)
CountInv ==
  /\ hpc \in {"start", "ended"} => Active = {} /\ gauge = 0
  /\ hpc = "tasks" => Active = {of[starts]} /\ gauge = 0
  /\ hpc = "started" => Active = {of[starts]} /\ gauge = 1
  /\ hpc \in {"idle", "interrupt", "end"} /\ conn # "ending" => Balanced
  /\ conn = "ending" => Active = {sid} /\ gauge = 0
  /\ sid # None /\ hpc # "ended" /\ conn # "closed" => Active = {sid}

(* No frame of a session outlives it in the queue. *)
QueueInv ==
  /\ queue \in Seq({None} \cup Active)
  /\ hpc = "end" \/ conn = "ending" => queue \in Seq({None})

PoliteInv == RunsInv /\ EarInv /\ CountInv /\ QueueInv

LEMMA SeqOps ==
  ASSUME NEW S, NEW q \in Seq(S)
  PROVE  /\ \A f \in S : Enqueue(q, f) \in Seq(S)
         /\ q # <<>> => Head(q) \in S /\ Tail(q) \in Seq(S)
         /\ \A T : S \subseteq T => q \in Seq(T)
<1>1. \A f \in S : Enqueue(q, f) \in Seq(S)
  BY BoundsAssumption DEF Enqueue
<1>2. q # <<>> => Head(q) \in S /\ Tail(q) \in Seq(S)
  OBVIOUS
<1>3. ASSUME NEW T, S \subseteq T PROVE q \in Seq(T)
  BY <1>3
<1> QED BY <1>1, <1>2, <1>3

LEMMA SignalEmpties == SignalAudioEnd => queue' \in Seq({None})
<1>1. <<None>> \in Seq({None}) /\ <<>> \in Seq({None})
  OBVIOUS
<1> QED BY <1>1 DEF SignalAudioEnd

(* No two sessions are active. *)
LEMMA OneActive ==
  ASSUME TypeOK, CountInv, NEW i \in Active, NEW j \in Active PROVE i = j
<1>1. CASE hpc \in {"start", "ended", "tasks", "started"}
  BY <1>1 DEF CountInv
<1>2. CASE hpc \notin {"start", "ended", "tasks", "started"} /\ conn = "ending"
  BY <1>2 DEF CountInv
<1>3. CASE Active = {} \/ \E k \in Ids : Active = {k}
  BY <1>3
<1> QED BY <1>1, <1>2, <1>3 DEF CountInv, Balanced, TypeOK

LEMMA TaskPolite ==
  ASSUME IndInv, PoliteInv, NEW n \in Ids, TaskStep(n) PROVE PoliteInv'
<1> USE DEF IndInv, PoliteInv
<1>1. UNCHANGED <<conn, hpc, starts, sid, held, sess, of, gauge>> /\ Active' = Active
  BY DEF TaskStep, ListenerStep, Listen, StreamEnds, TurnUser, TurnAnswer, TurnCommit, TurnClear,
         ReadAudio, Transcript, ListenerFails, HeartbeatDies, loop, listening, database, Active
<1>2. ASSUME NEW m \in Ids PROVE Running(m)' => Running(m)
  BY TaskEffect DEF TaskKeeps, Running
<1>3. RunsInv'
  BY <1>1, <1>2 DEF RunsInv
<1>4. CountInv'
  BY <1>1 DEF CountInv, Balanced
<1>5. CASE ReadAudio(n)
  <2>1. UNCHANGED task /\ queue # <<>> /\ queue' = Tail(queue) /\ Running(n)
    BY <1>5 DEF ReadAudio, EarInv
  <2>2. Head(queue) \in {None} \cup Active /\ queue' \in Seq({None} \cup Active)
    BY <2>1, SeqOps DEF QueueInv
  <2>3. queue \in Seq({None}) => queue' \in Seq({None})
    BY <2>1, SeqOps
  <2>4. Head(queue) # None => Head(queue) = of[n]
    <3>1. sess[of[n]] = "active" /\ of[n] \in Ids
      BY <2>1, BoundsAssumption DEF RunsInv, NumberInv, Running, Stopped, TypeOK, Ids
    <3> QED BY <2>2, <3>1, OneActive DEF Active
  <2>5. EarInv'
    <3>1. CASE Head(queue) = None
      BY <1>1, <1>5, <2>1, <3>1 DEF ReadAudio, EarInv, Running, TypeOK
    <3>2. CASE Head(queue) # None
      <4>1. /\ heard' = [heard EXCEPT ![n] = heard[n] \cup {of[n]}]
            /\ UNCHANGED reader
        BY <1>5, <2>4, <3>2 DEF ReadAudio
      <4> QED BY <1>1, <2>1, <4>1 DEF EarInv, Running, TypeOK
    <3> QED BY <3>1, <3>2
  <2>6. QueueInv'
    BY <1>1, <2>2, <2>3 DEF QueueInv
  <2> QED BY <1>3, <1>4, <2>5, <2>6
<1>6. CASE ~ReadAudio(n)
  <2>1. UNCHANGED queue
    BY <1>6 DEF TaskStep, ListenerStep, Listen, StreamEnds, TurnUser, TurnAnswer, TurnCommit,
            TurnClear, Transcript, ListenerFails, HeartbeatDies
  <2>2. QueueInv'
    BY <1>1, <2>1 DEF QueueInv
  <2> SUFFICES ASSUME NEW m \in Ids
               PROVE  heard'[m] \subseteq {of[m]}
                      /\ (reader'[m] # "off" \/ heard'[m] # {} => Running(m)')
    BY <1>1, <1>3, <1>4, <2>2 DEF EarInv
  <2>8. heard[m] \subseteq {of[m]} /\ (reader[m] # "off" \/ heard[m] # {} => Running(m))
    BY DEF EarInv
  <2>3. CASE Stop(n)
    BY <2>3, <2>8 DEF Stop, Running, TypeOK
  <2>4. CASE UNCHANGED <<task, reader, heard>>
    BY <2>4, <2>8 DEF Running
  <2>5. CASE /\ \E t \in {"listen"} \cup InTurn : task' = [task EXCEPT ![n] = t]
             /\ \/ UNCHANGED <<reader, heard>>
                \/ UNCHANGED heard /\ reader' = [reader EXCEPT ![n] = "on"]
                \/ UNCHANGED reader /\ heard' = [heard EXCEPT ![n] = {}]
    <3>1. CASE m = n
      <4>1. Running(m)'
        BY <2>5, <3>1 DEF InTurn, Running, Stopped, TypeOK
      <4>2. heard'[m] \subseteq {of[m]}
        BY <2>5, <2>8, <3>1 DEF TypeOK
      <4> QED BY <4>1, <4>2
    <3>2. CASE m # n
      BY <2>5, <2>8, <3>2 DEF Running, TypeOK
    <3> QED BY <3>1, <3>2
  <2>6. CASE UNCHANGED <<task, reader>> /\ heard' = [heard EXCEPT ![n] = {}]
    BY <2>6, <2>8 DEF Running, TypeOK
  <2> QED
    BY <1>6, <2>3, <2>4, <2>5, <2>6
    DEF TaskStep, ListenerStep, Listen, StreamEnds, TurnUser, TurnAnswer, TurnCommit, Advance,
        TurnClear, Transcript, ListenerFails, HeartbeatDies, listening, InTurn
<1> QED BY <1>5, <1>6

LEMMA SameTasks ==
  ASSUME UNCHANGED <<of, task, reader, heard>>
  PROVE  /\ \A n \in Ids : Running(n)' = Running(n)
         /\ EarInv => EarInv'
BY DEF EarInv, Running

(* A step that neither starts nor ends a session. *)
LEMMA IdlePolite ==
  ASSUME IndInv, PoliteInv, UNCHANGED <<sess, of, task, held, starts, gauge, reader, heard>>,
         hpc \in {"idle", "interrupt", "start", "end", "ended"}, hpc' \in {"idle", "interrupt"},
         conn \in {"open", "closing"}, conn' \in {"open", "closing", "finally"},
         sid' \in {sid, None}, hpc = "ended" => sid' = None,
         queue' \in Seq({None} \cup Active)
  PROVE  PoliteInv'
<1> USE DEF PoliteInv
<1>1. Active' = Active /\ (Balanced => Balanced')
  BY DEF Active, Balanced
<1>2. \A n \in Ids : Running(n)' = Running(n)
  BY SameTasks
<1>3. RunsInv'
  BY <1>2 DEF RunsInv
<1>4. EarInv'
  BY SameTasks
<1>5. CountInv'
  BY <1>1 DEF CountInv, Balanced
<1>6. QueueInv'
  BY <1>1 DEF QueueInv
<1> QED BY <1>3, <1>4, <1>5, <1>6

(* A start is served only while no session is active. *)
LEMMA StartCreatePolite == Polite /\ IndInv /\ PoliteInv /\ StartCreate => PoliteInv'
<1> SUFFICES ASSUME Polite, IndInv, PoliteInv, StartCreate PROVE PoliteInv'
  OBVIOUS
<1> USE DEF IndInv, PoliteInv
<1>1. /\ conn = "open" /\ hpc = "idle" /\ Active = {} /\ hpc' = "start"
      /\ UNCHANGED <<conn, sid, held, sess, task, reader, heard, queue, gauge>>
  BY DEF StartCreate, MayStart, Serving, Polite, database
<1>2. gauge = 0 /\ sid = None
  BY <1>1 DEF CountInv, Balanced
<1>3. Active' = {}
  BY <1>1 DEF Active
<1>4. ASSUME NEW n \in Ids PROVE ~Running(n) /\ ~Running(n)'
  <2>1. ~Running(n)
    <3>1. SUFFICES ASSUME Running(n) PROVE FALSE
      OBVIOUS
    <3>2. sess[of[n]] = "active" /\ of[n] \in Ids
      BY <3>1, BoundsAssumption
      DEF RunsInv, NumberInv, Running, Stopped, TypeOK, Ids
    <3> QED BY <1>1, <3>2 DEF Active
  <2> QED BY <1>1, <2>1 DEF Running
<1>5. RunsInv'
  BY <1>4 DEF RunsInv
<1>6. EarInv'
  BY <1>1, <1>4 DEF EarInv
<1>7. CountInv'
  BY <1>1, <1>2, <1>3 DEF CountInv
<1>8. QueueInv'
  BY <1>1, <1>3 DEF QueueInv
<1> QED BY <1>5, <1>6, <1>7, <1>8

LEMMA StartCommitPolite == IndInv /\ PoliteInv /\ StartCommit => PoliteInv'
<1> SUFFICES ASSUME IndInv, PoliteInv, StartCommit PROVE PoliteInv'
  OBVIOUS
<1> USE DEF IndInv, PoliteInv
<1>1. /\ conn = "open" /\ hpc = "start" /\ hpc' = "tasks"
      /\ UNCHANGED <<conn, starts, sid, held, of, task, reader, heard, queue, gauge>>
  BY DEF StartCommit, listening, LoopInv
<1>2. starts \in Ids /\ of[starts] \in Ids
  BY <1>1, StartNumber DEF Starting
<1>3. Active = {} /\ gauge = 0 /\ sid = None
  BY <1>1 DEF CountInv
<1>4. Active' = {of[starts]}
  BY <1>1, <1>2, <1>3 DEF StartCommit, Active, TypeOK
<1>5. ASSUME NEW n \in Ids PROVE ~Running(n)'
  BY <1>1 DEF RunsInv, Running
<1>6. RunsInv'
  BY <1>5 DEF RunsInv
<1>7. EarInv'
  BY <1>1, SameTasks
<1>8. CountInv'
  BY <1>1, <1>3, <1>4 DEF CountInv
<1>9. QueueInv'
  <2>1. queue \in Seq({None} \cup {of[starts]})
    BY <1>3, SeqOps DEF QueueInv
  <2> QED BY <1>1, <1>4, <2>1 DEF QueueInv
<1> QED BY <1>6, <1>7, <1>8, <1>9

LEMMA StartTasksPolite == IndInv /\ PoliteInv /\ StartTasks => PoliteInv'
<1> SUFFICES ASSUME IndInv, PoliteInv, StartTasks PROVE PoliteInv'
  OBVIOUS
<1> USE DEF IndInv, PoliteInv
<1>1. /\ conn = "open" /\ hpc = "tasks" /\ hpc' = "started" /\ gauge' = gauge + 1
      /\ task' = [task EXCEPT ![starts] = "ready"]
      /\ UNCHANGED <<conn, starts, sid, held, sess, of, reader, heard, queue>>
  BY DEF StartTasks, database, LoopInv
<1>2. starts \in Ids /\ of[starts] \in Ids
  BY <1>1, StartNumber DEF Starting
<1>3. Active = {of[starts]} /\ gauge = 0
  BY <1>1 DEF CountInv
<1>4. Active' = {of[starts]} /\ gauge' = 1 /\ sess[of[starts]] = "active"
  BY <1>1, <1>3 DEF Active
<1>5. ASSUME NEW n \in Ids PROVE ~Running(n) /\ (Running(n)' <=> n = starts)
  <2>1. ~Running(n)
    BY <1>1 DEF RunsInv
  <2> QED BY <1>1, <2>1 DEF Running, Stopped, TypeOK
<1>6. RunsInv'
  BY <1>1, <1>4, <1>5 DEF RunsInv
<1>7. EarInv'
  BY <1>1, <1>5 DEF EarInv
<1>8. CountInv'
  BY <1>1, <1>3, <1>4 DEF CountInv
<1>9. QueueInv'
  BY <1>1, <1>3, <1>4 DEF QueueInv
<1> QED BY <1>6, <1>7, <1>8, <1>9

LEMMA StartReturnPolite == Polite /\ IndInv /\ PoliteInv /\ StartReturn => PoliteInv'
<1> SUFFICES ASSUME Polite, IndInv, PoliteInv, StartReturn PROVE PoliteInv'
  OBVIOUS
<1> USE DEF IndInv, PoliteInv
<1>1. /\ conn = "open" /\ hpc = "started" /\ hpc' = "idle"
      /\ sid' = of[starts] /\ held' = starts
      /\ UNCHANGED <<conn, starts, sess, of, task, reader, heard, queue, gauge>>
  BY DEF StartReturn, Return, Polite, database, listening, LoopInv
<1>2. starts \in Ids /\ of[starts] \in Ids
  BY <1>1, StartNumber DEF Starting
<1>3. Active' = {of[starts]} /\ gauge = 1 /\ Active = {of[starts]}
  BY <1>1 DEF CountInv, Active
<1>4. RunsInv'
  BY <1>1, SameTasks DEF RunsInv
<1>5. EarInv'
  BY <1>1, SameTasks
<1>6. CountInv'
  BY <1>1, <1>2, <1>3 DEF CountInv, Balanced
<1>7. QueueInv'
  BY <1>1, <1>3 DEF QueueInv
<1> QED BY <1>4, <1>5, <1>6, <1>7

(* Nothing runs and nothing is heard once the held task is cancelled. *)
LEMMA CancelPolite ==
  ASSUME TypeOK, EarInv, RunsInv, hpc # "started", CancelTasks
  PROVE  EarInv' /\ \A n \in Ids : ~Running(n)'
<1>1. ASSUME NEW n \in Ids PROVE ~Running(n)'
  BY CancelEffect DEF RunsInv
<1>2. UNCHANGED of
  BY DEF CancelTasks
<1>3. ASSUME NEW n \in Ids PROVE heard'[n] = {} /\ reader'[n] = "off"
  <2>1. CASE n = held
    <3>1. held # None
      BY <2>1 DEF Ids, None
    <3>2. heard' = [heard EXCEPT ![n] = {}] /\ reader' = [reader EXCEPT ![n] = "off"]
      BY <2>1, <3>1 DEF CancelTasks, Stop
    <3> QED BY <3>2 DEF TypeOK
  <2>2. CASE n # held
    <3>1. heard'[n] = heard[n] /\ reader'[n] = reader[n]
      BY <2>2 DEF CancelTasks, Stop, TypeOK
    <3>2. ~Running(n)
      BY <2>2 DEF RunsInv
    <3> QED BY <3>1, <3>2 DEF EarInv
  <2> QED BY <2>1, <2>2
<1> QED BY <1>1, <1>3 DEF EarInv

LEMMA EndPolite == IndInv /\ PoliteInv /\ End => PoliteInv'
<1> SUFFICES ASSUME IndInv, PoliteInv, End PROVE PoliteInv'
  OBVIOUS
<1> USE DEF IndInv, PoliteInv
<1>1. /\ conn = "open" /\ hpc = "idle" /\ hpc' = "end" /\ sid # None
      /\ UNCHANGED <<conn, starts, sid, held, sess, gauge>>
  BY DEF End, Serving, database
<1>2. EarInv' /\ \A n \in Ids : ~Running(n)'
  BY <1>1, CancelPolite DEF End
<1>3. Active' = Active
  BY <1>1 DEF Active
<1>4. RunsInv'
  BY <1>2 DEF RunsInv
<1>5. CountInv'
  BY <1>1, <1>3 DEF CountInv, Balanced
<1>6. QueueInv'
  <2>1. queue' \in Seq({None})
    BY SignalEmpties DEF End
  <2> QED BY <2>1, SeqOps DEF QueueInv
<1> QED BY <1>2, <1>4, <1>5, <1>6

LEMMA EndCommitPolite == IndInv /\ PoliteInv /\ EndCommit => PoliteInv'
<1> SUFFICES ASSUME IndInv, PoliteInv, EndCommit PROVE PoliteInv'
  OBVIOUS
<1> USE DEF IndInv, PoliteInv
<1>1. /\ conn = "open" /\ hpc = "end" /\ hpc' = "ended" /\ gauge' = gauge - 1
      /\ UNCHANGED <<conn, starts, sid, held, of, task, reader, heard, queue>>
  BY DEF EndCommit, listening, LoopInv
<1>2. sid \in Ids /\ Active = {sid}
  BY <1>1 DEF LoopInv, TypeOK, CountInv
<1>3. gauge = 1
  BY <1>1, <1>2 DEF CountInv, Balanced
<1>4. Active' = {}
  BY <1>2 DEF EndCommit, Active, TypeOK
<1>5. RunsInv'
  BY <1>1, SameTasks DEF RunsInv
<1>6. EarInv'
  BY <1>1, SameTasks
<1>7. CountInv'
  BY <1>1, <1>3, <1>4 DEF CountInv
<1>8. QueueInv'
  BY <1>1, SeqOps DEF QueueInv
<1> QED BY <1>5, <1>6, <1>7, <1>8

LEMMA CleanUpPolite == IndInv /\ PoliteInv /\ CleanUp => PoliteInv'
<1> SUFFICES ASSUME IndInv, PoliteInv, CleanUp PROVE PoliteInv'
  OBVIOUS
<1> USE DEF IndInv, PoliteInv
<1>1. /\ conn = "finally" /\ hpc = "idle"
      /\ UNCHANGED <<hpc, starts, sid, held, sess>>
  BY DEF CleanUp, database, LoopInv
<1>2. EarInv' /\ \A n \in Ids : ~Running(n)'
  BY <1>1, CancelPolite DEF CleanUp
<1>3. Active' = Active
  BY <1>1 DEF Active
<1>4. RunsInv'
  BY <1>2 DEF RunsInv
<1>5. CountInv'
  <2>1. CASE sid = None
    <3>1. conn' = "closed" /\ UNCHANGED gauge
      BY <2>1 DEF CleanUp
    <3> QED BY <1>1, <1>3, <3>1 DEF CountInv, Balanced
  <2>2. CASE sid # None
    <3>1. conn' = "ending" /\ gauge' = gauge - 1
      BY <2>2 DEF CleanUp
    <3>2. gauge = 1 /\ Active = {sid}
      BY <1>1, <2>2 DEF CountInv, Balanced
    <3> QED BY <1>1, <1>3, <3>1, <3>2 DEF CountInv
  <2> QED BY <2>1, <2>2
<1>6. QueueInv'
  <2>1. queue' \in Seq({None})
    BY SignalEmpties DEF CleanUp
  <2> QED BY <2>1, SeqOps DEF QueueInv
<1> QED BY <1>2, <1>4, <1>5, <1>6

LEMMA CleanUpSessionPolite == Polite /\ IndInv /\ PoliteInv /\ CleanUpSession => PoliteInv'
<1> SUFFICES ASSUME Polite, IndInv, PoliteInv, CleanUpSession PROVE PoliteInv'
  OBVIOUS
<1> USE DEF IndInv, PoliteInv
<1>1. /\ conn = "ending" /\ hpc = "idle" /\ conn' = "closed"
      /\ sess' = [sess EXCEPT ![sid] = "ended"]
      /\ UNCHANGED <<hpc, starts, sid, held, of, task, reader, heard, queue, gauge>>
  BY DEF CleanUpSession, listening, LoopInv, Polite
<1>2. Active = {sid} /\ gauge = 0
  BY <1>1 DEF CountInv
<1>3. Active' = {}
  BY <1>1, <1>2 DEF Active, TypeOK
<1>4. RunsInv'
  BY <1>1, SameTasks DEF RunsInv
<1>5. EarInv'
  BY <1>1, SameTasks
<1>6. CountInv'
  BY <1>1, <1>2, <1>3 DEF CountInv, Balanced
<1>7. QueueInv'
  BY <1>1, SeqOps DEF QueueInv
<1> QED BY <1>4, <1>5, <1>6, <1>7

LEMMA NextPolite == Polite /\ IndInv /\ PoliteInv /\ [Next]_vars => PoliteInv'
<1> SUFFICES ASSUME Polite, IndInv, PoliteInv, [Next]_vars PROVE PoliteInv'
  OBVIOUS
<1>1. CASE UNCHANGED vars
  <2>1. Active' = Active
    BY <1>1 DEF vars, Active
  <2>2. EarInv' /\ RunsInv'
    BY <1>1, SameTasks DEF vars, PoliteInv, RunsInv
  <2>3. CountInv' /\ QueueInv'
    BY <1>1, <2>1 DEF vars, PoliteInv, CountInv, Balanced, QueueInv
  <2> QED BY <2>2, <2>3 DEF PoliteInv
<1>2. queue \in Seq({None} \cup Active)
  BY DEF PoliteInv, QueueInv
<1>3. CASE \/ RefuseStart \/ Ping \/ InterruptFlag \/ Disconnect
           \/ InterruptEvent \/ EndReturn \/ HandlerFails \/ CloseDatabase
  <2>1. /\ UNCHANGED <<sess, of, task, held, starts, gauge, reader, heard, queue>>
        /\ hpc \in {"idle", "interrupt", "start", "end", "ended"}
        /\ hpc' \in {"idle", "interrupt"}
        /\ conn \in {"open", "closing"} /\ conn' \in {"open", "closing", "finally"}
        /\ sid' \in {sid, None} /\ (hpc = "ended" => sid' = None)
    BY <1>3 DEF Polite, IndInv, LoopInv, TypeOK, RefuseStart, MayStart, Serving, Ping,
       InterruptFlag, Disconnect, InterruptEvent, EndReturn, HandlerFails, CloseDatabase, Reply,
       Return, Leave, database, listening
  <2> QED BY <1>2, <2>1, IdlePolite
<1>4. CASE Audio
  <2>1. /\ conn = "open" /\ hpc = "idle" /\ sid # None /\ queue' = Enqueue(queue, sid)
        /\ UNCHANGED <<conn, hpc, starts, sid, held, sess, of, task, reader, heard, gauge>>
    BY <1>4 DEF Audio, Serving, loop, listening, database
  <2>2. Active = {sid}
    BY <2>1 DEF PoliteInv, CountInv
  <2>3. queue' \in Seq({None} \cup Active)
    BY <1>2, <2>1, <2>2, SeqOps
  <2> QED BY <2>1, <2>3, IdlePolite
<1>5. CASE StartResume
  BY <1>5 DEF StartResume, Serving, Polite
<1>6. ASSUME NEW n \in Ids, TaskStep(n) PROVE PoliteInv'
  BY <1>6, TaskPolite
<1> QED
  BY <1>1, <1>3, <1>4, <1>5, <1>6, StartCreatePolite, StartCommitPolite, StartTasksPolite,
     StartReturnPolite, EndPolite, EndCommitPolite, CleanUpPolite, CleanUpSessionPolite
  DEF Next, Receive, Handle, Finally, Closed, TaskStep

LEMMA InitPolite == Init => PoliteInv
<1> SUFFICES ASSUME Init PROVE PoliteInv
  OBVIOUS
<1>1. Active = {} /\ \A n \in Ids : ~Running(n)
  BY DEF Init, Active, Running, Stopped
<1>2. RunsInv /\ EarInv
  BY <1>1 DEF Init, RunsInv, EarInv
<1>3. CountInv
  BY <1>1 DEF Init, CountInv, Balanced
<1>4. QueueInv
  BY <1>1 DEF Init, QueueInv
<1> QED BY <1>2, <1>3, <1>4 DEF PoliteInv

(* What the sessions of one socket share does not mix. *)
LEMMA PoliteConsistent == IndInv /\ PoliteInv => SocketConsistent
<1> SUFFICES ASSUME IndInv, PoliteInv PROVE SocketConsistent
  OBVIOUS
<1> USE DEF PoliteInv
<1>1. OwnAudio
  BY DEF EarInv, OwnAudio
<1>2. OneListener
  BY DEF RunsInv, OneListener
<1>3. GaugeExact
  <2>1. Cardinality({}) = 0 /\ \A i : Cardinality({i}) = 1
    BY FS_EmptySet, FS_Singleton
  <2> QED BY <2>1 DEF GaugeExact, CountInv, Balanced
<1> QED BY <1>1, <1>2, <1>3 DEF SocketConsistent

(* One socket, many sessions: if the client waits for the end of a session
   before it starts the next, no frame of one session reaches the recognition of
   another, no two tasks listen, and active_sessions counts what is active,
   whatever the client sends in between and however turns and commits fail. *)
THEOREM SocketIsConsistent == ASSUME Polite PROVE Spec => []SocketConsistent
<1>1. Spec => []PoliteInv
  BY Inductive, InitPolite, NextPolite, PTL DEF Spec
<1> QED BY <1>1, Inductive, PoliteConsistent, PTL
=============================================================================
