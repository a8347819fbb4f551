---------------------- MODULE HandoffOrchestratorProofs ----------------------
(***************************************************************************)
(* Proofs about HandoffOrchestrator for every set of requests and agents.  *)
(*                                                                         *)
(* The safety properties are not inductive alone: what a commit publishes  *)
(* is in the dirty rows, and those are right only because the handler that *)
(* wrote them still holds the row locks.  IndInv adds which statements     *)
(* hold which lock, and what a lock holder has written on top of which     *)
(* committed version.  RecordsInv adds what a transaction has inserted,    *)
(* ticketed and written to Redis by the time it holds which lock.          *)
(***************************************************************************)
EXTENDS HandoffOrchestrator, TLAPS

(* The requests that write only the session row.                           *)
RowOnly == {"activate", "end"}

(* Which statements belong to which handler.                               *)
LabelInv(r) ==
  /\ pc[r] \in {"create", "ticket", "assign"} => kind[r] \in Initiators
  /\ pc[r] \in {"look", "open", "listen"} => kind[r] = "turn"
  /\ pc[r] \in {"update", "reread"} => kind[r] \in {"accept"} \cup Closers
  /\ pc[r] \in {"link", "apply"} => kind[r] \notin RowOnly
  /\ pc[r] \in {"actupd", "actphase"} => kind[r] = "activate"
  /\ pc[r] \in {"endget", "endupd", "delete"} => kind[r] = "end"
  /\ pc[r] = "commit" => kind[r] # "turn"

(* Which statements hold which row lock.                                   *)
LockInv(r) ==
  /\ pc[r] \in {"ticket", "assign", "link", "apply"} => recLock = r
  /\ pc[r] = "commit" /\ kind[r] \notin RowOnly => recLock = r
  /\ recLock = r =>
       /\ pc[r] \in {"ticket", "assign", "link", "apply", "commit", "open"}
       /\ kind[r] \notin RowOnly
  /\ pc[r] \in {"apply", "actphase"} \/ (pc[r] = "commit" /\ kind[r] # "end") => sessLock = r
  /\ sessLock = r =>
       /\ pc[r] \in {"apply", "actphase", "delete", "commit", "open"}
       /\ kind[r] \notin RowOnly => recLock = r

(* A turn that holds the handoff row and not the session's failed on the    *)
(* way, and has inserted the created event with the row.                   *)
TurnInv(r) ==
  /\ pc[r] = "open" /\ recLock = r /\ sessLock # r => result[r] = "error"
  /\ recLock = r /\ kind[r] \in Initiators => "created" \in events[r]

(* The dirty handoff row is one legal transition away from the committed.  *)
RecInv(r) ==
  recLock = r =>
    \/ /\ kind[r] \in Initiators
       /\ rec.status = "none"
       /\ recNew.status \in Unclaimed /\ recNew.accepted_at = "null"
    \/ /\ kind[r] = "accept"
       /\ rec.status \in Unclaimed
       /\ recNew.status = "active" /\ recNew.user = agent[r]
       /\ recNew.accepted_at = "set"
    \/ /\ kind[r] \in Closers
       /\ rec.status \in OpenStatus
       /\ recNew.status = Target(kind[r]) /\ recNew.user = rec.user
       /\ recNew.accepted_at = rec.accepted_at

(* The dirty session row carries the status of the dirty handoff row.      *)
SessInv(r) ==
  sessLock = r =>
    CASE kind[r] = "end" ->
           sessNew = [sess EXCEPT !.status = "completed", !.ended_at = "set"]
      [] kind[r] = "activate" -> sessNew = [sess EXCEPT !.status = "active"]
      [] OTHER -> sessNew = [sess EXCEPT !.link = recNew.status,
                                         !.status = StatusFor(recNew.status)]

CommittedInv ==
  /\ rec.status \in {"none"} \cup Unclaimed => rec.accepted_at = "null"
  /\ rec.status = "active" => rec.accepted_at = "set"
  /\ recLock = NoReq => recNew = rec
  /\ sessLock = NoReq => sessNew = sess

(* A running request has no answer, but a turn that failed knows it did.   *)
AnswerInv(r) ==
  result[r] # "none" =>
    pc[r] \in {"listen", "done"} \/ (pc[r] = "open" /\ result[r] = "error")

IndInv ==
  /\ TypeOK
  /\ \A r \in Req : LabelInv(r) /\ LockInv(r) /\ RecInv(r) /\ SessInv(r)
                    /\ TurnInv(r) /\ AnswerInv(r)
  /\ CommittedInv
  /\ OneAgentWins
  /\ CloseIsFinal

-----------------------------------------------------------------------------
(* Type correctness *)

LEMMA InitType == Init => TypeOK
BY DEF Init, TypeOK, NoHandoff, Row, HandoffStatus, SessionStatus, Timestamp, SessionPhase,
       Labels, Results

LEMMA TargetType ==
  ASSUME NEW k PROVE Target(k) \in OpenStatus \cup TerminalHandoff
BY DEF Target, OpenStatus, Unclaimed, TerminalHandoff

LEMMA StatusForType ==
  ASSUME NEW h PROVE StatusFor(h) \in SessionStatus \ {"completed"}
BY DEF StatusFor, SessionStatus

LEMMA PhaseForType ==
  ASSUME NEW s PROVE PhaseFor(s) \in SessionPhase
BY DEF PhaseFor, SessionPhase

LEMMA ClassifyType ==
  ASSUME NEW r, NEW h PROVE Classify(r, h) \in (Results \cup {"go"})
BY DEF Classify, Results

(* No handler puts a value outside its type into any row, lock or answer.   *)
LEMMA NextType == TypeOK /\ [Next]_vars => TypeOK'
<1> SUFFICES ASSUME TypeOK, [Next]_vars PROVE TypeOK'
  OBVIOUS
<1> USE DEF TypeOK, Goto, Answer, Record, request, handoffRow, sessionRow,
            outside, Finish, HandoffExists, Rephase, HandoffStatus, OpenStatus, Unclaimed,
            Release
<1>1. ASSUME NEW r \in Req, Step(r) PROVE TypeOK'
  <2>1. CASE InitiateFastPath(r)
    BY <2>1 DEF InitiateFastPath, Labels, Results
  <2>2. CASE CreateHandoff(r)
    BY <2>2 DEF CreateHandoff, Row, Timestamp, Labels, Results, EventTypes
  <2>3. CASE CreateTicket(r)
    BY <2>3 DEF CreateTicket, Labels, EventTypes
  <2>4. CASE AssignHandoff(r)
    BY <2>4 DEF AssignHandoff, Row, Timestamp, Labels, EventTypes
  <2>5. CASE ReadHandoff(r)
    <3>1. Classify(r, rec) \in Results \cup {"go"}
      BY ClassifyType
    <3> QED BY <2>5, <3>1 DEF ReadHandoff, Labels
  <2>6. CASE UpdateStatus(r)
    <3>1. Target(kind[r]) \in HandoffStatus
      BY TargetType
    <3> QED BY <2>6, <3>1 DEF UpdateStatus, Updated, Row, Timestamp, Labels
  <2>7. CASE RereadHandoff(r)
    <3>1. Classify(r, rec) \in Results \cup {"go"}
      BY ClassifyType
    <3> QED BY <2>7, <3>1 DEF RereadHandoff, Labels, Results
  <2>8. CASE LinkSession(r)
    <3>1. StatusFor(recNew.status) \in SessionStatus
      BY StatusForType
    <3>2. sessNew' \in [link : HandoffStatus, status : SessionStatus, ended_at : Timestamp]
      BY <2>8, <3>1 DEF LinkSession
    <3>3. events' \in [Req -> SUBSET EventTypes]
      BY <2>8 DEF LinkSession, EventTypes
    <3>4. pc' \in [Req -> Labels] /\ sessLock' \in Req \cup {NoReq}
      BY <2>8 DEF LinkSession, Labels
    <3>5. UNCHANGED <<kind, agent, rec, recNew, recLock, sess, phase, tickets, result>>
      BY <2>8 DEF LinkSession
    <3> QED BY <3>2, <3>3, <3>4, <3>5
  <2>9. CASE ApplyEphemeral(r)
    <3>1. PhaseFor(sessNew.status) \in SessionPhase
      BY PhaseForType
    <3> QED BY <2>9, <3>1 DEF ApplyEphemeral, Labels, EventTypes
  <2>10. CASE EndRead(r)
    BY <2>10 DEF EndRead, Labels
  <2>11. CASE EndGet(r)
    BY <2>11 DEF EndGet, Labels
  <2>12. CASE EndUpdate(r)
    <3>1. sessNew' = [link |-> sess.link, status |-> "completed",
                      ended_at |-> "set"]
      BY <2>12 DEF EndUpdate
    <3>2. sessNew' \in [link : HandoffStatus, status : SessionStatus,
                        ended_at : Timestamp]
      BY <3>1 DEF SessionStatus, Timestamp
    <3> QED BY <2>12, <3>2 DEF EndUpdate, Labels
  <2>13. CASE EndDelete(r)
    BY <2>13 DEF EndDelete, Labels, SessionPhase
  <2>14. CASE Commit(r)
    BY <2>14 DEF Commit, Labels, Results
  <2>15. CASE TurnSpeaks(r)
    BY <2>15 DEF TurnSpeaks, Labels, SessionPhase
  <2>16. CASE TurnListens(r)
    BY <2>16 DEF TurnListens, Labels, SessionPhase
  <2>17. CASE ActivateRead(r)
    BY <2>17 DEF ActivateRead, Labels, Results
  <2>18. CASE ActivateUpdate(r)
    <3>1. sessNew' = [link |-> sess.link, status |-> "active", ended_at |-> sess.ended_at]
      BY <2>18 DEF ActivateUpdate
    <3>2. sessNew' \in [link : HandoffStatus, status : SessionStatus, ended_at : Timestamp]
      BY <3>1 DEF SessionStatus
    <3> QED BY <2>18, <3>2 DEF ActivateUpdate, Labels
  <2>19. CASE ActivatePhase(r)
    BY <2>19 DEF ActivatePhase, Labels, SessionPhase
  <2> QED
    BY <1>1, <2>1, <2>2, <2>3, <2>4, <2>5, <2>6, <2>7, <2>8, <2>9, <2>10,
       <2>11, <2>12, <2>13, <2>14, <2>15, <2>16, <2>17, <2>18, <2>19 DEF Step
<1>2. ASSUME NEW r \in Req, Swallow(r) \/ Abort(r) PROVE TypeOK'
  BY <1>2 DEF Swallow, Abort, Labels, Results
<1>3. CASE LoseEphemeral
  BY <1>3 DEF LoseEphemeral, SessionPhase
<1>4. CASE UNCHANGED vars
  BY <1>4 DEF vars
<1> HIDE DEF TypeOK
<1> QED
  BY <1>1, <1>2, <1>3, <1>4 DEF Next, Terminating

(* Every reachable state of the handoff handlers is well typed.            *)
THEOREM TypeCorrect == Spec => []TypeOK
BY InitType, NextType, PTL DEF Spec

-----------------------------------------------------------------------------
(* The inductive invariant: one lemma per action *)

(* The fast path of initiate_handoff reads and answers. *)
LEMMA InitiateFastPathInd ==
  ASSUME IndInv, TypeOK', NEW r \in Req, InitiateFastPath(r)
  PROVE  IndInv'
<1> USE NoReqIsNoReq
    DEF IndInv, TypeOK, InitiateFastPath, Goto, Answer, Record, Finish,
        HandoffExists, Rephase,
        request, handoffRow, sessionRow, outside
<1>1. \A q \in Req : LabelInv(q)' /\ LockInv(q)' /\ AnswerInv(q)' /\ TurnInv(q)'
  BY DEF LabelInv, LockInv, AnswerInv, TurnInv, RowOnly, Initiators, Closers
<1>2. /\ \A q \in Req : RecInv(q)' /\ SessInv(q)'
      /\ CommittedInv'
  <2>1. UNCHANGED <<kind, agent, rec, recNew, sess, sessNew, recLock, sessLock>>
    OBVIOUS
  <2> QED
    BY <2>1 DEF RecInv, SessInv, CommittedInv
<1>3. OneAgentWins' /\ CloseIsFinal'
  BY DEF OneAgentWins, CloseIsFinal, LabelInv, Closers
<1> QED
  BY <1>1, <1>2, <1>3

(* The external ticket changes no row. *)
LEMMA CreateTicketInd ==
  ASSUME IndInv, TypeOK', NEW r \in Req, CreateTicket(r)
  PROVE  IndInv'
<1> USE NoReqIsNoReq
    DEF IndInv, TypeOK, CreateTicket, Goto, Answer, Record, Finish,
        HandoffExists, Rephase,
        request, handoffRow, sessionRow, outside
<1>1. \A q \in Req : LabelInv(q)' /\ LockInv(q)' /\ AnswerInv(q)' /\ TurnInv(q)'
  BY DEF LabelInv, LockInv, AnswerInv, TurnInv, RowOnly, Initiators, Closers
<1>2. /\ \A q \in Req : RecInv(q)' /\ SessInv(q)'
      /\ CommittedInv'
  BY DEF RecInv, SessInv, CommittedInv
<1>3. OneAgentWins' /\ CloseIsFinal'
  BY DEF OneAgentWins, CloseIsFinal, LabelInv, Closers
<1> QED
  BY <1>1, <1>2, <1>3

(* The first SELECT of accept, complete and cancel. *)
LEMMA ReadHandoffInd ==
  ASSUME IndInv, TypeOK', NEW r \in Req, ReadHandoff(r)
  PROVE  IndInv'
<1> USE NoReqIsNoReq
    DEF IndInv, TypeOK, ReadHandoff, Goto, Answer, Record, Finish,
        HandoffExists, Rephase,
        request, handoffRow, sessionRow, outside
<1>1. \A q \in Req : LabelInv(q)' /\ LockInv(q)' /\ AnswerInv(q)' /\ TurnInv(q)'
  BY DEF LabelInv, LockInv, AnswerInv, TurnInv, RowOnly, Initiators, Closers
<1>2. /\ \A q \in Req : RecInv(q)' /\ SessInv(q)'
      /\ CommittedInv'
  <2>1. UNCHANGED <<kind, agent, rec, recNew, sess, sessNew, recLock, sessLock>>
    OBVIOUS
  <2>2. \A q \in Req : q # r => pc'[q] = pc[q] /\ result'[q] = result[q]
    OBVIOUS
  <2>3. pc[r] = "start" /\ pc'[r] \in {"update", "done"}
    OBVIOUS
  <2> HIDE DEF TypeOK, ReadHandoff
  <2> QED
    BY <2>1, <2>2, <2>3 DEF RecInv, SessInv, CommittedInv
<1>3. OneAgentWins' /\ CloseIsFinal'
  BY DEF OneAgentWins, CloseIsFinal, CommittedInv, Classify, Closers
<1> QED
  BY <1>1, <1>2, <1>3

(* The SELECT after an UPDATE that matched nothing. *)
LEMMA RereadHandoffInd ==
  ASSUME IndInv, TypeOK', NEW r \in Req, RereadHandoff(r)
  PROVE  IndInv'
<1> USE NoReqIsNoReq
    DEF IndInv, TypeOK, RereadHandoff, Goto, Answer, Record, Finish,
        HandoffExists, Rephase,
        request, handoffRow, sessionRow, outside
<1>1. \A q \in Req : LabelInv(q)' /\ LockInv(q)' /\ AnswerInv(q)' /\ TurnInv(q)'
  BY DEF LabelInv, LockInv, AnswerInv, TurnInv, RowOnly, Initiators, Closers
<1>2. /\ \A q \in Req : RecInv(q)' /\ SessInv(q)'
      /\ CommittedInv'
  BY DEF RecInv, SessInv, CommittedInv
<1>3. OneAgentWins' /\ CloseIsFinal'
  BY DEF OneAgentWins, CloseIsFinal, CommittedInv, Classify, Closers
<1> QED
  BY <1>1, <1>2, <1>3

(* Redis is not part of the database. *)
LEMMA ApplyEphemeralInd ==
  ASSUME IndInv, TypeOK', NEW r \in Req, ApplyEphemeral(r)
  PROVE  IndInv'
<1> USE NoReqIsNoReq
    DEF IndInv, TypeOK, ApplyEphemeral, Goto, Answer, Record, Finish,
        HandoffExists, Rephase,
        request, handoffRow, sessionRow, outside
<1>1. \A q \in Req : LabelInv(q)' /\ LockInv(q)' /\ AnswerInv(q)' /\ TurnInv(q)'
  BY DEF LabelInv, LockInv, AnswerInv, TurnInv, RowOnly, Initiators, Closers
<1>2. /\ \A q \in Req : RecInv(q)' /\ SessInv(q)'
      /\ CommittedInv'
  BY DEF RecInv, SessInv, CommittedInv
<1>3. OneAgentWins' /\ CloseIsFinal'
  BY DEF OneAgentWins, CloseIsFinal, LabelInv, Closers
<1> QED
  BY <1>1, <1>2, <1>3

(* The first SELECT of end_session. *)
LEMMA EndReadInd ==
  ASSUME IndInv, TypeOK', NEW r \in Req, EndRead(r)
  PROVE  IndInv'
<1> USE NoReqIsNoReq
    DEF IndInv, TypeOK, EndRead, Goto, Answer, Record, Finish,
        HandoffExists, Rephase,
        request, handoffRow, sessionRow, outside
<1>1. \A q \in Req : LabelInv(q)' /\ LockInv(q)' /\ AnswerInv(q)' /\ TurnInv(q)'
  BY DEF LabelInv, LockInv, AnswerInv, TurnInv, RowOnly, Initiators, Closers
<1>2. /\ \A q \in Req : RecInv(q)' /\ SessInv(q)'
      /\ CommittedInv'
  BY DEF RecInv, SessInv, CommittedInv
<1>3. OneAgentWins' /\ CloseIsFinal'
  BY DEF OneAgentWins, CloseIsFinal, LabelInv, Closers
<1> QED
  BY <1>1, <1>2, <1>3

(* The SELECT of SessionRepository.end_session. *)
LEMMA EndGetInd ==
  ASSUME IndInv, TypeOK', NEW r \in Req, EndGet(r)
  PROVE  IndInv'
<1> USE NoReqIsNoReq
    DEF IndInv, TypeOK, EndGet, Goto, Answer, Record, Finish,
        HandoffExists, Rephase,
        request, handoffRow, sessionRow, outside
<1>1. \A q \in Req : LabelInv(q)' /\ LockInv(q)' /\ AnswerInv(q)' /\ TurnInv(q)'
  BY DEF LabelInv, LockInv, AnswerInv, TurnInv, RowOnly, Initiators, Closers
<1>2. /\ \A q \in Req : RecInv(q)' /\ SessInv(q)'
      /\ CommittedInv'
  BY DEF RecInv, SessInv, CommittedInv
<1>3. OneAgentWins' /\ CloseIsFinal'
  BY DEF OneAgentWins, CloseIsFinal, LabelInv, Closers
<1> QED
  BY <1>1, <1>2, <1>3

(* The best-effort delete of the Redis keys. *)
LEMMA EndDeleteInd ==
  ASSUME IndInv, TypeOK', NEW r \in Req, EndDelete(r)
  PROVE  IndInv'
<1> USE NoReqIsNoReq
    DEF IndInv, TypeOK, EndDelete, Goto, Answer, Record, Finish,
        HandoffExists, Rephase,
        request, handoffRow, sessionRow, outside
<1>1. \A q \in Req : LabelInv(q)' /\ LockInv(q)' /\ AnswerInv(q)' /\ TurnInv(q)'
  BY DEF LabelInv, LockInv, AnswerInv, TurnInv, RowOnly, Initiators, Closers
<1>2. /\ \A q \in Req : RecInv(q)' /\ SessInv(q)'
      /\ CommittedInv'
  BY DEF RecInv, SessInv, CommittedInv
<1>3. OneAgentWins' /\ CloseIsFinal'
  BY DEF OneAgentWins, CloseIsFinal, LabelInv, Closers
<1> QED
  BY <1>1, <1>2, <1>3

(* The INSERT takes the handoff row or finds the winner's. *)
LEMMA CreateHandoffInd ==
  ASSUME IndInv, TypeOK', NEW r \in Req, CreateHandoff(r)
  PROVE  IndInv'
<1> USE NoReqIsNoReq
    DEF IndInv, TypeOK, CreateHandoff, Row, Goto, Answer, Record, Finish,
        HandoffExists, Rephase,
        request, handoffRow, sessionRow, outside
<1>1. \A q \in Req : LabelInv(q)' /\ AnswerInv(q)' /\ TurnInv(q)'
  BY DEF LabelInv, LockInv, AnswerInv, TurnInv, RowOnly, Initiators, Closers
<1>2. \A q \in Req : LockInv(q)'
  BY DEF LockInv, LabelInv, RowOnly, Initiators, Closers
<1>3. \A q \in Req : RecInv(q)'
  BY DEF RecInv, LockInv, LabelInv, CommittedInv, Unclaimed
<1>4. \A q \in Req : sessLock = q /\ recLock # q => kind[q] \in RowOnly
  BY DEF LockInv
<1>5. \A q \in Req : SessInv(q)'
  <2>1. UNCHANGED <<kind, sess, sessNew, sessLock>>
    OBVIOUS
  <2>2. \A q \in Req : sessLock = q /\ kind[q] \notin RowOnly => recNew' = recNew
    BY <1>4 DEF LockInv
  <2> HIDE DEF TypeOK, CreateHandoff
  <2> QED BY <2>1, <2>2 DEF SessInv, RowOnly
<1>6. CommittedInv'
  BY DEF CommittedInv, LockInv
<1>7. OneAgentWins' /\ CloseIsFinal'
  BY DEF OneAgentWins, CloseIsFinal, LabelInv, Initiators, Closers
<1> QED
  BY <1>1, <1>2, <1>3, <1>5, <1>6, <1>7

(* The inserter moves its own uncommitted row. *)
LEMMA AssignHandoffInd ==
  ASSUME IndInv, TypeOK', NEW r \in Req, AssignHandoff(r)
  PROVE  IndInv'
<1> USE NoReqIsNoReq
    DEF IndInv, TypeOK, AssignHandoff, Row, Goto, Answer, Record, Finish,
        HandoffExists, Rephase,
        request, handoffRow, sessionRow, outside
<1>1. \A q \in Req : LabelInv(q)' /\ AnswerInv(q)' /\ TurnInv(q)'
  BY DEF LabelInv, LockInv, AnswerInv, TurnInv, RowOnly, Initiators, Closers
<1>2. \A q \in Req : LockInv(q)'
  BY DEF LockInv, LabelInv, RowOnly, Initiators, Closers
<1>3. \A q \in Req : RecInv(q)'
  <2>1. recLock = r /\ UNCHANGED <<kind, agent, rec, recLock>>
    BY DEF LockInv
  <2>2. /\ recNew'.status \in Unclaimed /\ recNew'.accepted_at = "null"
        /\ kind[r] \in Initiators
    BY DEF LabelInv, Unclaimed
  <2>3. rec.status = "none"
    BY <2>1, <2>2 DEF RecInv, Initiators, Closers
  <2> HIDE DEF TypeOK, AssignHandoff
  <2> QED BY <2>1, <2>2, <2>3 DEF RecInv
<1>4. \A q \in Req : sessLock = q /\ recLock # q => kind[q] \in RowOnly
  BY DEF LockInv
<1>5. \A q \in Req : SessInv(q)'
  <2>1. UNCHANGED <<kind, sess, sessNew, sessLock>>
    OBVIOUS
  <2>2. \A q \in Req : sessLock = q /\ kind[q] \notin RowOnly => recNew' = recNew
    BY <1>4 DEF LockInv
  <2> HIDE DEF TypeOK, AssignHandoff
  <2> QED BY <2>1, <2>2 DEF SessInv, RowOnly
<1>6. CommittedInv'
  <2>1. recLock = r /\ UNCHANGED <<rec, recLock, sess, sessNew, sessLock>>
    BY DEF LockInv
  <2> HIDE DEF TypeOK, AssignHandoff
  <2> QED BY <2>1 DEF CommittedInv
<1>7. OneAgentWins' /\ CloseIsFinal'
  BY DEF OneAgentWins, CloseIsFinal, LabelInv, Closers
<1> QED
  BY <1>1, <1>2, <1>3, <1>5, <1>6, <1>7

(* The conditional UPDATE locks the row only when its status allows it. *)
LEMMA UpdateStatusInd ==
  ASSUME IndInv, TypeOK', NEW r \in Req, UpdateStatus(r)
  PROVE  IndInv'
<1> USE NoReqIsNoReq
    DEF IndInv, TypeOK, UpdateStatus, Updated, Row, Goto, Answer, Record, Finish,
        HandoffExists, Rephase,
        request, handoffRow, sessionRow, outside
<1>1. \A q \in Req : LabelInv(q)' /\ AnswerInv(q)' /\ TurnInv(q)'
  BY DEF LabelInv, LockInv, AnswerInv, TurnInv, RowOnly, Initiators, Closers
<1>2. \A q \in Req : LockInv(q)'
  BY DEF LockInv, LabelInv, RowOnly, Initiators, Closers
<1>3. \A q \in Req : RecInv(q)'
  <2>1. CASE rec.status \in AllowedFrom(kind[r])
    <3>1. kind[r] = "accept" \/ kind[r] \in Closers
      BY DEF LabelInv, Closers
    <3>2. kind[r] = "accept" => rec.status \in Unclaimed
      BY <2>1 DEF AllowedFrom
    <3>3. kind[r] \in Closers => rec.status \in OpenStatus
      BY <2>1 DEF AllowedFrom, Closers
    <3>4. RecInv(r)'
      BY <2>1, <3>1, <3>2, <3>3 DEF RecInv, Target, Closers
    <3>5. \A q \in Req : q # r => RecInv(q)'
      BY <2>1 DEF RecInv
    <3> QED BY <3>4, <3>5
  <2>2. CASE rec.status \notin AllowedFrom(kind[r])
    BY <2>2 DEF RecInv
  <2> QED BY <2>1, <2>2
<1>4. \A q \in Req : sessLock = q /\ recLock # q => kind[q] \in RowOnly
  BY DEF LockInv
<1>5. \A q \in Req : SessInv(q)'
  <2>1. UNCHANGED <<kind, sess, sessNew, sessLock>>
    OBVIOUS
  <2>2. \A q \in Req : sessLock = q /\ kind[q] \notin RowOnly => recNew' = recNew
    BY <1>4 DEF LockInv
  <2> HIDE DEF TypeOK, UpdateStatus
  <2> QED BY <2>1, <2>2 DEF SessInv, RowOnly
<1>6. CommittedInv'
  BY DEF CommittedInv, LockInv
<1>7. OneAgentWins' /\ CloseIsFinal'
  BY DEF OneAgentWins, CloseIsFinal, LabelInv, Closers
<1> QED
  BY <1>1, <1>2, <1>3, <1>5, <1>6, <1>7

(* link_session locks the session row under the handoff row. *)
LEMMA LinkSessionInd ==
  ASSUME IndInv, TypeOK', NEW r \in Req, LinkSession(r)
  PROVE  IndInv'
<1> USE NoReqIsNoReq
    DEF IndInv, TypeOK, LinkSession, Goto, Answer, Record, Finish,
        HandoffExists, Rephase,
        request, handoffRow, sessionRow, outside
<1>1. \A q \in Req : LabelInv(q)' /\ AnswerInv(q)' /\ TurnInv(q)'
  BY DEF LabelInv, LockInv, AnswerInv, TurnInv, RowOnly, Initiators, Closers
<1>2. \A q \in Req : LockInv(q)'
  <2>1. /\ pc[r] = "link" /\ recLock = r /\ kind[r] \notin RowOnly
        /\ sessLock = NoReq /\ sessLock' = r /\ UNCHANGED <<kind, recLock>>
        /\ pc' = [pc EXCEPT ![r] = "apply"]
    BY DEF LockInv, LabelInv
  <2> HIDE DEF LinkSession
  <2>2. LockInv(r)'
    BY <2>1 DEF LockInv
  <2>3. ASSUME NEW q \in Req, q # r PROVE LockInv(q)'
    BY <2>1, <2>3 DEF LockInv
  <2> QED BY <2>2, <2>3
<1>3. \A q \in Req : RecInv(q)'
  BY DEF RecInv, LockInv, LabelInv, CommittedInv, Closers
<1>4. \A q \in Req : sessLock = q /\ recLock # q => kind[q] \in RowOnly
  BY DEF LockInv
<1>5. \A q \in Req : SessInv(q)'
  BY <1>4 DEF SessInv, LockInv, LabelInv, CommittedInv, RowOnly
<1>6. CommittedInv'
  BY DEF CommittedInv, LockInv
<1>7. OneAgentWins' /\ CloseIsFinal'
  BY DEF OneAgentWins, CloseIsFinal, LabelInv, Closers
<1> QED
  BY <1>1, <1>2, <1>3, <1>5, <1>6, <1>7

(* end_session locks the session row alone. *)
LEMMA EndUpdateInd ==
  ASSUME IndInv, TypeOK', NEW r \in Req, EndUpdate(r)
  PROVE  IndInv'
<1> USE NoReqIsNoReq
    DEF IndInv, TypeOK, EndUpdate, Goto, Answer, Record, Finish,
        HandoffExists, Rephase,
        request, handoffRow, sessionRow, outside
<1>1. \A q \in Req : LabelInv(q)' /\ AnswerInv(q)' /\ TurnInv(q)'
  BY DEF LabelInv, LockInv, AnswerInv, TurnInv, RowOnly, Initiators, Closers
<1>2. \A q \in Req : LockInv(q)'
  BY DEF LockInv, LabelInv, RowOnly, Initiators, Closers
<1>3. \A q \in Req : RecInv(q)'
  BY DEF RecInv, LockInv, LabelInv, CommittedInv
<1>4. \A q \in Req : sessLock = q /\ recLock # q => kind[q] \in RowOnly
  BY DEF LockInv
<1>5. \A q \in Req : SessInv(q)'
  BY <1>4 DEF SessInv, LockInv, LabelInv, CommittedInv, RowOnly
<1>6. CommittedInv'
  BY DEF CommittedInv, LockInv
<1>7. OneAgentWins' /\ CloseIsFinal'
  BY DEF OneAgentWins, CloseIsFinal, LabelInv, Closers
<1> QED
  BY <1>1, <1>2, <1>3, <1>5, <1>6, <1>7

(* A turn writes the phase and goes on. *)
LEMMA TurnSpeaksInd ==
  ASSUME IndInv, TypeOK', NEW r \in Req, TurnSpeaks(r)
  PROVE  IndInv'
<1> USE NoReqIsNoReq
    DEF IndInv, TypeOK, TurnSpeaks, Goto, Answer, Record, Finish,
        HandoffExists, Rephase,
        request, handoffRow, sessionRow, outside
<1>1. \A q \in Req : LabelInv(q)' /\ LockInv(q)' /\ AnswerInv(q)' /\ TurnInv(q)'
  BY DEF LabelInv, LockInv, AnswerInv, TurnInv, RowOnly, Initiators, Closers
<1>2. /\ \A q \in Req : RecInv(q)' /\ SessInv(q)'
      /\ CommittedInv'
  BY DEF RecInv, SessInv, CommittedInv
<1>3. OneAgentWins' /\ CloseIsFinal'
  BY DEF OneAgentWins, CloseIsFinal, LabelInv, Closers
<1> QED
  BY <1>1, <1>2, <1>3

(* The phase after the turn. *)
LEMMA TurnListensInd ==
  ASSUME IndInv, TypeOK', NEW r \in Req, TurnListens(r)
  PROVE  IndInv'
<1> USE NoReqIsNoReq
    DEF IndInv, TypeOK, TurnListens, Goto, Answer, Record, Finish,
        HandoffExists, Rephase,
        request, handoffRow, sessionRow, outside
<1>1. \A q \in Req : LabelInv(q)' /\ LockInv(q)' /\ AnswerInv(q)' /\ TurnInv(q)'
  BY DEF LabelInv, LockInv, AnswerInv, TurnInv, RowOnly, Initiators, Closers
<1>2. /\ \A q \in Req : RecInv(q)' /\ SessInv(q)'
      /\ CommittedInv'
  BY DEF RecInv, SessInv, CommittedInv
<1>3. OneAgentWins' /\ CloseIsFinal'
  BY DEF OneAgentWins, CloseIsFinal, LabelInv, Closers
<1> QED
  BY <1>1, <1>2, <1>3

(* The phase of an activated session. *)
LEMMA ActivatePhaseInd ==
  ASSUME IndInv, TypeOK', NEW r \in Req, ActivatePhase(r)
  PROVE  IndInv'
<1> USE NoReqIsNoReq
    DEF IndInv, TypeOK, ActivatePhase, Goto, Answer, Record, Finish,
        HandoffExists, Rephase,
        request, handoffRow, sessionRow, outside
<1>1. \A q \in Req : LabelInv(q)' /\ LockInv(q)' /\ AnswerInv(q)' /\ TurnInv(q)'
  BY DEF LabelInv, LockInv, AnswerInv, TurnInv, RowOnly, Initiators, Closers
<1>2. /\ \A q \in Req : RecInv(q)' /\ SessInv(q)'
      /\ CommittedInv'
  BY DEF RecInv, SessInv, CommittedInv
<1>3. OneAgentWins' /\ CloseIsFinal'
  BY DEF OneAgentWins, CloseIsFinal, LabelInv, Closers
<1> QED
  BY <1>1, <1>2, <1>3

(* A caught failure changes no row and keeps the locks. *)
LEMMA SwallowInd ==
  ASSUME IndInv, TypeOK', NEW r \in Req, Swallow(r)
  PROVE  IndInv'
<1> USE NoReqIsNoReq
    DEF IndInv, TypeOK, Swallow, Goto, Answer, Record, Finish,
        HandoffExists, Rephase,
        request, handoffRow, sessionRow, outside
<1>1. \A q \in Req : LabelInv(q)' /\ LockInv(q)' /\ AnswerInv(q)' /\ TurnInv(q)'
  BY DEF LabelInv, LockInv, AnswerInv, TurnInv, RowOnly, Initiators, Closers
<1>2. /\ \A q \in Req : RecInv(q)' /\ SessInv(q)'
      /\ CommittedInv'
  BY DEF RecInv, SessInv, CommittedInv
<1>3. OneAgentWins' /\ CloseIsFinal'
  BY DEF OneAgentWins, CloseIsFinal, LabelInv, Closers
<1> QED
  BY <1>1, <1>2, <1>3

(* The SELECT of activate_session. *)
LEMMA ActivateReadInd ==
  ASSUME IndInv, TypeOK', NEW r \in Req, ActivateRead(r)
  PROVE  IndInv'
<1> USE NoReqIsNoReq
    DEF IndInv, TypeOK, ActivateRead, Goto, Answer, Record, Finish,
        HandoffExists, Rephase,
        request, handoffRow, sessionRow, outside
<1>1. \A q \in Req : LabelInv(q)' /\ LockInv(q)' /\ AnswerInv(q)' /\ TurnInv(q)'
  BY DEF LabelInv, LockInv, AnswerInv, TurnInv, RowOnly, Initiators, Closers
<1>2. /\ \A q \in Req : RecInv(q)' /\ SessInv(q)'
      /\ CommittedInv'
  <2>1. UNCHANGED <<kind, agent, rec, recNew, sess, sessNew, recLock, sessLock>>
    OBVIOUS
  <2> QED
    BY <2>1 DEF RecInv, SessInv, CommittedInv
<1>3. OneAgentWins' /\ CloseIsFinal'
  BY DEF OneAgentWins, CloseIsFinal, LabelInv, Closers
<1> QED
  BY <1>1, <1>2, <1>3

(* activate_session locks the session row alone. *)
LEMMA ActivateUpdateInd ==
  ASSUME IndInv, TypeOK', NEW r \in Req, ActivateUpdate(r)
  PROVE  IndInv'
<1> USE NoReqIsNoReq
    DEF IndInv, TypeOK, ActivateUpdate, Goto, Answer, Record, Finish,
        HandoffExists, Rephase,
        request, handoffRow, sessionRow, outside
<1>1. \A q \in Req : LabelInv(q)' /\ AnswerInv(q)' /\ TurnInv(q)'
  BY DEF LabelInv, LockInv, AnswerInv, TurnInv, RowOnly, Initiators, Closers
<1>2. \A q \in Req : LockInv(q)'
  BY DEF LockInv, LabelInv, RowOnly, Initiators, Closers
<1>3. \A q \in Req : RecInv(q)'
  BY DEF RecInv, LockInv, LabelInv, CommittedInv
<1>5. \A q \in Req : SessInv(q)'
  BY DEF SessInv, LockInv, LabelInv, CommittedInv, RowOnly
<1>6. CommittedInv'
  BY DEF CommittedInv, LockInv
<1>7. OneAgentWins' /\ CloseIsFinal'
  BY DEF OneAgentWins, CloseIsFinal, LabelInv, Closers
<1> QED
  BY <1>1, <1>2, <1>3, <1>5, <1>6, <1>7

(* COMMIT publishes what the lock holder wrote and releases both rows. *)
LEMMA CommitInd ==
  ASSUME IndInv, TypeOK', NEW r \in Req, Commit(r)
  PROVE  IndInv'
<1> USE NoReqIsNoReq, NoAgentOutside
    DEF IndInv, TypeOK, Commit, Goto, Answer, Release, request, outside
<1>1. \A q \in Req : LabelInv(q)' /\ AnswerInv(q)' /\ TurnInv(q)'
  BY DEF LabelInv, LockInv, AnswerInv, TurnInv, RowOnly, Initiators
<1>2. \A q \in Req : LockInv(q)'
  BY DEF LockInv, LabelInv, RowOnly
<1>3. ASSUME NEW q \in Req, q # r PROVE RecInv(q)' /\ SessInv(q)'
  <2>1. UNCHANGED <<kind, agent, recNew, sessNew>>
    OBVIOUS
  <2>2. recLock' = q => recLock = q /\ rec' = rec
    BY <1>3
  <2>3. sessLock' = q => sessLock = q /\ sess' = sess
    BY <1>3
  <2> HIDE DEF TypeOK, Commit
  <2> QED BY <2>1, <2>2, <2>3 DEF RecInv, SessInv
<1>4. RecInv(r)' /\ SessInv(r)'
  BY DEF RecInv, SessInv
<1>5. CASE recLock # r
  <2>1. rec' = rec /\ recLock' = recLock /\ kind[r] \in RowOnly \cup {"turn"}
    BY <1>5 DEF LockInv, LabelInv
  <2>2. CommittedInv'
    BY <2>1 DEF CommittedInv
  <2>3. OneAgentWins' /\ CloseIsFinal'
    BY <2>1 DEF OneAgentWins, CloseIsFinal, Closers, RowOnly
  <2> QED BY <1>1, <1>2, <1>3, <1>4, <2>2, <2>3
<1>6. CASE recLock = r
  <2>1. rec' = recNew /\ RecInv(r)
    BY <1>6
  <2>2. CommittedInv'
    BY <1>6, <2>1 DEF CommittedInv, RecInv, Target, Closers, Unclaimed, OpenStatus
  <2>3. OneAgentWins'
    BY <1>6, <2>1 DEF OneAgentWins, RecInv, CommittedInv, Closers, Initiators
  <2>4. CloseIsFinal'
    BY <1>6, <2>1 DEF CloseIsFinal, RecInv, Closers, Target, OpenStatus, Unclaimed, Initiators
  <2> QED BY <1>1, <1>2, <1>3, <1>4, <2>2, <2>3, <2>4
<1> QED
  BY <1>5, <1>6

(* A rollback restores the committed versions and releases both rows. *)
LEMMA AbortInd ==
  ASSUME IndInv, TypeOK', NEW r \in Req, Abort(r)
  PROVE  IndInv'
<1> USE NoReqIsNoReq
    DEF IndInv, TypeOK, Abort, Goto, Answer, Release, request, outside
<1>1. \A q \in Req : LabelInv(q)' /\ LockInv(q)' /\ AnswerInv(q)' /\ TurnInv(q)'
  BY DEF LabelInv, LockInv, AnswerInv, TurnInv, RowOnly, Initiators, Closers
<1>2. \A q \in Req : RecInv(q)' /\ SessInv(q)'
  <2>1. RecInv(r)' /\ SessInv(r)'
    BY DEF RecInv, SessInv
  <2>2. ASSUME NEW q \in Req, q # r, recLock = q PROVE RecInv(q)'
    BY <2>2 DEF RecInv
  <2>3. ASSUME NEW q \in Req, q # r, sessLock = q PROVE SessInv(q)'
    <3>1. kind[q] \notin RowOnly => recLock = q
      BY <2>3 DEF LockInv
    <3> QED BY <2>3, <3>1 DEF SessInv, RowOnly
  <2> QED BY <2>1, <2>2, <2>3 DEF RecInv, SessInv
<1>3. CommittedInv'
  BY DEF CommittedInv
<1>4. OneAgentWins' /\ CloseIsFinal'
  BY DEF OneAgentWins, CloseIsFinal
<1> QED
  BY <1>1, <1>2, <1>3, <1>4

(* Nothing but Redis changes. *)
LEMMA OtherInd ==
  ASSUME IndInv, TypeOK', LoseEphemeral \/ UNCHANGED vars
  PROVE  IndInv'
<1> USE DEF IndInv
<1>1. UNCHANGED <<kind, agent, rec, recNew, sess, sessNew, recLock, sessLock,
                  events, pc, result>>
  BY DEF LoseEphemeral, vars, request, handoffRow, sessionRow
<1>2. \A r \in Req : LabelInv(r)' /\ LockInv(r)' /\ RecInv(r)' /\ SessInv(r)'
                     /\ AnswerInv(r)'
  BY <1>1 DEF LabelInv, LockInv, RecInv, SessInv, AnswerInv
<1>4. \A r \in Req : TurnInv(r)'
  BY <1>1 DEF TurnInv
<1>3. CommittedInv' /\ OneAgentWins' /\ CloseIsFinal'
  BY <1>1 DEF CommittedInv, OneAgentWins, CloseIsFinal
<1> QED
  BY <1>2, <1>3, <1>4

LEMMA InitInd == Init => IndInv
<1> SUFFICES ASSUME Init PROVE IndInv
  OBVIOUS
<1>1. TypeOK
  BY InitType
<1>2. \A r \in Req : LabelInv(r) /\ LockInv(r) /\ RecInv(r) /\ SessInv(r)
                     /\ TurnInv(r) /\ AnswerInv(r)
  BY NoReqIsNoReq DEF Init, LabelInv, LockInv, RecInv, SessInv, TurnInv, AnswerInv
<1>3. CommittedInv
  BY DEF Init, CommittedInv, NoHandoff, Row, StatusFor,
         Unclaimed
<1>4. OneAgentWins /\ CloseIsFinal
  BY DEF Init, OneAgentWins, CloseIsFinal
<1> QED
  BY <1>1, <1>2, <1>3, <1>4 DEF IndInv

LEMMA NextInd == IndInv /\ [Next]_vars => IndInv'
<1> SUFFICES ASSUME IndInv, [Next]_vars PROVE IndInv'
  OBVIOUS
<1>1. TypeOK'
  BY NextType DEF IndInv
<1>2. ASSUME NEW r \in Req, Step(r) PROVE IndInv'
  BY <1>1, <1>2, InitiateFastPathInd, CreateHandoffInd, CreateTicketInd,
     AssignHandoffInd, ReadHandoffInd, UpdateStatusInd, RereadHandoffInd,
     LinkSessionInd, ApplyEphemeralInd, EndReadInd, EndGetInd, EndUpdateInd,
     EndDeleteInd, CommitInd, TurnSpeaksInd, TurnListensInd, ActivateReadInd,
     ActivateUpdateInd, ActivatePhaseInd DEF Step
<1>3. ASSUME NEW r \in Req, Swallow(r) \/ Abort(r) PROVE IndInv'
  BY <1>1, <1>3, SwallowInd, AbortInd
<1>4. CASE LoseEphemeral \/ UNCHANGED vars
  BY <1>1, <1>4, OtherInd
<1> QED
  BY <1>2, <1>3, <1>4 DEF Next, Terminating

LEMMA Inductive == Spec => []IndInv
BY InitInd, NextInd, PTL DEF Spec

-----------------------------------------------------------------------------
(* For any number of racing agents, all that were told 200 are one agent.   *)
THEOREM SingleWinner == Spec => []OneAgentWins
<1>1. IndInv => OneAgentWins
  BY DEF IndInv
<1> QED
  BY <1>1, Inductive, PTL

(* For any number of racing closes, none that succeeded is contradicted.    *)
THEOREM CloseFinal == Spec => []CloseIsFinal
<1>1. IndInv => CloseIsFinal
  BY DEF IndInv
<1> QED
  BY <1>1, Inductive, PTL

-----------------------------------------------------------------------------
(* The session row follows the handoff *)

(* What no step of request r does to the other requests.                   *)
Alone(r) ==
  /\ pc[r] # "done"
  /\ UNCHANGED <<kind>>
  /\ \A q \in Req \ {r} : /\ pc'[q] = pc[q] /\ events'[q] = events[q]
                          /\ result'[q] = result[q]
                          /\ recLock' = q <=> recLock = q
                          /\ q \in tickets' <=> q \in tickets

LEMMA StepAlone ==
  ASSUME TypeOK, NEW r \in Req, Step(r) \/ Swallow(r) \/ Abort(r) PROVE Alone(r)
<1> USE NoReqIsNoReq
    DEF TypeOK, Alone, Goto, Answer, Record, Finish, HandoffExists, Rephase, Release,
        request, handoffRow, sessionRow, outside
<1>1. CASE InitiateFastPath(r) \/ CreateHandoff(r) \/ CreateTicket(r) \/ AssignHandoff(r)
  BY <1>1 DEF InitiateFastPath, CreateHandoff, CreateTicket, AssignHandoff
<1>2. CASE ReadHandoff(r) \/ UpdateStatus(r) \/ RereadHandoff(r)
  BY <1>2 DEF ReadHandoff, UpdateStatus, RereadHandoff
<1>3. CASE LinkSession(r) \/ ApplyEphemeral(r)
  BY <1>3 DEF LinkSession, ApplyEphemeral
<1>4. CASE EndRead(r) \/ EndGet(r) \/ EndUpdate(r) \/ EndDelete(r)
  BY <1>4 DEF EndRead, EndGet, EndUpdate, EndDelete
<1>5. CASE Commit(r)
  BY <1>5 DEF Commit
<1>6. CASE Abort(r)
  BY <1>6 DEF Abort
<1>7. CASE TurnSpeaks(r) \/ TurnListens(r) \/ Swallow(r)
  BY <1>7 DEF TurnSpeaks, TurnListens, Swallow
<1>8. CASE ActivateRead(r) \/ ActivateUpdate(r) \/ ActivatePhase(r)
  BY <1>8 DEF ActivateRead, ActivateUpdate, ActivatePhase
<1> QED BY <1>1, <1>2, <1>3, <1>4, <1>5, <1>6, <1>7, <1>8 DEF Step

(* A turn that was committed only has its phase left to write.             *)
LEMMA ListenEnds ==
  ASSUME TypeOK, NEW r \in Req, pc[r] = "listen", Step(r) \/ Swallow(r) \/ Abort(r)
  PROVE  UNCHANGED <<rec, sess, events, result>> /\ pc'[r] = "done"
<1>1. TurnListens(r)
  BY DEF Step, TurnSpeaks, InitiateFastPath, CreateHandoff, CreateTicket, AssignHandoff,
     ReadHandoff, UpdateStatus, RereadHandoff, LinkSession, ApplyEphemeral, ActivateRead,
     ActivateUpdate, ActivatePhase, EndRead, EndGet, EndUpdate, EndDelete, Commit, Swallow, Abort
<1> QED BY <1>1 DEF TurnListens, Goto, TypeOK, handoffRow, sessionRow

(* The two exceptions, once they happened, stay.                           *)
LEMMA ExceptionsStay ==
  ASSUME IndInv, NEW r \in Req, Step(r) \/ Swallow(r) \/ Abort(r)
  PROVE  (HalfInitiated => HalfInitiated') /\ (Reactivated => Reactivated')
<1>1. Alone(r)
  BY StepAlone DEF IndInv
<1>2. HalfInitiated => HalfInitiated'
  <2> SUFFICES ASSUME NEW q \in Req, kind[q] = "turn", result[q] = "error",
                      "created" \in events[q], pc[q] \in {"listen", "done"}
               PROVE  HalfInitiated'
    BY DEF HalfInitiated
  <2>1. CASE q = r
    BY <1>1, <2>1, ListenEnds DEF IndInv, Alone, HalfInitiated
  <2>2. CASE q # r
    BY <1>1, <2>2 DEF Alone, HalfInitiated
  <2> QED BY <2>1, <2>2
<1>3. Reactivated => Reactivated'
  <2> SUFFICES ASSUME NEW q \in Req, kind[q] = "activate", result[q] = "ok"
               PROVE  Reactivated'
    BY DEF Reactivated
  <2>1. pc[q] = "done"
    BY DEF IndInv, AnswerInv, LabelInv
  <2> QED BY <1>1, <2>1 DEF Alone, Reactivated
<1> QED BY <1>2, <1>3

(* Only a commit publishes rows.                                           *)
LEMMA OnlyCommits ==
  ASSUME NEW r \in Req, Step(r) \/ Swallow(r) \/ Abort(r), ~Commit(r)
  PROVE  rec' = rec /\ sess' = sess
BY DEF Step, InitiateFastPath, CreateHandoff, CreateTicket,
     AssignHandoff, ReadHandoff, UpdateStatus, RereadHandoff, LinkSession,
     ApplyEphemeral, EndRead, EndGet, EndUpdate, EndDelete, TurnSpeaks, TurnListens,
     ActivateRead, ActivateUpdate, ActivatePhase, Swallow, Abort, HandoffExists, Finish,
     handoffRow, sessionRow

(* A commit publishes both rows, the session row alone, or, for a turn that *)
(* failed half-way, the handoff row alone.                                 *)
LEMMA CommitFollows ==
  ASSUME IndInv, SessionFollowsHandoff, NEW r \in Req, Commit(r)
  PROVE  SessionFollowsHandoff'
<1>1. (HalfInitiated => HalfInitiated') /\ (Reactivated => Reactivated')
  BY ExceptionsStay DEF Step
<1>2. /\ rec' = (IF recLock = r THEN recNew ELSE rec)
      /\ sess' = (IF sessLock = r THEN sessNew ELSE sess)
  BY DEF Commit
<1>3. CASE recLock = r /\ sessLock = r
  <2>1. kind[r] \notin RowOnly
    BY <1>3 DEF IndInv, LockInv
  <2>2. sess' = [sess EXCEPT !.link = recNew.status, !.status = StatusFor(recNew.status)]
    BY <1>2, <1>3, <2>1 DEF IndInv, SessInv, RowOnly
  <2>3. sess'.link = recNew.status /\ sess'.status = StatusFor(recNew.status)
    BY <2>2 DEF IndInv, TypeOK
  <2> QED BY <1>2, <1>3, <2>3 DEF SessionFollowsHandoff
<1>4. CASE recLock = r /\ sessLock # r
  <2>1. pc[r] = "open" /\ kind[r] = "turn" /\ result[r] = "error" /\ "created" \in events[r]
    BY <1>4 DEF Commit, IndInv, LockInv, LabelInv, TurnInv, Initiators, RowOnly
  <2>2. HalfInitiated'
    BY <2>1 DEF Commit, HalfInitiated, IndInv, TypeOK, Goto, Answer, request
  <2>3. rec.status = "none" /\ recNew.status \in Unclaimed
    BY <1>4, <2>1 DEF IndInv, RecInv, Initiators, Closers
  <2>4. sess.link = "none"
    BY <2>3 DEF SessionFollowsHandoff, Unclaimed
  <2> QED BY <1>1, <1>2, <1>4, <2>2, <2>3, <2>4 DEF SessionFollowsHandoff
<1>5. CASE recLock # r /\ sessLock = r
  <2>1. kind[r] \in RowOnly
    BY <1>5 DEF IndInv, LockInv
  <2>2. CASE kind[r] = "end"
    <3>1. sess' = [sess EXCEPT !.status = "completed", !.ended_at = "set"]
      BY <1>2, <1>5, <2>2 DEF IndInv, SessInv
    <3>2. sess'.link = sess.link /\ sess'.ended_at = "set"
      BY <3>1 DEF IndInv, TypeOK
    <3> QED BY <1>1, <1>2, <1>5, <3>2 DEF SessionFollowsHandoff
  <2>3. CASE kind[r] = "activate"
    <3>1. sess' = [sess EXCEPT !.status = "active"]
      BY <1>2, <1>5, <2>3 DEF IndInv, SessInv
    <3>2. sess'.link = sess.link /\ sess'.status = "active"
      BY <3>1 DEF IndInv, TypeOK
    <3>3. result[r] # "error"
      BY <2>3 DEF Commit, IndInv, AnswerInv, LabelInv
    <3>4. Reactivated'
      BY <2>3, <3>3 DEF Commit, Reactivated, IndInv, TypeOK, Answer, request
    <3> QED BY <1>1, <1>2, <1>5, <3>2, <3>4 DEF SessionFollowsHandoff
  <2> QED BY <2>1, <2>2, <2>3 DEF RowOnly
<1>6. CASE recLock # r /\ sessLock # r
  BY <1>1, <1>2, <1>6 DEF SessionFollowsHandoff
<1> QED BY <1>3, <1>4, <1>5, <1>6

LEMMA NextFollows ==
  IndInv /\ SessionFollowsHandoff /\ [Next]_vars => SessionFollowsHandoff'
<1> SUFFICES ASSUME IndInv, SessionFollowsHandoff, [Next]_vars PROVE SessionFollowsHandoff'
  OBVIOUS
<1>1. ASSUME NEW r \in Req, Step(r) \/ Swallow(r) \/ Abort(r) PROVE SessionFollowsHandoff'
  <2>1. CASE Commit(r)
    BY <2>1, CommitFollows
  <2>2. CASE ~Commit(r)
    BY <1>1, <2>2, OnlyCommits, ExceptionsStay DEF SessionFollowsHandoff
  <2> QED BY <2>1, <2>2
<1>2. CASE LoseEphemeral \/ UNCHANGED vars
  <2>1. UNCHANGED <<kind, rec, sess, events, pc, result>>
    BY <1>2 DEF LoseEphemeral, vars, request, handoffRow, sessionRow
  <2> QED BY <2>1 DEF SessionFollowsHandoff, HalfInitiated, Reactivated
<1> QED
  BY <1>1, <1>2 DEF Next, Terminating

(* For any number of requests and agents the session row agrees with the    *)
(* handoff record, up to a turn whose initiate_handoff failed half-way     *)
(* (until the next handler repairs the copy) and a session that            *)
(* activate_session made active under an open handoff.                     *)
THEOREM SessionFollows == Spec => []SessionFollowsHandoff
<1>1. Init => SessionFollowsHandoff
  BY DEF Init, SessionFollowsHandoff, NoHandoff, Row, StatusFor, Unclaimed
<1> QED
  BY <1>1, NextFollows, Inductive, PTL DEF Spec

-----------------------------------------------------------------------------
(* Refinement: every step of a handler is a step of the lifecycle of one    *)
(* handoff, or a stutter.  Only a commit can be the former.                *)
LEMMA InitRefines == Init => L!LInit
BY DEF Init, L!LInit, NoHandoff, Row, owner

LEMMA CommitRefines ==
  ASSUME IndInv, NEW r \in Req, Commit(r)
  PROVE  [L!LNext]_(L!lvars)
<1> USE DEF Commit, IndInv, owner
<1>1. CASE recLock # r
  BY <1>1 DEF L!lvars
<1>2. CASE recLock = r
  <2>1. rec' = recNew /\ RecInv(r)
    BY <1>2
  <2>2. CASE kind[r] \in Initiators
    BY <1>2, <2>1, <2>2, NoAgentOutside
       DEF RecInv, CommittedInv, Initiators, Closers, L!LNext, L!Create, L!Unclaimed,
           Unclaimed
  <2>3. CASE kind[r] = "accept"
    <3>1. L!Accept(agent[r]) /\ agent[r] \in Agents
      BY <1>2, <2>1, <2>3
         DEF RecInv, Initiators, Closers, TypeOK, L!Accept, L!Unclaimed, Unclaimed
    <3> QED BY <3>1 DEF L!LNext
  <2>4. CASE kind[r] \in Closers
    BY <1>2, <2>1, <2>4
       DEF RecInv, Initiators, Closers, Target, L!LNext, L!Close, L!OpenStatus,
           L!Unclaimed, L!TerminalHandoff, OpenStatus, Unclaimed
  <2> QED BY <1>2, <2>1, <2>2, <2>3, <2>4 DEF RecInv
<1> QED
  BY <1>1, <1>2

LEMMA NextRefines == IndInv /\ [Next]_vars => [L!LNext]_(L!lvars)
<1> SUFFICES ASSUME IndInv, [Next]_vars PROVE [L!LNext]_(L!lvars)
  OBVIOUS
<1>1. ASSUME NEW r \in Req, Commit(r) PROVE [L!LNext]_(L!lvars)
  BY <1>1, CommitRefines
<1>2. ASSUME NEW r \in Req, Step(r), ~Commit(r) PROVE rec' = rec
  BY <1>2 DEF Step, InitiateFastPath, CreateHandoff, CreateTicket,
     AssignHandoff, ReadHandoff, UpdateStatus, RereadHandoff, LinkSession,
     ApplyEphemeral, EndRead, EndGet, EndUpdate, EndDelete, TurnSpeaks, TurnListens,
     ActivateRead, ActivateUpdate, ActivatePhase, HandoffExists, Finish, handoffRow
<1>3. ASSUME NEW r \in Req, Swallow(r) \/ Abort(r) PROVE rec' = rec
  BY <1>3 DEF Swallow, Abort, handoffRow
<1>4. CASE LoseEphemeral \/ UNCHANGED vars
  BY <1>4 DEF LoseEphemeral, vars, handoffRow, owner, L!lvars
<1> QED
  BY <1>1, <1>2, <1>3, <1>4 DEF Next, Terminating, owner, L!lvars

(* The four handlers, run by any number of requests that interleave, crash  *)
(* and roll back, implement the lifecycle of one handoff.                  *)
THEOREM Refinement == Spec => ImplementsLifecycle
BY InitRefines, NextRefines, Inductive, PTL DEF Spec, ImplementsLifecycle, L!LSpec

-----------------------------------------------------------------------------
(* The audit trail, the tickets and Redis agree with the rows *)

Told == {"created", "accepted", "completed", "cancelled"}

(* What a running request has inserted so far, as far as the row tells it. *)
EventInv(r) ==
  pc[r] \notin {"listen", "done"} =>
    /\ "created" \in events[r] <=> kind[r] \in Initiators /\ recLock = r
    /\ "accepted" \in events[r] <=> kind[r] = "accept" /\ pc[r] \in {"apply", "commit"}
    /\ "completed" \in events[r] <=> kind[r] = "complete" /\ pc[r] \in {"apply", "commit"}
    /\ "cancelled" \in events[r] <=> kind[r] = "cancel" /\ pc[r] \in {"apply", "commit"}

(* A ticket is that of the inserter of the row, unless its request failed. *)
TicketInv(r) ==
  r \in tickets /\ result[r] # "error" =>
    /\ kind[r] \in Initiators
    /\ recLock = r \/ r \in Recorded("created")

(* A handler that has written Redis commits the status that goes with it.  *)
Applied(r) == kind[r] # "end" /\ pc[r] = "commit" /\ sessLock = r

PhaseInv ==
  sess.ended_at = "null" /\ Undisturbed =>
    IF \E r \in Req : Applied(r) THEN phase \in {"absent", PhaseFor(sessNew.status)}
                                 ELSE phase \in {"absent", PhaseFor(sess.status)}

RecordsInv ==
  /\ \A r \in Req : EventInv(r) /\ TicketInv(r)
  /\ AuditTrailAgrees
  /\ PhaseInv

(* What the others inserted, and their tickets, stay as they are.          *)
LEMMA OthersKept ==
  ASSUME RecordsInv, NEW r \in Req, Alone(r), NEW q \in Req, q # r
  PROVE  EventInv(q)' /\ TicketInv(q)'
BY DEF RecordsInv, Alone, EventInv, TicketInv, Recorded

(* Every handler inserts the event of its own change in the transaction of *)
(* the change.                                                             *)
LEMMA EventStep ==
  ASSUME IndInv, RecordsInv, NEW r \in Req, Step(r) \/ Swallow(r) \/ Abort(r)
  PROVE  EventInv(r)'
<1> USE NoReqIsNoReq
    DEF IndInv, RecordsInv, TypeOK, EventInv, LockInv, LabelInv, Initiators, RowOnly,
        Goto, Answer, Record, Finish, HandoffExists, Rephase,
        Release, request, handoffRow, sessionRow, outside
<1>1. CASE InitiateFastPath(r)
  BY <1>1 DEF InitiateFastPath
<1>2. CASE CreateHandoff(r)
  BY <1>2 DEF CreateHandoff
<1>3. CASE CreateTicket(r)
  BY <1>3 DEF CreateTicket
<1>4. CASE AssignHandoff(r)
  BY <1>4 DEF AssignHandoff
<1>5. CASE ReadHandoff(r) \/ RereadHandoff(r)
  BY <1>5 DEF ReadHandoff, RereadHandoff, Closers
<1>6. CASE UpdateStatus(r)
  BY <1>6 DEF UpdateStatus, Closers
<1>7. CASE LinkSession(r)
  BY <1>7 DEF LinkSession, Kinds
<1>8. CASE ApplyEphemeral(r)
  BY <1>8 DEF ApplyEphemeral
<1>9. CASE EndRead(r) \/ EndGet(r) \/ EndUpdate(r) \/ EndDelete(r)
  BY <1>9 DEF EndRead, EndGet, EndUpdate, EndDelete
<1>10. CASE Commit(r) \/ Abort(r)
  BY <1>10 DEF Commit, Abort
<1>11. CASE TurnSpeaks(r) \/ TurnListens(r) \/ Swallow(r)
  BY <1>11 DEF TurnSpeaks, TurnListens, Swallow
<1>12. CASE ActivateRead(r) \/ ActivateUpdate(r) \/ ActivatePhase(r)
  BY <1>12 DEF ActivateRead, ActivateUpdate, ActivatePhase
<1> QED BY <1>11, <1>12, <1>1, <1>2, <1>3, <1>4, <1>5, <1>6, <1>7, <1>8, <1>9, <1>10 DEF Step

(* A request that does not commit a handoff leaves no event that counts.   *)
LEMMA LeavesNoEvent ==
  ASSUME IndInv, RecordsInv, NEW r \in Req, Step(r) \/ Swallow(r) \/ Abort(r),
         pc[r] # "listen", ~(Commit(r) /\ recLock = r)
  PROVE  rec' = rec /\ (pc'[r] \in {"listen", "done"} => events'[r] \cap Told = {})
<1> USE NoReqIsNoReq
    DEF IndInv, RecordsInv, TypeOK, EventInv, LockInv, LabelInv, Initiators, RowOnly,
        Goto, Answer, Record, Finish, HandoffExists, Rephase,
        Told, request, handoffRow, sessionRow, outside
<1>1. CASE InitiateFastPath(r) \/ CreateHandoff(r)
  BY <1>1 DEF InitiateFastPath, CreateHandoff
<1>2. CASE CreateTicket(r) \/ AssignHandoff(r)
  BY <1>2 DEF CreateTicket, AssignHandoff
<1>3. CASE ReadHandoff(r) \/ UpdateStatus(r) \/ RereadHandoff(r)
  BY <1>3 DEF ReadHandoff, UpdateStatus, RereadHandoff
<1>4. CASE LinkSession(r) \/ ApplyEphemeral(r)
  BY <1>4 DEF LinkSession, ApplyEphemeral
<1>5. CASE EndRead(r) \/ EndGet(r) \/ EndUpdate(r) \/ EndDelete(r)
  BY <1>5 DEF EndRead, EndGet, EndUpdate, EndDelete
<1>6. CASE Commit(r) /\ recLock # r
  BY <1>6 DEF Commit
<1>7. CASE Abort(r)
  BY <1>7 DEF Abort
<1>8. CASE TurnSpeaks(r) \/ TurnListens(r) \/ Swallow(r)
  BY <1>8 DEF TurnSpeaks, TurnListens, Swallow
<1>9. CASE ActivateRead(r) \/ ActivateUpdate(r) \/ ActivatePhase(r)
  BY <1>9 DEF ActivateRead, ActivateUpdate, ActivatePhase
<1> QED BY <1>8, <1>9, <1>1, <1>2, <1>3, <1>4, <1>5, <1>6, <1>7 DEF Step

(* The requests that recorded an event are the same after such a step.     *)
LEMMA TrailKept ==
  ASSUME IndInv, RecordsInv, NEW r \in Req, Alone(r),
         rec' = rec, pc[r] # "listen",
         pc'[r] \in {"listen", "done"} => events'[r] \cap Told = {}
  PROVE  AuditTrailAgrees'
<1>1. \A e \in Told : Recorded(e)' = Recorded(e)
  <2> SUFFICES ASSUME NEW e \in Told PROVE Recorded(e)' = Recorded(e)
    OBVIOUS
  <2>1. \A q \in Req \ {r} : q \in Recorded(e)' <=> q \in Recorded(e)
    BY DEF Recorded, Alone
  <2>2. r \notin Recorded(e) /\ r \notin Recorded(e)'
    BY DEF Recorded, Alone
  <2>3. Recorded(e) \subseteq Req /\ Recorded(e)' \subseteq Req
    BY DEF Recorded
  <2> QED BY <2>1, <2>2, <2>3
<1> QED
  BY <1>1 DEF RecordsInv, AuditTrailAgrees, Told

(* A commit adds one request to those that recorded the event, and the row *)
(* did not yet have what the event says.                                   *)
LEMMA CommitTrail ==
  ASSUME IndInv, RecordsInv, NEW r \in Req, Commit(r), recLock = r, Alone(r)
  PROVE  AuditTrailAgrees'
<1>0. /\ pc[r] \in {"commit", "open"} /\ pc'[r] \in {"listen", "done"}
      /\ (kind[r] # "turn" => pc[r] = "commit") /\ kind[r] \notin RowOnly
      /\ events' = events /\ rec' = recNew
      /\ RecInv(r) /\ EventInv(r)
  BY DEF IndInv, TypeOK, RecordsInv, Commit, Goto, outside, LockInv, LabelInv
<1>1. \A e \in Told : Recorded(e)' = IF e \in events[r] THEN Recorded(e) \cup {r} ELSE Recorded(e)
  <2> SUFFICES ASSUME NEW e \in Told
               PROVE  Recorded(e)' = IF e \in events[r] THEN Recorded(e) \cup {r} ELSE Recorded(e)
    OBVIOUS
  <2>1. \A q \in Req \ {r} : q \in Recorded(e)' <=> q \in Recorded(e)
    BY DEF Recorded, Alone
  <2>2. r \notin Recorded(e) /\ (r \in Recorded(e)' <=> e \in events[r])
    BY <1>0 DEF Recorded
  <2>3. Recorded(e) \subseteq Req /\ Recorded(e)' \subseteq Req
    BY DEF Recorded
  <2> QED BY <2>1, <2>2, <2>3
<1>2. CASE kind[r] \in Initiators
  <2>1. /\ rec.status = "none" /\ recNew.status \in Unclaimed
        /\ rec.accepted_at = "null" /\ recNew.accepted_at = "null"
    BY <1>0, <1>2 DEF RecInv, IndInv, CommittedInv, Initiators, Closers
  <2>2. /\ Recorded("created")' = Recorded("created") \cup {r}
        /\ Recorded("accepted")' = Recorded("accepted")
        /\ Recorded("completed")' = Recorded("completed")
        /\ Recorded("cancelled")' = Recorded("cancelled")
    BY <1>0, <1>1, <1>2 DEF EventInv, Told, Initiators
  <2> QED
    BY <1>0, <2>1, <2>2 DEF RecordsInv, AuditTrailAgrees, Unclaimed
<1>3. CASE kind[r] = "accept"
  <2>1. /\ rec.status \in Unclaimed /\ recNew.status = "active"
        /\ rec.accepted_at = "null" /\ recNew.accepted_at = "set"
    BY <1>0, <1>3 DEF RecInv, IndInv, CommittedInv, Initiators, Closers
  <2>2. /\ Recorded("created")' = Recorded("created")
        /\ Recorded("accepted")' = Recorded("accepted") \cup {r}
        /\ Recorded("completed")' = Recorded("completed")
        /\ Recorded("cancelled")' = Recorded("cancelled")
    BY <1>0, <1>1, <1>3 DEF EventInv, Told, Initiators
  <2> QED
    BY <1>0, <2>1, <2>2 DEF RecordsInv, AuditTrailAgrees, Unclaimed
<1>4. CASE kind[r] \in Closers
  <2>1. /\ rec.status \in OpenStatus /\ recNew.status = Target(kind[r])
        /\ recNew.accepted_at = rec.accepted_at
    BY <1>0, <1>4 DEF RecInv, Initiators, Closers
  <2>2. /\ Recorded("created")' = Recorded("created")
        /\ Recorded("accepted")' = Recorded("accepted")
    BY <1>0, <1>1, <1>4 DEF EventInv, Told, Initiators, Closers
  <2>3. CASE kind[r] = "complete"
    <3>1. /\ Recorded("completed")' = Recorded("completed") \cup {r}
          /\ Recorded("cancelled")' = Recorded("cancelled")
      BY <1>0, <1>1, <2>3 DEF EventInv, Told
    <3> QED
      BY <1>0, <2>1, <2>2, <2>3, <3>1 DEF RecordsInv, AuditTrailAgrees, Target, OpenStatus,
        Unclaimed
  <2>4. CASE kind[r] = "cancel"
    <3>1. /\ Recorded("completed")' = Recorded("completed")
          /\ Recorded("cancelled")' = Recorded("cancelled") \cup {r}
      BY <1>0, <1>1, <2>4 DEF EventInv, Told
    <3> QED
      BY <1>0, <2>1, <2>2, <2>4, <3>1 DEF RecordsInv, AuditTrailAgrees, Target, OpenStatus,
        Unclaimed
  <2> QED BY <1>4, <2>3, <2>4 DEF Closers
<1> QED
  BY <1>0, <1>2, <1>3, <1>4 DEF IndInv, TypeOK, Kinds, RowOnly, Initiators, Closers

(* Only the inserter makes a ticket, and it keeps the row until it ends.   *)
LEMMA TicketStep ==
  ASSUME IndInv, RecordsInv, NEW r \in Req, Step(r) \/ Swallow(r) \/ Abort(r)
  PROVE  TicketInv(r)'
<1> USE NoReqIsNoReq
    DEF IndInv, RecordsInv, TypeOK, TicketInv, EventInv, LockInv, LabelInv, Initiators, RowOnly,
        Recorded, Goto, Answer, Record, Finish, HandoffExists, Rephase, Release, request,
        handoffRow, sessionRow, outside
<1>1. CASE InitiateFastPath(r)
  BY <1>1 DEF InitiateFastPath, AnswerInv
<1>2. CASE CreateHandoff(r)
  BY <1>2 DEF CreateHandoff, AnswerInv
<1>3. CASE CreateTicket(r)
  BY <1>3 DEF CreateTicket
<1>4. CASE AssignHandoff(r)
  BY <1>4 DEF AssignHandoff
<1>5. CASE ReadHandoff(r) \/ RereadHandoff(r)
  BY <1>5 DEF ReadHandoff, RereadHandoff, AnswerInv
<1>6. CASE UpdateStatus(r)
  BY <1>6 DEF UpdateStatus
<1>7. CASE LinkSession(r) \/ ApplyEphemeral(r)
  BY <1>7 DEF LinkSession, ApplyEphemeral
<1>8. CASE EndRead(r) \/ EndGet(r) \/ EndUpdate(r) \/ EndDelete(r)
  BY <1>8 DEF EndRead, EndGet, EndUpdate, EndDelete
<1>9. CASE Commit(r)
  BY <1>9 DEF Commit, AnswerInv
<1>10. CASE Abort(r)
  BY <1>10 DEF Abort
<1>11. CASE TurnSpeaks(r) \/ TurnListens(r) \/ Swallow(r)
  BY <1>11 DEF TurnSpeaks, TurnListens, Swallow
<1>12. CASE ActivateRead(r) \/ ActivateUpdate(r) \/ ActivatePhase(r)
  <2>1. kind[r] = "activate" /\ pc[r] \in {"start", "actupd", "actphase"} /\ tickets' = tickets
    BY <1>12 DEF ActivateRead, ActivateUpdate, ActivatePhase
  <2>2. result[r] = "none"
    BY <2>1 DEF AnswerInv
  <2>3. r \notin tickets
    BY <2>1, <2>2
  <2> QED BY <2>1, <2>3
<1> QED BY <1>11, <1>12, <1>1, <1>2, <1>3, <1>4, <1>5, <1>6, <1>7, <1>8, <1>9, <1>10 DEF Step

(* Two tickets would need two inserters of one row.                        *)
LEMMA OneTicket == IndInv /\ RecordsInv => NoSecondTicket
<1> SUFFICES ASSUME IndInv, RecordsInv, NEW r \in Req, NEW s \in Req, r \in tickets,
                    s \in tickets, result[r] # "error", result[s] # "error"
             PROVE  r = s
  BY DEF NoSecondTicket, IndInv, TypeOK
<1>1. /\ kind[r] \in Initiators /\ (recLock = r \/ r \in Recorded("created"))
      /\ kind[s] \in Initiators /\ (recLock = s \/ s \in Recorded("created"))
  BY DEF RecordsInv, TicketInv
<1>2. (recLock = r \/ recLock = s) => rec.status = "none"
  BY <1>1 DEF IndInv, RecInv, Initiators, Closers
<1> QED
  BY <1>1, <1>2 DEF RecordsInv, AuditTrailAgrees

(* What disturbed the phase stays.                                         *)
LEMMA DisturbedStays ==
  ASSUME IndInv, NEW r \in Req, Alone(r), Step(r), Undisturbed'
  PROVE  Undisturbed /\ kind[r] # "turn"
<1>1. \A q \in Req \ {r} : result[q] # "error" /\ (kind[q] = "turn" => pc[q] = "start")
  BY DEF Alone, Undisturbed
<1>2. kind[r] # "turn"
  <2> SUFFICES ASSUME kind[r] = "turn" PROVE FALSE
    OBVIOUS
  <2>1. pc'[r] = "start"
    BY DEF Alone, Undisturbed
  <2> QED
    BY <2>1 DEF Step, TurnSpeaks, InitiateFastPath, CreateHandoff, CreateTicket, AssignHandoff,
       TurnListens, ReadHandoff, UpdateStatus, RereadHandoff, LinkSession, ApplyEphemeral,
       ActivateRead, ActivateUpdate, ActivatePhase, EndRead, EndGet, EndUpdate, EndDelete, Commit,
       HandoffExists, Finish, Goto, IndInv, TypeOK
<1>3. result[r] # "error"
  BY <1>2 DEF IndInv, AnswerInv, LabelInv, Alone
<1> QED BY <1>1, <1>2, <1>3 DEF Undisturbed

LEMMA PhaseStep ==
  ASSUME IndInv, RecordsInv, NEW r \in Req, Step(r), Alone(r)
  PROVE  PhaseInv'
<1> SUFFICES ASSUME sess'.ended_at = "null", Undisturbed'
             PROVE  IF \E q \in Req : Applied(q)'
                      THEN phase' \in {"absent", PhaseFor(sessNew'.status)}
                    ELSE phase' \in {"absent", PhaseFor(sess'.status)}
  BY DEF PhaseInv
<1>1. Undisturbed /\ kind[r] # "turn"
  BY DisturbedStays
<1>2. \A q \in Req \ {r} : Applied(q)' <=> kind[q] # "end" /\ pc[q] = "commit" /\ sessLock' = q
  BY DEF Alone, Applied
<1>3. CASE ApplyEphemeral(r)
  <2>1. phase' = PhaseFor(sessNew'.status)
    BY <1>3 DEF ApplyEphemeral, sessionRow
  <2>2. Applied(r)'
    BY <1>1, <1>3 DEF ApplyEphemeral, IndInv, TypeOK, LabelInv, LockInv, Goto, request,
      sessionRow, RowOnly, Applied
  <2> QED BY <2>1, <2>2
<1>4. CASE Commit(r)
  <2>1. sessLock' # r /\ (sessLock # r => sessLock' = sessLock)
        /\ (sessLock = r => sessLock' = NoReq)
    BY <1>4, NoReqIsNoReq DEF Commit, Release
  <2>2. CASE kind[r] # "end"
    <3>1. Applied(r) /\ sessLock = r
      BY <1>1, <1>4, <2>2 DEF Applied, IndInv, LabelInv, LockInv, Commit
    <3>2. ~\E q \in Req : Applied(q)'
      BY <2>1, <3>1, NoReqIsNoReq DEF Applied
    <3>3. sess' = sessNew /\ phase' = phase
      BY <1>4, <3>1 DEF Commit, outside
    <3>4. sess.ended_at = "null"
      <4>1. \/ sessNew = [sess EXCEPT !.status = "active"]
            \/ sessNew = [sess EXCEPT !.link = recNew.status, !.status = StatusFor(recNew.status)]
        BY <2>2, <3>1 DEF IndInv, SessInv
      <4> QED BY <3>3, <4>1 DEF IndInv, TypeOK
    <3> QED BY <1>1, <3>1, <3>2, <3>3, <3>4 DEF RecordsInv, PhaseInv
  <2>3. CASE kind[r] = "end"
    <3>1. sessLock # r
      <4> SUFFICES ASSUME sessLock = r PROVE FALSE
        OBVIOUS
      <4>1. sess' = [sess EXCEPT !.status = "completed", !.ended_at = "set"]
        BY <1>4, <2>3 DEF Commit, IndInv, SessInv
      <4> QED BY <4>1 DEF IndInv, TypeOK
    <3>2. sess' = sess /\ phase' = phase /\ sessNew' = sessNew /\ sessLock' = sessLock
      BY <1>4, <2>1, <3>1 DEF Commit, outside
    <3>3. \A q \in Req : Applied(q)' <=> Applied(q)
      BY <1>2, <2>3, <3>1, <3>2 DEF Applied, Alone
    <3> QED BY <1>1, <3>2, <3>3 DEF RecordsInv, PhaseInv
  <2> QED BY <2>2, <2>3
<1>5. CASE LinkSession(r) \/ EndUpdate(r) \/ ActivateUpdate(r)
  <2>1. sessLock = NoReq /\ sessLock' = r /\ pc'[r] # "commit" /\ sess' = sess /\ phase' = phase
    BY <1>5 DEF LinkSession, EndUpdate, ActivateUpdate, Goto, IndInv, TypeOK, outside
  <2>2. ~(\E q \in Req : Applied(q)) /\ ~\E q \in Req : Applied(q)'
    BY <2>1, NoReqIsNoReq DEF Applied
  <2> QED BY <1>1, <2>1, <2>2 DEF RecordsInv, PhaseInv
<1>7. CASE ActivatePhase(r)
  <2>1. phase' = "listening" /\ sessLock = r /\ kind[r] = "activate"
    BY <1>7 DEF ActivatePhase, IndInv, LockInv, LabelInv
  <2>2. sessNew.status = "active" /\ sessNew' = sessNew
    <3>1. sessNew = [sess EXCEPT !.status = "active"]
      BY <2>1 DEF IndInv, SessInv
    <3> QED BY <1>7, <3>1 DEF ActivatePhase, sessionRow, IndInv, TypeOK
  <2>3. Applied(r)'
    BY <1>7, <2>1 DEF ActivatePhase, IndInv, TypeOK, Goto, request, sessionRow, Applied
  <2> QED BY <2>1, <2>2, <2>3 DEF PhaseFor
<1>6. CASE ~(ApplyEphemeral(r) \/ Commit(r) \/ LinkSession(r) \/ EndUpdate(r)
             \/ ActivateUpdate(r) \/ ActivatePhase(r))
  <2>1. /\ sess' = sess /\ sessNew' = sessNew /\ sessLock' = sessLock
        /\ phase' \in {"absent", phase}
        /\ pc[r] # "commit" /\ (pc'[r] = "commit" => kind[r] = "end")
    BY <1>1, <1>6 DEF Step, TurnSpeaks, TurnListens, ActivateRead, HandoffExists,
      InitiateFastPath, CreateHandoff, CreateTicket, AssignHandoff, ReadHandoff,
       UpdateStatus, RereadHandoff, EndRead, EndGet, EndDelete, Finish, Goto, IndInv, TypeOK,
       LabelInv, sessionRow, outside
  <2>2. \A q \in Req : Applied(q)' <=> Applied(q)
    BY <1>2, <2>1 DEF Applied, Alone
  <2> QED BY <1>1, <2>1, <2>2 DEF RecordsInv, PhaseInv
<1> QED BY <1>3, <1>4, <1>5, <1>6, <1>7

LEMMA InitRecords == Init => RecordsInv
<1> SUFFICES ASSUME Init PROVE RecordsInv
  OBVIOUS
<1>1. /\ rec.status = "none" /\ rec.accepted_at = "null" /\ recLock = NoReq /\ sessLock = NoReq
      /\ tickets = {} /\ (\A r \in Req : events[r] = {} /\ pc[r] = "start")
      /\ sess.status = "active" /\ phase = "listening"
  BY DEF Init, NoHandoff, Row
<1>2. \A r \in Req : EventInv(r) /\ TicketInv(r)
  BY <1>1, NoReqIsNoReq DEF EventInv, TicketInv
<1>3. AuditTrailAgrees
  <2>1. \A e : Recorded(e) = {}
    BY <1>1 DEF Recorded
  <2> QED BY <1>1, <2>1 DEF AuditTrailAgrees
<1>4. PhaseInv
  BY <1>1 DEF PhaseInv, Undisturbed, Applied, PhaseFor
<1> QED BY <1>2, <1>3, <1>4 DEF RecordsInv

LEMMA NextRecords == IndInv /\ RecordsInv /\ [Next]_vars => RecordsInv'
<1> SUFFICES ASSUME IndInv, RecordsInv, [Next]_vars PROVE RecordsInv'
  OBVIOUS
<1>1. ASSUME NEW r \in Req, Step(r) \/ Swallow(r) \/ Abort(r) PROVE RecordsInv'
  <2>1. Alone(r)
    BY <1>1, StepAlone DEF IndInv
  <2>2. \A q \in Req : EventInv(q)' /\ TicketInv(q)'
    BY <1>1, <2>1, OthersKept, EventStep, TicketStep
  <2>3. AuditTrailAgrees'
    <3>1. CASE Commit(r) /\ recLock = r
      BY <2>1, <3>1, CommitTrail
    <3>2. CASE pc[r] # "listen" /\ ~(Commit(r) /\ recLock = r)
      BY <1>1, <2>1, <3>2, LeavesNoEvent, TrailKept
    <3>3. CASE pc[r] = "listen"
      <4>1. rec' = rec /\ events' = events /\ pc'[r] = "done"
        BY <1>1, <3>3, ListenEnds DEF IndInv
      <4>2. \A e : Recorded(e)' = Recorded(e)
        BY <2>1, <3>3, <4>1 DEF Alone, Recorded
      <4> QED BY <4>1, <4>2 DEF RecordsInv, AuditTrailAgrees
    <3> QED BY <3>1, <3>2, <3>3 DEF Commit
  <2>4. PhaseInv'
    <3>1. CASE Step(r)
      BY <2>1, <3>1, PhaseStep
    <3>2. CASE Swallow(r) \/ Abort(r)
      <4>1. result'[r] = "error"
        BY <3>2 DEF Swallow, Abort, Answer, IndInv, TypeOK
      <4> QED BY <4>1 DEF PhaseInv, Undisturbed
    <3> QED BY <1>1, <3>1, <3>2
  <2> QED BY <2>2, <2>3, <2>4 DEF RecordsInv
<1>2. CASE LoseEphemeral \/ UNCHANGED vars
  <2>1. /\ UNCHANGED <<kind, rec, sess, sessNew, recLock, sessLock, tickets, events, pc, result>>
        /\ phase' \in {"absent", phase}
    BY <1>2 DEF LoseEphemeral, vars, request, handoffRow, sessionRow
  <2>2. \A q \in Req : EventInv(q)' /\ TicketInv(q)'
    BY <2>1 DEF RecordsInv, EventInv, TicketInv, Recorded
  <2>3. AuditTrailAgrees'
    BY <2>1 DEF RecordsInv, AuditTrailAgrees, Recorded
  <2>4. PhaseInv'
    BY <2>1 DEF RecordsInv, PhaseInv, Undisturbed, Applied
  <2> QED BY <2>2, <2>3, <2>4 DEF RecordsInv
<1> QED
  BY <1>1, <1>2 DEF Next, Terminating

LEMMA RecordsInvariant == Spec => []RecordsInv
BY InitRecords, NextRecords, Inductive, PTL DEF Spec

(* For any number of requests: the committed audit trail is that of the    *)
(* row, two initiations that did not fail never both made a ticket, and    *)
(* the phase in Redis is the one of the committed status (record_event,    *)
(* initiate_handoff, apply_handoff_pending and its siblings).             *)
THEOREM StoriesAgree == Spec => []RecordsAgree
<1>1. IndInv /\ RecordsInv => RecordsAgree
  <2> SUFFICES ASSUME IndInv, RecordsInv PROVE RecordsAgree
    OBVIOUS
  <2>1. PhaseFollowsStatus
    BY NoReqIsNoReq DEF RecordsInv, PhaseInv, Applied, PhaseFollowsStatus
  <2> QED BY <2>1, OneTicket DEF RecordsInv, RecordsAgree
<1> QED BY <1>1, Inductive, RecordsInvariant, PTL

-----------------------------------------------------------------------------
(* Waiting *)

(* The request whose commit or rollback the statement of r waits for.       *)
WaitsFor(r) ==
  CASE pc[r] = "create" /\ rec.status = "none" -> recLock
    [] pc[r] = "update" /\ rec.status \in AllowedFrom(kind[r]) -> recLock
    [] pc[r] \in {"link", "actupd", "endupd"} -> sessLock
    [] OTHER -> NoReq

(* Who is waited for goes on, or waits for one that goes on.                *)
WaitsEnd ==
  \A r \in Req : WaitsFor(r) # NoReq =>
    LET q == WaitsFor(r)
    IN  /\ q \in Req \ {r} /\ pc[q] # "done"
        /\ WaitsFor(q) # NoReq =>
             /\ WaitsFor(q) \in Req /\ pc[WaitsFor(q)] # "done"
             /\ WaitsFor(WaitsFor(q)) = NoReq

(* Until every request is answered, one has a statement that waits for      *)
(* nobody.                                                                 *)
SomebodyRuns == Finished \/ \E r \in Req : pc[r] # "done" /\ WaitsFor(r) = NoReq

LEMMA SessionHolderRuns ==
  ASSUME IndInv, NEW q \in Req, sessLock = q PROVE pc[q] # "done" /\ WaitsFor(q) = NoReq
<1>1. pc[q] \in {"apply", "actphase", "delete", "commit", "open"}
  BY DEF IndInv, LockInv
<1> QED BY <1>1 DEF WaitsFor

LEMMA RecordHolderWaits ==
  ASSUME IndInv, NEW q \in Req, recLock = q
  PROVE  pc[q] # "done" /\ (WaitsFor(q) # NoReq => WaitsFor(q) = sessLock)
<1>1. pc[q] \in {"ticket", "assign", "link", "apply", "commit", "open"}
  BY DEF IndInv, LockInv
<1> QED BY <1>1 DEF WaitsFor

LEMMA WaitsAreShort == IndInv => WaitsEnd
<1> SUFFICES ASSUME IndInv, NEW r \in Req, WaitsFor(r) # NoReq
             PROVE  /\ WaitsFor(r) \in Req \ {r} /\ pc[WaitsFor(r)] # "done"
                    /\ WaitsFor(WaitsFor(r)) # NoReq =>
                         /\ WaitsFor(WaitsFor(r)) \in Req /\ pc[WaitsFor(WaitsFor(r))] # "done"
                         /\ WaitsFor(WaitsFor(WaitsFor(r))) = NoReq
  BY DEF WaitsEnd
<1>1. \/ WaitsFor(r) = recLock /\ recLock \in Req /\ pc[r] \in {"create", "update"}
      \/ WaitsFor(r) = sessLock /\ sessLock \in Req /\ pc[r] \in {"link", "actupd", "endupd"}
  BY DEF WaitsFor, IndInv, TypeOK
<1>2. CASE WaitsFor(r) = sessLock /\ sessLock \in Req /\ pc[r] \in {"link", "actupd", "endupd"}
  BY <1>2, SessionHolderRuns
<1>3. CASE WaitsFor(r) = recLock /\ recLock \in Req /\ pc[r] \in {"create", "update"}
  <2>1. recLock # r
    BY <1>3 DEF IndInv, LockInv
  <2>2. ASSUME WaitsFor(recLock) # NoReq
        PROVE  WaitsFor(recLock) = sessLock /\ sessLock \in Req
    BY <1>3, <2>2, RecordHolderWaits DEF IndInv, TypeOK
  <2> QED BY <1>3, <2>1, <2>2, RecordHolderWaits, SessionHolderRuns
<1> QED BY <1>1, <1>2, <1>3

(* Lock order: end_session and activate_session take the session row only, the
   four handlers take the handoff row first (create_handoff and update_status
   before link_session), and a turn that failed and keeps its rows waits for no
   row until its socket commits or closes; so for any number of requests nobody
   waits in a circle, and what a request waits for is at most two commits or
   rollbacks away. *)
THEOREM NoCircularWait == Spec => [](WaitsEnd /\ SomebodyRuns)
<1>1. WaitsEnd => SomebodyRuns
  <2> SUFFICES ASSUME WaitsEnd, NEW r \in Req, pc[r] # "done"
               PROVE  \E q \in Req : pc[q] # "done" /\ WaitsFor(q) = NoReq
    BY DEF SomebodyRuns, Finished
  <2> QED BY DEF WaitsEnd
<1> QED BY <1>1, WaitsAreShort, Inductive, PTL
=============================================================================
