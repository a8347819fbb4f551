------------------------- MODULE HandoffOrchestrator -------------------------
(***************************************************************************)
(* The human handoff of ONE voice session under concurrent requests.       *)
(*                                                                         *)
(* modules/handoff/application/orchestrator.py, api/v1/handoffs.py,        *)
(* infrastructure/db/handoff_repository.py and the calls they make into    *)
(* SessionManager.  An HTTP request runs in a database transaction of its  *)
(* own, which a failure rolls back.  A voice turn shares the transaction   *)
(* of its socket: an exception of its initiate_handoff is caught by the    *)
(* tool router or the listener, and what was written by then stays in the  *)
(* open transaction.  A statement is a step; PostgreSQL READ COMMITTED is  *)
(* modelled by                                                             *)
(*  - a committed version of each row (rec, sess), which SELECTs read;     *)
(*  - a dirty version (recNew, sessNew), written by the holder of the      *)
(*    row lock and published when that transaction commits;                *)
(*  - UPDATE and INSERT ... ON CONFLICT waiting for the row lock, and      *)
(*    evaluating their condition on the version committed by then.         *)
(* Redis is not transactional: what a request wrote there stays when the   *)
(* request rolls back.  Of the phases a turn writes, this module keeps the *)
(* ones around its handoff, speaking before and listening after it.        *)
(***************************************************************************)
CONSTANTS Req,         \* the requests
          Agents,      \* the human agents
          NoReq,       \* nobody holds the lock
          NoAgent      \* assigned_to_user_id of an unaccepted handoff

ASSUME NoReqIsNoReq == NoReq \notin Req
ASSUME NoAgentOutside == NoAgent \notin Agents

VARIABLES
  kind,      \* what each request asks for
  agent,     \* the user who accepts; the other requests name none
  rec,       \* handoff_records row of the session, committed
  recNew,    \* its version inside the transaction that locks it
  sess,      \* voice_sessions row, committed
  sessNew,   \* its version inside the transaction that locks it
  recLock,   \* transaction holding the handoff row
  sessLock,  \* transaction holding the session row
  phase,     \* SessionState.phase in Redis
  tickets,   \* requests that created a ticket in the external system
  events,    \* handoff_events each request inserted and did not roll back
  pc,        \* next statement of each request
  result     \* what each request answered

vars == <<kind, agent, rec, recNew, sess, sessNew, recLock, sessLock, phase,
          tickets, events, pc, result>>

-----------------------------------------------------------------------------
Unclaimed == {"pending", "assigned"}
OpenStatus == Unclaimed \cup {"active"}
TerminalHandoff == {"completed", "cancelled"}
HandoffStatus == {"none"} \cup OpenStatus \cup TerminalHandoff

SessionStatus == {"active", "handoff_pending", "handoff_active", "completed"}
Timestamp == {"null", "set"}
SessionPhase == {"absent", "listening", "speaking", "handoff_pending",
                 "handoff_active"}

(* "initiate" is the HTTP route, "turn" a voice turn that starts a handoff  *)
(* by its tool or by the policy, "activate" an activate_session (a chat of *)
(* the demo, a start or resume of a socket, a LiveKit job).                *)
Kinds == {"initiate", "turn", "accept", "complete", "cancel", "activate", "end"}
Initiators == {"initiate", "turn"}
Closers == {"complete", "cancel"}
EventTypes == {"created", "ticket_created", "summary_generated",
               "replay_linked", "assigned", "accepted", "resumed",
               "completed", "cancelled"}
Labels == {"start", "look", "create", "ticket", "assign", "update", "reread",
           "link", "apply", "open", "listen", "actupd", "actphase", "endget",
           "endupd", "delete", "commit", "done"}
Results == {"none", "ok", "conflict", "not_found", "error"}

(* _ACCEPTABLE_FOR_ACCEPT, _ACCEPTABLE_FOR_COMPLETE, _CANCELABLE           *)
AllowedFrom(k) == IF k = "accept" THEN Unclaimed ELSE OpenStatus

(* The status a request moves the handoff to.                              *)
Target(k) == CASE k = "accept" -> "active"
               [] k = "complete" -> "completed"
               [] OTHER -> "cancelled"

(* The status SessionManager.apply_handoff_* and clear_handoff write, by   *)
(* the handoff status they are called for.                                 *)
StatusFor(h) == CASE h \in Unclaimed -> "handoff_pending"
                  [] h = "active" -> "handoff_active"
                  [] OTHER -> "active"

(* The phase that goes with a session status.                              *)
PhaseFor(s) == CASE s = "handoff_pending" -> "handoff_pending"
                 [] s = "handoff_active" -> "handoff_active"
                 [] s = "active" -> "listening"
                 [] OTHER -> "absent"

(* assigned_to_user_id is the assignee first, the accepting agent later;    *)
(* accepted_at tells the two apart.                                        *)
Row(s, u, t) == [status |-> s, user |-> u, accepted_at |-> t]
NoHandoff == Row("none", NoAgent, "null")

-----------------------------------------------------------------------------
Init ==
  /\ kind \in [Req -> Kinds]
  /\ agent \in [Req -> Agents \cup {NoAgent}]
  /\ \A r \in Req : kind[r] = "accept" <=> agent[r] \in Agents
  /\ rec = NoHandoff
  /\ recNew = NoHandoff
  /\ sess = [link |-> "none", status |-> "active", ended_at |-> "null"]
  /\ sessNew = sess
  /\ recLock = NoReq
  /\ sessLock = NoReq
  /\ phase = "listening"
  /\ tickets = {}
  /\ events = [r \in Req |-> {}]
  /\ pc = [r \in Req |-> "start"]
  /\ result = [r \in Req |-> "none"]

Goto(r, l) == pc' = [pc EXCEPT ![r] = l]
Answer(r, a) == result' = [result EXCEPT ![r] = a]
Record(r, E) == events' = [events EXCEPT ![r] = @ \cup E]

request == <<kind, agent>>
handoffRow == <<rec, recNew, recLock>>
sessionRow == <<sess, sessNew, sessLock>>
outside == <<phase, tickets>>

(* A request that only read: its answer is known and it ends.              *)
Finish(r, a) ==
  /\ Goto(r, "done")
  /\ Answer(r, a)
  /\ UNCHANGED <<request, handoffRow, sessionRow, outside, events>>

(* initiate_handoff returns the handoff that exists: the route answers, a   *)
(* turn goes on.                                                           *)
HandoffExists(r) ==
  IF kind[r] = "turn"
    THEN /\ Goto(r, "open")
         /\ UNCHANGED <<request, handoffRow, sessionRow, outside, events, result>>
    ELSE Finish(r, "ok")

-----------------------------------------------------------------------------
(* initiate_handoff *)

(* update_phase changes the state it finds; without one the turn fails.    *)
Rephase(p) == phase' = IF phase = "absent" THEN "absent" ELSE p

(* A turn speaks before it calls the tool or evaluates the policy.         *)
TurnSpeaks(r) ==
  /\ kind[r] = "turn" /\ pc[r] = "start"
  /\ Rephase("speaking")
  /\ Goto(r, "look")
  /\ UNCHANGED <<request, handoffRow, sessionRow, tickets, events, result>>

InitiateFastPath(r) ==
  /\ (kind[r] = "initiate" /\ pc[r] = "start") \/ pc[r] = "look"
  /\ IF rec.status # "none"
       THEN HandoffExists(r)
       ELSE /\ Goto(r, "create")
            /\ UNCHANGED <<request, handoffRow, sessionRow, outside, events,
                           result>>

(* Mutant: no unique constraint on session_id, so nobody waits and the      *)
(* second inserter goes on as if it were the first.                        *)
BugCreateHandoff(r) ==
  /\ pc[r] = "create"
  /\ recLock' = r
  /\ recNew' = Row("pending", NoAgent, "null")
  /\ Record(r, {"created"})
  /\ Goto(r, "ticket")
  /\ UNCHANGED <<request, rec, sessionRow, outside, result>>

(* INSERT ... ON CONFLICT DO NOTHING: waits for an uncommitted inserter,   *)
(* then either inserts or returns the row that won.                        *)
CreateHandoff(r) ==
  /\ pc[r] = "create"
  /\ \/ /\ rec.status # "none"
        /\ HandoffExists(r)
     \/ /\ rec.status = "none" /\ recLock = NoReq
        /\ recLock' = r
        /\ recNew' = Row("pending", NoAgent, "null")
        /\ Record(r, {"created"})
        /\ Goto(r, "ticket")
        /\ UNCHANGED <<request, rec, sessionRow, outside, result>>

(* policy.auto_create_ticket may be off; the ticketing system is outside   *)
(* the transaction.                                                        *)
CreateTicket(r) ==
  /\ pc[r] = "ticket"
  /\ \/ /\ tickets' = tickets \cup {r}
        /\ Record(r, {"ticket_created"})
     \/ UNCHANGED <<tickets, events>>
  /\ Goto(r, "assign")
  /\ UNCHANGED <<request, handoffRow, sessionRow, phase, result>>

(* Mutant: assigning the handoff to a user activates it.                    *)
BugAssignHandoff(r) ==
  /\ pc[r] = "assign"
  /\ \E u \in Agents : recNew' = Row("active", u, "null")
  /\ Record(r, {"summary_generated", "replay_linked", "assigned"})
  /\ Goto(r, "link")
  /\ UNCHANGED <<request, rec, recLock, sessionRow, outside, result>>

(* Summary, replay link, assignment and snapshot, then the row's status.   *)
(* The assignee is a user, an e-mail address only, or nobody.              *)
AssignHandoff(r) ==
  /\ pc[r] = "assign"
  /\ \/ recNew' = Row("pending", NoAgent, "null")
     \/ \E u \in Agents \cup {NoAgent} : recNew' = Row("assigned", u, "null")
  /\ Record(r, {"summary_generated", "replay_linked", "assigned"})
  /\ Goto(r, "link")
  /\ UNCHANGED <<request, rec, recLock, sessionRow, outside, result>>

-----------------------------------------------------------------------------
(* accept_handoff, complete_handoff, cancel_handoff *)

(* Mutant: an accepted handoff is a duplicate for every agent.              *)
BugClassifyAccept(r, h) ==
  CASE h.status = "none" -> "not_found"
    [] kind[r] = "accept" /\ h.status = "active" -> "ok"
    [] kind[r] # "accept" /\ h.status = Target(kind[r]) -> "ok"
    [] h.status \in TerminalHandoff -> "conflict"
    [] OTHER -> "go"

(* Mutant: any closed handoff is a duplicate for any close.                 *)
BugClassifyClose(r, h) ==
  CASE h.status = "none" -> "not_found"
    [] kind[r] = "accept" /\ h.status = "active" ->
         IF h.user = agent[r] THEN "ok" ELSE "conflict"
    [] kind[r] # "accept" /\ h.status \in TerminalHandoff -> "ok"
    [] h.status \in TerminalHandoff -> "conflict"
    [] OTHER -> "go"

(* What the row says to request r: answer it, or go on to the UPDATE.      *)
Classify(r, h) ==
  CASE h.status = "none" -> "not_found"
    [] kind[r] = "accept" /\ h.status = "active" ->
         IF h.user = agent[r] THEN "ok" ELSE "conflict"
    [] kind[r] # "accept" /\ h.status = Target(kind[r]) -> "ok"
    [] h.status \in TerminalHandoff -> "conflict"
    [] OTHER -> "go"

ReadHandoff(r) ==
  /\ kind[r] \in {"accept"} \cup Closers /\ pc[r] = "start"
  /\ IF Classify(r, rec) = "go"
       THEN /\ Goto(r, "update")
            /\ UNCHANGED <<request, handoffRow, sessionRow, outside, events,
                           result>>
       ELSE Finish(r, Classify(r, rec))

(* The columns the UPDATE of request r sets.                               *)
Updated(r) ==
  IF kind[r] = "accept" THEN Row("active", agent[r], "set")
  ELSE Row(Target(kind[r]), rec.user, rec.accepted_at)

(* UPDATE handoff_records ... WHERE status IN allowed_from: a row whose    *)
(* committed status does not match is skipped; one that matches is waited  *)
(* for and looked at again once its holder committed.                      *)
UpdateStatus(r) ==
  /\ pc[r] = "update"
  /\ rec.status \in AllowedFrom(kind[r]) => recLock = NoReq
  /\ IF rec.status \in AllowedFrom(kind[r])
       THEN /\ recLock' = r
            /\ recNew' = Updated(r)
            /\ Goto(r, "link")
            /\ UNCHANGED <<request, rec, sessionRow, outside, events, result>>
       ELSE /\ Goto(r, "reread")
            /\ UNCHANGED <<request, handoffRow, sessionRow, outside, events,
                           result>>

(* rowcount 0: the row is read again to tell a duplicate from a conflict.  *)
RereadHandoff(r) ==
  /\ pc[r] = "reread"
  /\ Finish(r, IF Classify(r, rec) = "go" THEN "conflict" ELSE Classify(r, rec))

-----------------------------------------------------------------------------
(* The common tail of the four handlers *)

(* Mutant: the handler updates the session's status and forgets            *)
(* link_session.                                                           *)
BugLinkSession(r) ==
  /\ pc[r] = "link"
  /\ sessLock = NoReq
  /\ sessLock' = r
  /\ sessNew' = [sess EXCEPT !.status = StatusFor(recNew.status)]
  /\ Record(r, {})
  /\ Goto(r, "apply")
  /\ UNCHANGED <<request, handoffRow, sess, outside, result>>

(* link_session and SessionRepository.update_status: both write the        *)
(* session row, the first one waits for its lock.                          *)
LinkSession(r) ==
  /\ pc[r] = "link"
  /\ sessLock = NoReq
  /\ sessLock' = r
  /\ sessNew' = [sess EXCEPT !.link = recNew.status,
                             !.status = StatusFor(recNew.status)]
  /\ Record(r, CASE kind[r] = "accept" -> {"accepted"}
                 [] kind[r] = "complete" -> {"completed"}
                 [] kind[r] = "cancel" -> {"cancelled"}
                 [] OTHER -> {})
  /\ Goto(r, "apply")
  /\ UNCHANGED <<request, handoffRow, sess, outside, result>>

(* The ephemeral state of apply_handoff_pending, apply_handoff_active or   *)
(* clear_handoff, rebuilt when Redis had lost it.                          *)
ApplyEphemeral(r) ==
  /\ pc[r] = "apply"
  /\ phase' = PhaseFor(sessNew.status)
  /\ Record(r, IF kind[r] = "accept" THEN {"resumed"} ELSE {})
  /\ Goto(r, IF kind[r] = "turn" THEN "open" ELSE "commit")
  /\ UNCHANGED <<request, handoffRow, sessionRow, tickets, result>>

(* After a turn the pipeline listens again, whatever the status is by now;  *)
(* not if the turn had failed and another message's commit saved its rows. *)
TurnListens(r) ==
  /\ pc[r] = "listen"
  /\ Rephase("listening") \/ UNCHANGED phase
  /\ Goto(r, "done")
  /\ UNCHANGED <<request, handoffRow, sessionRow, tickets, events, result>>

-----------------------------------------------------------------------------
(* activate_session *)

(* An active session is left alone, an ended one refused.                  *)
ActivateRead(r) ==
  /\ kind[r] = "activate" /\ pc[r] = "start"
  /\ CASE sess.status = "active" -> Finish(r, "ok")
       [] sess.status = "completed" -> Finish(r, "conflict")
       [] OTHER -> /\ Goto(r, "actupd")
                   /\ UNCHANGED <<request, handoffRow, sessionRow, outside,
                                  events, result>>

(* Nothing looks at the handoff, or again at the status.                   *)
ActivateUpdate(r) ==
  /\ pc[r] = "actupd"
  /\ sessLock = NoReq
  /\ sessLock' = r
  /\ sessNew' = [sess EXCEPT !.status = "active"]
  /\ Goto(r, "actphase")
  /\ UNCHANGED <<request, handoffRow, sess, outside, events, result>>

(* _ensure_ephemeral_state and update_phase(LISTENING).                    *)
ActivatePhase(r) ==
  /\ pc[r] = "actphase"
  /\ phase' = "listening"
  /\ Goto(r, "commit")
  /\ UNCHANGED <<request, handoffRow, sessionRow, tickets, events, result>>

-----------------------------------------------------------------------------
(* end_session *)

EndRead(r) ==
  /\ kind[r] = "end" /\ pc[r] = "start"
  /\ Goto(r, IF sess.status = "completed" THEN "delete" ELSE "endget")
  /\ UNCHANGED <<request, handoffRow, sessionRow, outside, events, result>>

EndGet(r) ==
  /\ pc[r] = "endget"
  /\ Goto(r, IF sess.status = "completed" THEN "delete" ELSE "endupd")
  /\ UNCHANGED <<request, handoffRow, sessionRow, outside, events, result>>

(* Mutant: the end closes the handoff too, and takes its row after the      *)
(* session's.                                                              *)
BugEndUpdate(r) ==
  /\ pc[r] = "endupd"
  /\ \/ /\ sessLock = NoReq
        /\ sessLock' = r
        /\ sessNew' = [sess EXCEPT !.status = "completed", !.ended_at = "set"]
        /\ UNCHANGED <<recLock, pc>>
     \/ /\ sessLock = r /\ recLock = NoReq
        /\ recLock' = r
        /\ Goto(r, "delete")
        /\ UNCHANGED <<sessLock, sessNew>>
  /\ UNCHANGED <<request, rec, recNew, sess, outside, events, result>>

EndUpdate(r) ==
  /\ pc[r] = "endupd"
  /\ sessLock = NoReq
  /\ sessLock' = r
  /\ sessNew' = [sess EXCEPT !.status = "completed", !.ended_at = "set"]
  /\ Goto(r, "delete")
  /\ UNCHANGED <<request, handoffRow, sess, outside, events, result>>

(* _best_effort_delete_redis: an error is logged and swallowed.            *)
EndDelete(r) ==
  /\ pc[r] = "delete"
  /\ phase' \in {"absent", phase}
  /\ Goto(r, "commit")
  /\ UNCHANGED <<request, handoffRow, sessionRow, tickets, events, result>>

-----------------------------------------------------------------------------
Release(r, lock) == IF lock = r THEN NoReq ELSE lock

(* The commit of the request, or of the turn; a turn that failed is saved   *)
(* by the next commit of its socket (a later turn, a start or an end).     *)
Commit(r) ==
  /\ pc[r] \in {"commit", "open"}
  /\ rec' = IF recLock = r THEN recNew ELSE rec
  /\ sess' = IF sessLock = r THEN sessNew ELSE sess
  /\ recLock' = Release(r, recLock)
  /\ sessLock' = Release(r, sessLock)
  /\ Goto(r, IF kind[r] = "turn" THEN "listen" ELSE "done")
  /\ Answer(r, IF result[r] = "error" THEN "error" ELSE "ok")
  /\ UNCHANGED <<request, recNew, sessNew, outside, events>>

(* An exception of the ticketing, the summarizer or Redis inside a turn:    *)
(* caught by the router (or the listener), without a rollback.             *)
Swallow(r) ==
  /\ kind[r] = "turn" /\ pc[r] \in {"ticket", "assign", "apply"}
  /\ Goto(r, "open")
  /\ Answer(r, "error")
  /\ UNCHANGED <<request, handoffRow, sessionRow, outside, events>>

(* An exception of an HTTP request, a failed or cancelled statement, a      *)
(* socket that closes or a process that dies before COMMIT: the database   *)
(* session closes without a commit.                                        *)
Abort(r) ==
  /\ pc[r] \notin {"listen", "done"}
  /\ recNew' = IF recLock = r THEN rec ELSE recNew
  /\ sessNew' = IF sessLock = r THEN sess ELSE sessNew
  /\ recLock' = Release(r, recLock)
  /\ sessLock' = Release(r, sessLock)
  /\ events' = [events EXCEPT ![r] = {}]
  /\ Goto(r, "done")
  /\ Answer(r, "error")
  /\ UNCHANGED <<request, rec, sess, outside>>

(* Redis evicts the state: TTL expiry, flush or restart.                   *)
LoseEphemeral ==
  /\ phase # "absent"
  /\ phase' = "absent"
  /\ UNCHANGED <<request, handoffRow, sessionRow, tickets, events, pc, result>>

Step(r) ==
  \/ TurnSpeaks(r) \/ InitiateFastPath(r) \/ CreateHandoff(r) \/ CreateTicket(r)
  \/ AssignHandoff(r) \/ TurnListens(r)
  \/ ReadHandoff(r) \/ UpdateStatus(r) \/ RereadHandoff(r)
  \/ LinkSession(r) \/ ApplyEphemeral(r)
  \/ ActivateRead(r) \/ ActivateUpdate(r) \/ ActivatePhase(r)
  \/ EndRead(r) \/ EndGet(r) \/ EndUpdate(r) \/ EndDelete(r)
  \/ Commit(r)

Finished == \A r \in Req : pc[r] = "done"

(* Every request has been answered: the end of the behaviour, no deadlock.  *)
Terminating == Finished /\ UNCHANGED vars

Next ==
  \/ \E r \in Req : Step(r) \/ Swallow(r) \/ Abort(r)
  \/ LoseEphemeral
  \/ Terminating

Spec == Init /\ [][Next]_vars

(* Every request is a task of its own that the event loop and the database *)
(* keep serving; no request is forced to fail.                             *)
FairSpec == Spec /\ \A r \in Req : WF_vars(Step(r))

-----------------------------------------------------------------------------
(* Properties *)

TypeOK ==
  /\ kind \in [Req -> Kinds]
  /\ agent \in [Req -> Agents \cup {NoAgent}]
  /\ \A r \in Req : kind[r] = "accept" => agent[r] \in Agents
  /\ rec \in [status : HandoffStatus, user : Agents \cup {NoAgent},
            accepted_at : Timestamp]
  /\ recNew \in [status : HandoffStatus, user : Agents \cup {NoAgent},
               accepted_at : Timestamp]
  /\ sess \in [link : HandoffStatus, status : SessionStatus, ended_at : Timestamp]
  /\ sessNew \in [link : HandoffStatus, status : SessionStatus,
                   ended_at : Timestamp]
  /\ recLock \in Req \cup {NoReq}
  /\ sessLock \in Req \cup {NoReq}
  /\ phase \in SessionPhase
  /\ tickets \in SUBSET Req
  /\ events \in [Req -> SUBSET EventTypes]
  /\ pc \in [Req -> Labels]
  /\ result \in [Req -> Results]

(* A turn whose initiate_handoff failed half-way and was committed anyway.  *)
HalfInitiated ==
  \E r \in Req : kind[r] = "turn" /\ result[r] = "error" /\ "created" \in events[r]
                /\ pc[r] \in {"listen", "done"}

(* An activate_session that was answered.                                  *)
Reactivated == \E r \in Req : kind[r] = "activate" /\ result[r] = "ok"

(* voice_sessions.handoff_status, a copy that another statement of the same *)
(* transaction writes, equals the status of the handoff record, except     *)
(* between a turn whose initiate_handoff failed half-way and the first     *)
(* accept, complete or cancel, which repairs it; and until the session is  *)
(* ended its own status is the one of that copy, unless activate_session   *)
(* made it active under the handoff: whatever handlers race, crash or roll *)
(* back.                                                                   *)
SessionFollowsHandoff ==
  /\ \/ sess.link = rec.status
     \/ sess.link = "none" /\ rec.status \in Unclaimed /\ HalfInitiated
  /\ sess.ended_at = "null" =>
       \/ sess.status = StatusFor(sess.link)
       \/ sess.status = "active" /\ Reactivated

(* accept_handoff: of any number of agents racing for a handoff, all that   *)
(* got a 200 are the same agent, and it is the one the record names, even  *)
(* after the handoff was completed.                                        *)
OneAgentWins ==
  \A r \in Req :
    kind[r] = "accept" /\ result[r] = "ok" =>
      rec.user = agent[r] /\ rec.accepted_at = "set"

(* complete_handoff and cancel_handoff: a caller that was told its close    *)
(* succeeded is never contradicted, so no complete and cancel both succeed.*)
CloseIsFinal ==
  \A r \in Req :
    kind[r] \in Closers /\ result[r] = "ok" => rec.status = Target(kind[r])

(* The requests whose transaction inserted event e and committed.           *)
Recorded(e) == {r \in Req : pc[r] \in {"listen", "done"} /\ e \in events[r]}

(* record_event: the committed audit trail and the record tell the same     *)
(* story: an accepted event exactly when an agent accepted the handoff, a  *)
(* completed (cancelled) event exactly when it is completed (cancelled),   *)
(* and none of them twice.                                                 *)
AuditTrailAgrees ==
  /\ (Recorded("created") # {}) <=> (rec.status # "none")
  /\ (Recorded("accepted") # {}) <=> (rec.accepted_at = "set")
  /\ (Recorded("completed") # {}) <=> (rec.status = "completed")
  /\ (Recorded("cancelled") # {}) <=> (rec.status = "cancelled")
  /\ \A e \in {"created", "accepted", "completed", "cancelled"} :
       \A r, s \in Recorded(e) : r = s

(* initiate_handoff: two initiations that did not fail never both created a *)
(* ticket in the external system (a rolled back one leaves its ticket).    *)
NoSecondTicket ==
  \A r, s \in tickets : result[r] # "error" /\ result[s] # "error" => r = s

(* No request failed, and no turn, whose phases need no row, has begun.     *)
Undisturbed ==
  \A r \in Req : result[r] # "error" /\ (kind[r] = "turn" => pc[r] = "start")

(* apply_handoff_*, clear_handoff, activate_session and end_session write   *)
(* Redis while they hold the session row, so without a failed request or a *)
(* turn the phase in Redis is the one of the committed status (or lost),   *)
(* however they interleave.                                                *)
PhaseFollowsStatus ==
  sessLock = NoReq /\ sess.ended_at = "null" /\ Undisturbed
    => phase \in {"absent", PhaseFor(sess.status)}

(* The audit trail, the tickets and Redis tell the same story as the rows,  *)
(* whatever handlers overlap or fail.                                      *)
RecordsAgree == AuditTrailAgrees /\ NoSecondTicket /\ PhaseFollowsStatus

(* end_session is authoritative: a session that was completed is never      *)
(* active again.                                                           *)
EndIsAuthoritative ==
  [][sess.status = "completed" => sess'.status = "completed"]_vars

(* The handlers take the handoff row before the session row, and a turn     *)
(* that failed and keeps them waits for no row: some unanswered request can *)
(* always go on, so no handlers wait for each other (those that wait for a *)
(* failed turn wait until its socket commits or closes).                   *)
NoWaitCycle == Finished \/ \E r \in Req : ENABLED Step(r)

(* The agent that accepted the handoff.                                    *)
owner == IF rec.accepted_at = "set" THEN rec.user ELSE NoAgent

(* The handlers together implement the lifecycle of one handoff.            *)
L == INSTANCE HandoffLifecycle WITH status <- rec.status

ImplementsLifecycle == L!LSpec
=============================================================================
