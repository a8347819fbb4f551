---------------------------- MODULE SessionManager ----------------------------
(***************************************************************************)
(* The life of ONE voice session: its row in PostgreSQL and its ephemeral  *)
(* state in Redis, under concurrent requests.                              *)
(*                                                                         *)
(* modules/session_manager/application/service.py, SessionRepository of    *)
(* infrastructure/db/repositories.py and infrastructure/redis/             *)
(* session_state.py.  Every SQL statement and every Redis command is a     *)
(* step.  PostgreSQL is modelled as in HandoffOrchestrator: a committed    *)
(* row, the dirty row of the transaction that locks it, and SELECTs that   *)
(* do not wait.  Every change of the Redis state is a GET followed by a    *)
(* SET of a modified copy, and Redis may fail or lose the key at any time. *)
(* The heartbeat key, the interrupt flag and config, which nothing here    *)
(* branches on, are left out; their read-modify-write cycles are not.      *)
(***************************************************************************)
EXTENDS Naturals

CONSTANTS Req,         \* the requests that may be in flight at once
          NoReq,       \* nobody holds the row lock
          KindsUsed,   \* the operations requests ask for
          Faults,      \* what may go wrong
          LastSeq,     \* last_sequence a resuming client may send
          MaxSeq       \* bound: SessionState.sequence stops counting here

HandoffKinds == {"hpending", "hactive", "hclear"}
PhaseKinds == {"speak", "listen", "interrupt"}
(* What a turn of a voice socket asks for, in the transaction of its socket.*)
TurnKinds == {"hpending", "track"} \cup PhaseKinds
Kinds == {"create", "activate", "resume", "end", "track", "heartbeat"}
           \cup PhaseKinds \cup HandoffKinds

Terminal == {"completed", "failed"}
Live == {"created", "active", "handoff_pending", "handoff_active"}
SessionStatus == {"none"} \cup Live \cup Terminal
SessionPhase == {"idle", "listening", "processing", "handoff_pending",
                 "handoff_active"}
Timestamp == {"null", "set"}
Ttl == {"session", "handoff"}
Labels == {"idle", "update", "write", "eget", "set", "hbget", "hbset",
           "pget", "pset", "rget", "rstate", "lget", "lread", "modify",
           "endget", "endupd", "del", "raise", "commit"}

ASSUME NoReqIsNoReq == NoReq \notin Req
ASSUME KindsAssumption == KindsUsed \subseteq Kinds
ASSUME FaultsAssumption == Faults \subseteq {"redis", "crash", "loss"}
ASSUME SeqAssumption == LastSeq \in Nat /\ MaxSeq \in Nat

VARIABLES
  kind,     \* what each request asks for, "none" before it comes in
  row,      \* voice_sessions row, committed
  rowNew,   \* its version inside the transaction that locks it
  rowLock,  \* transaction holding the row
  redis,    \* session:{id}:state
  pc,       \* next statement of each request
  seen,     \* status of the VoiceSession a request holds
  loc,      \* SessionState a request holds
  hb,       \* copy record_heartbeat works on
  cont      \* where a request goes on after _write_ephemeral_state

vars == <<kind, row, rowNew, rowLock, redis, pc, seen, loc, hb, cont>>

database == <<row, rowNew, rowLock>>
locals == <<seen, loc, hb, cont>>

-----------------------------------------------------------------------------
PhaseForStatus(s) == CASE s = "handoff_pending" -> "handoff_pending"
                       [] s = "handoff_active" -> "handoff_active"
                       [] s = "active" -> "listening"
                       [] OTHER -> "idle"

TtlForStatus(s) ==
  IF s \in {"handoff_pending", "handoff_active"} THEN "handoff" ELSE "session"

(* The status a handoff operation, or activate_session, writes.            *)
Target(k) == CASE k = "hpending" -> "handoff_pending"
               [] k = "hactive" -> "handoff_active"
               [] OTHER -> "active"

Absent == [phase |-> "absent", seq |-> 0, ttl |-> "session"]
State(p, n) == [phase |-> p, seq |-> n]
Stored(s, t) == [phase |-> s.phase, seq |-> s.seq, ttl |-> t]
Copy == State(redis.phase, redis.seq)
Present == redis.phase # "absent"

(* What a transaction sees of the row.                                     *)
Visible(r) == IF rowLock = r THEN rowNew ELSE row

(* The sequence after one more change.                                     *)
Bump(n) == IF n < MaxSeq THEN n + 1 ELSE n

Fresh == State("idle", 0)

Init ==
  /\ kind = [r \in Req |-> "none"]
  /\ row = [status |-> "none", ended_at |-> "null"]
  /\ rowNew = row
  /\ rowLock = NoReq
  /\ redis = Absent
  /\ pc = [r \in Req |-> "idle"]
  /\ seen = [r \in Req |-> "none"]
  /\ loc = [r \in Req |-> Fresh]
  /\ hb = [r \in Req |-> Fresh]
  /\ cont = [r \in Req |-> "commit"]

-----------------------------------------------------------------------------
Goto(r, l) == pc' = [pc EXCEPT ![r] = l]
See(r, s) == seen' = [seen EXCEPT ![r] = s]
Hold(r, s) == loc' = [loc EXCEPT ![r] = s]
Then(r, l) == cont' = [cont EXCEPT ![r] = l]

(* The request comes in: its first statement.                              *)
Enter(r, k) ==
  /\ pc[r] = "idle"
  /\ k \in KindsUsed
  /\ kind' = [kind EXCEPT ![r] = k]

(* The request is answered and forgotten.                                  *)
Forget(r) ==
  /\ Goto(r, "idle")
  /\ kind' = [kind EXCEPT ![r] = "none"]
  /\ See(r, "none")
  /\ Hold(r, Fresh)
  /\ hb' = [hb EXCEPT ![r] = Fresh]
  /\ Then(r, "commit")

(* An exception leaves the handler: the transaction is rolled back.  In a  *)
(* voice turn this is so only if the socket goes with it; see Swallow.     *)
Rollback(r) ==
  /\ rowNew' = IF rowLock = r THEN row ELSE rowNew
  /\ rowLock' = IF rowLock = r THEN NoReq ELSE rowLock
  /\ Forget(r)
  /\ UNCHANGED <<row, redis>>

Move(r, l) ==
  /\ Goto(r, l)
  /\ UNCHANGED <<kind, database, redis, locals>>

(* The id of the session is known once its creation is committed.          *)
Exists == row.status # "none"

-----------------------------------------------------------------------------
(* create_session *)

(* INSERT, then _write_ephemeral_state.                                    *)
CreateSession(r) ==
  /\ Enter(r, "create")
  /\ ~Exists /\ ~Present /\ rowLock = NoReq
  /\ rowLock' = r
  /\ rowNew' = [status |-> "created", ended_at |-> "null"]
  /\ See(r, "created")
  /\ Hold(r, State("idle", 0))
  /\ Then(r, "commit")
  /\ Goto(r, "set")
  /\ UNCHANGED <<row, redis, hb>>

(* The except branch: end_session(FAILED) in the same transaction, raise.  *)
CompensateCreate(r) ==
  /\ kind[r] = "create" /\ pc[r] \in {"set", "hbget", "hbset"}
  /\ "redis" \in Faults \/ (pc[r] = "hbget" /\ ~Present)
  /\ rowNew' = [status |-> "failed", ended_at |-> "set"]
  /\ Goto(r, "raise")
  /\ UNCHANGED <<kind, row, rowLock, redis, locals>>

(* SessionStateError reaches the API or the websocket, which do not commit.*)
RaiseCreate(r) ==
  /\ pc[r] = "raise"
  /\ Rollback(r)

-----------------------------------------------------------------------------
(* activate_session *)

(* Mutant: the check for a terminal status is missing.                     *)
BugActivateRead(r) ==
  /\ Enter(r, "activate") /\ Exists
  /\ row.status # "active"
  /\ See(r, row.status)
  /\ Goto(r, "update")
  /\ UNCHANGED <<database, redis, loc, hb, cont>>

(* An active session is returned as it is and a terminal one is refused,   *)
(* at once: only the others go on.                                         *)
ActivateRead(r) ==
  /\ Enter(r, "activate") /\ Exists
  /\ row.status \notin {"active"} \cup Terminal
  /\ See(r, row.status)
  /\ Goto(r, "update")
  /\ UNCHANGED <<database, redis, loc, hb, cont>>

(* update_status reads the row again; an equal status emits no UPDATE.     *)
ActivateGet(r) ==
  /\ kind[r] = "activate" /\ pc[r] = "update"
  /\ Goto(r, IF row.status = "active" THEN "eget" ELSE "write")
  /\ Then(r, "pget")
  /\ UNCHANGED <<kind, database, redis, seen, loc, hb>>

ActivateUpdate(r) ==
  /\ pc[r] = "write"
  /\ rowLock = NoReq
  /\ rowLock' = r
  /\ rowNew' = [row EXCEPT !.status = "active"]
  /\ Goto(r, "eget")
  /\ UNCHANGED <<kind, row, redis, locals>>

-----------------------------------------------------------------------------
(* _ensure_ephemeral_state, _write_ephemeral_state, record_heartbeat *)

(* The status of the VoiceSession that _ensure_ephemeral_state was given.   *)
Given(r) == IF kind[r] = "activate" THEN "active" ELSE seen[r]

(* Mutant: the state of a terminal session is rebuilt too.                  *)
BugEnsureGet(r) ==
  /\ pc[r] = "eget"
  /\ IF Present
       THEN /\ Hold(r, Copy)
            /\ Goto(r, cont[r])
            /\ UNCHANGED <<kind, database, redis, seen, hb, cont>>
       ELSE /\ Hold(r, State(PhaseForStatus(Given(r)), 0))
            /\ See(r, Given(r))
            /\ Goto(r, "set")
            /\ UNCHANGED <<kind, database, redis, hb, cont>>

EnsureGet(r) ==
  /\ pc[r] = "eget"
  /\ CASE Present -> /\ Hold(r, Copy)
                     /\ Goto(r, cont[r])
                     /\ UNCHANGED <<kind, database, redis, seen, hb, cont>>
       [] ~Present /\ Given(r) \in Terminal -> Rollback(r)
       [] OTHER -> /\ Hold(r, State(PhaseForStatus(Given(r)), 0))
                   /\ See(r, Given(r))
                   /\ Goto(r, "set")
                   /\ UNCHANGED <<kind, database, redis, hb, cont>>

(* save_state(ttl for the status).                                         *)
SaveState(r) ==
  /\ pc[r] = "set"
  /\ redis' = Stored(loc[r], TtlForStatus(seen[r]))
  /\ Goto(r, "hbget")
  /\ UNCHANGED <<kind, database, locals>>

(* record_heartbeat; a missing key raises, which create compensates.       *)
HeartbeatGet(r) ==
  /\ \/ pc[r] = "hbget" /\ UNCHANGED kind
     \/ Enter(r, "heartbeat") /\ Exists
  /\ Present
  /\ hb' = [hb EXCEPT ![r] = Copy]
  /\ Goto(r, "hbset")
  /\ UNCHANGED <<database, redis, seen, loc, cont>>

(* save_state without a ttl: the store's default.                          *)
HeartbeatSet(r) ==
  /\ pc[r] = "hbset"
  /\ redis' = Stored(hb[r], "session")
  /\ hb' = [hb EXCEPT ![r] = Fresh]
  /\ Goto(r, cont[r])
  /\ Then(r, "commit")
  /\ UNCHANGED <<kind, database, seen, loc>>

-----------------------------------------------------------------------------
(* update_phase, set_interrupt, clear_interrupt *)

NewPhase(r) ==
  CASE kind[r] \in {"activate", "listen"} -> "listening"
    [] kind[r] = "speak" -> "processing"
    [] OTHER -> loc[r].phase

PhaseGet(r) ==
  /\ \/ pc[r] = "pget" /\ UNCHANGED kind
     \/ Exists /\ \E k \in PhaseKinds : Enter(r, k)
  /\ Present
  /\ Hold(r, Copy)
  /\ Goto(r, "pset")
  /\ UNCHANGED <<database, redis, seen, hb, cont>>

PhaseSet(r) ==
  /\ pc[r] = "pset"
  /\ redis' = Stored(State(NewPhase(r), Bump(loc[r].seq)), "session")
  /\ Goto(r, "commit")
  /\ UNCHANGED <<kind, database, locals>>

-----------------------------------------------------------------------------
(* resume_session *)

ResumeRead(r) ==
  /\ Enter(r, "resume") /\ Exists
  /\ row.status \notin Terminal
  /\ See(r, row.status)
  /\ Then(r, "rstate")
  /\ Goto(r, "rget")
  /\ UNCHANGED <<database, redis, loc, hb>>

ResumeGet(r) ==
  /\ pc[r] = "rget"
  /\ Move(r, IF Present THEN "rstate" ELSE "eget")

(* Mutant: the sequence the client sends always wins.                      *)
BugResumeState(r) ==
  /\ pc[r] = "rstate"
  /\ Present
  /\ \E n \in {0, LastSeq} : Hold(r, State(redis.phase, n))
  /\ Then(r, "hbget")
  /\ Goto(r, "set")
  /\ UNCHANGED <<kind, database, redis, seen, hb>>

(* get_state, raise the sequence to the client's, then the heartbeat.      *)
ResumeState(r) ==
  /\ pc[r] = "rstate"
  /\ Present
  /\ \E n \in {0, LastSeq} :
       IF redis.seq < n
         THEN /\ Hold(r, State(redis.phase, n))
              /\ Then(r, "hbget")
              /\ Goto(r, "set")
         ELSE /\ Then(r, "commit")
              /\ Goto(r, "hbget")
              /\ UNCHANGED loc
  /\ UNCHANGED <<kind, database, redis, seen, hb>>

-----------------------------------------------------------------------------
(* apply_handoff_pending, apply_handoff_active, clear_handoff,             *)
(* track_tool_failures                                                     *)

(* link_session of the handler, then update_status: neither looks at the   *)
(* status the row had.                                                     *)
HandoffUpdate(r) ==
  /\ \E k \in HandoffKinds :
       /\ Enter(r, k)
       /\ rowNew' = [row EXCEPT !.status = Target(k)]
  /\ Exists /\ rowLock = NoReq
  /\ rowLock' = r
  /\ Goto(r, "lget")
  /\ UNCHANGED <<row, redis, locals>>

(* _load_or_reconcile_state.                                               *)
LoadState(r) ==
  /\ \/ pc[r] = "lget" /\ UNCHANGED kind
     \/ Enter(r, "track") /\ Exists
  /\ IF Present
       THEN Hold(r, Copy) /\ Goto(r, "modify")
       ELSE Goto(r, "lread") /\ UNCHANGED loc
  /\ UNCHANGED <<database, redis, seen, hb, cont>>

LoadRead(r) ==
  /\ pc[r] = "lread"
  /\ See(r, Visible(r).status)
  /\ Then(r, "modify")
  /\ Goto(r, "eget")
  /\ UNCHANGED <<kind, database, redis, loc, hb>>

(* The new phase of a handoff operation, or the failure counter; the       *)
(* latter reads the status again for the ttl.                              *)
ModifyState(r) ==
  /\ pc[r] = "modify"
  /\ IF kind[r] = "track"
       THEN See(r, row.status) /\ UNCHANGED loc
       ELSE /\ See(r, Target(kind[r]))
            /\ Hold(r, State(PhaseForStatus(Target(kind[r])), loc[r].seq))
  /\ Then(r, "commit")
  /\ Goto(r, "set")
  /\ UNCHANGED <<kind, database, redis, hb>>

-----------------------------------------------------------------------------
(* end_session *)

EndRead(r) ==
  /\ Enter(r, "end") /\ Exists
  /\ Goto(r, IF row.status \in Terminal THEN "del" ELSE "endget")
  /\ UNCHANGED <<database, redis, locals>>

EndGet(r) ==
  /\ pc[r] = "endget"
  /\ Move(r, IF row.status \in Terminal THEN "del" ELSE "endupd")

EndUpdate(r) ==
  /\ pc[r] = "endupd"
  /\ rowLock = NoReq
  /\ rowLock' = r
  /\ rowNew' = [status |-> "completed", ended_at |-> "set"]
  /\ Goto(r, "del")
  /\ UNCHANGED <<kind, row, redis, locals>>

(* _best_effort_delete_redis: a failure is logged and swallowed.           *)
EndDelete(r) ==
  /\ pc[r] = "del"
  /\ \/ redis' = Absent
     \/ "redis" \in Faults /\ UNCHANGED redis
  /\ Goto(r, "commit")
  /\ UNCHANGED <<kind, database, locals>>

-----------------------------------------------------------------------------
Commit(r) ==
  /\ pc[r] = "commit"
  /\ row' = Visible(r)
  /\ rowLock' = IF rowLock = r THEN NoReq ELSE rowLock
  /\ Forget(r)
  /\ UNCHANGED <<rowNew, redis>>


(* get_state raises SessionNotFoundError: the key is gone.                 *)
KeyMissing(r) ==
  /\ pc[r] \in {"hbget", "pget", "rstate"} /\ kind[r] # "create"
  /\ ~Present
  /\ Rollback(r)

(* Redis raises on a command of any operation but create and end.          *)
RedisLabels == {"eget", "set", "hbget", "hbset", "pget", "pset", "rget",
                "rstate", "lget"}

RedisFails(r) ==
  /\ "redis" \in Faults
  /\ pc[r] \in RedisLabels
  /\ kind[r] # "create"
  /\ Rollback(r)

(* In a voice turn the exception is caught, by the tool router or by the    *)
(* listening loop, and nothing is rolled back: the row stays locked, and   *)
(* what was written so far is published by the next commit of the socket.  *)
Swallow(r) ==
  /\ kind[r] \in TurnKinds
  /\ \/ pc[r] \in RedisLabels /\ "redis" \in Faults
     \/ pc[r] = "hbget" /\ ~Present
  /\ Move(r, "commit")

(* The process dies, or the request is cancelled, before COMMIT.           *)
Crash(r) ==
  /\ "crash" \in Faults
  /\ pc[r] # "idle"
  /\ Rollback(r)

(* Redis loses the key: expiry, eviction, flush, restart.                  *)
LoseState ==
  /\ "loss" \in Faults
  /\ Present
  /\ redis' = Absent
  /\ UNCHANGED <<kind, database, pc, locals>>

Step(r) ==
  \/ CreateSession(r) \/ CompensateCreate(r) \/ RaiseCreate(r)
  \/ ActivateRead(r) \/ ActivateGet(r) \/ ActivateUpdate(r)
  \/ EnsureGet(r) \/ SaveState(r) \/ HeartbeatGet(r) \/ HeartbeatSet(r)
  \/ PhaseGet(r) \/ PhaseSet(r)
  \/ ResumeRead(r) \/ ResumeGet(r) \/ ResumeState(r)
  \/ HandoffUpdate(r) \/ LoadState(r) \/ LoadRead(r) \/ ModifyState(r)
  \/ EndRead(r) \/ EndGet(r) \/ EndUpdate(r) \/ EndDelete(r)
  \/ Commit(r) \/ KeyMissing(r)

Next ==
  \/ \E r \in Req : Step(r) \/ RedisFails(r) \/ Swallow(r) \/ Crash(r)
  \/ LoseState

Spec == Init /\ [][Next]_vars

(* A request that came in is a task the event loop and the database keep   *)
(* serving; nothing forces a request to come in.                           *)
FairSpec == Spec /\ \A r \in Req : SF_vars(pc[r] # "idle" /\ Step(r))

-----------------------------------------------------------------------------
(* Properties *)

TypeOK ==
  /\ kind \in [Req -> Kinds \cup {"none"}]
  /\ row \in [status : SessionStatus, ended_at : Timestamp]
  /\ rowNew \in [status : SessionStatus, ended_at : Timestamp]
  /\ rowLock \in Req \cup {NoReq}
  /\ redis \in [phase : SessionPhase \cup {"absent"}, seq : Nat, ttl : Ttl]
  /\ pc \in [Req -> Labels]
  /\ seen \in [Req -> SessionStatus]
  /\ loc \in [Req -> [phase : SessionPhase, seq : Nat]]
  /\ hb \in [Req -> [phase : SessionPhase, seq : Nat]]
  /\ cont \in [Req -> Labels]

Idle == \A r \in Req : pc[r] = "idle"

(* An ended session comes back to life only by a handoff operation, which  *)
(* does not look at the status, or by an activate_session that read the    *)
(* row before the end was committed.                                       *)
OnlyOverlapRevives ==
  [][row.status \in Terminal /\ row'.status \notin Terminal =>
       \E r \in Req : /\ pc[r] = "commit" /\ pc'[r] = "idle"
                      /\ \/ kind[r] \in HandoffKinds
                         \/ kind[r] = "activate" /\ seen[r] \notin Terminal]_vars

(* The state it puts back is one it read while Redis still had it.         *)
HoldsCopy(r) == pc[r] \in {"hbset", "pset"} \/ (pc[r] = "set" /\ cont[r] = "commit")

(* The state of an ended session that is gone from Redis is put back only   *)
(* by a request that overlapped the end: it holds a copy it read before,   *)
(* or a status of the row that was not terminal.  A request that only met  *)
(* the ended session, after a crash or a lost key, rebuilds nothing.       *)
OnlyOverlapRebuilds ==
  [][row.status \in Terminal /\ ~Present /\ redis'.phase # "absent" =>
       \E r \in Req : /\ pc'[r] # pc[r]
                      /\ HoldsCopy(r) \/ seen[r] \notin Terminal]_vars

(* After any sequence of lifecycle operations that do not overlap, with     *)
(* Redis losing the state at any moment, the state in Redis is that of a   *)
(* live session and its phase the one of the committed status: nothing     *)
(* rebuilds the state of an ended session.                                 *)
PhaseFollowsStatus ==
  Idle /\ Present =>
    row.status \in Live /\ redis.phase = PhaseForStatus(row.status)

(* While Redis keeps the key, the sequence a client resumes from never goes *)
(* back (when requests do not overlap).                                    *)
SequenceMonotone ==
  [][Present /\ redis'.phase # "absent" => redis'.seq >= redis.seq]_vars


-----------------------------------------------------------------------------
(* What the documents say and the code does not do *)

(* docs/architecture/session-consistency.md on create_session: "On Redis    *)
(* failure -> mark session FAILED in Postgres, raise SessionStateError".   *)
CompensationRecorded ==
  [][\A r \in Req : pc[r] = "raise" /\ pc'[r] = "idle"
                    => row'.status = "failed"]_vars

(* human-handoff.md: Redis TTL on handoff "Extended to                      *)
(* handoff_session_ttl_seconds".                                           *)
HandoffTtlExtended ==
  Idle /\ Present /\ row.status = "handoff_pending" => redis.ttl = "handoff"
=============================================================================
