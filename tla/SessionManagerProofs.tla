------------------------- MODULE SessionManagerProofs -------------------------
(***************************************************************************)
(* Proofs about SessionManager for any number of requests in flight.       *)
(*                                                                         *)
(* What a commit publishes is the dirty row, so the invariant says of the  *)
(* transaction that locks the row which operation it is, what it has       *)
(* written, and that its status read did not see an ended session.         *)
(* What it puts into Redis is a copy it read, or comes from a status it    *)
(* read: the invariant says which of the two at every statement.           *)
(***************************************************************************)
EXTENDS SessionManager, TLAPS

(* The operations that write the row, each from a state its checks allow.  *)
LockInv(r) ==
  rowLock = r =>
    /\ pc[r] # "idle"
    /\ \/ kind[r] = "create" /\ row.status = "none"
       \/ kind[r] = "activate" /\ seen[r] \notin Terminal
       \/ kind[r] \in HandoffKinds
       \/ kind[r] = "end" /\ rowNew.status = "completed"

RowInv == rowLock = NoReq => rowNew = row

(* A request about to write what it did not read from Redis has not seen   *)
(* an ended session: resume checks the status, and the rebuilding of the   *)
(* state refuses a terminal one.                                           *)
SeenInv(r) ==
  /\ kind[r] = "resume" => seen[r] \notin Terminal
  /\ pc[r] = "set" /\ cont[r] # "commit" => seen[r] \notin Terminal

(* How far a request is: its label belongs to its operation, and an        *)
(* activation past its check holds a status that was not terminal.         *)
LabelInv(r) ==
  /\ pc[r] = "raise" => kind[r] = "create"
  /\ kind[r] = "create" /\ pc[r] # "idle" => rowLock = r
  /\ pc[r] \in {"update", "write"} => kind[r] = "activate"
  /\ pc[r] \in {"endget", "endupd", "del"} => kind[r] = "end"
  /\ cont[r] \in {"pget", "rstate", "modify", "hbget", "commit"}
  /\ kind[r] = "activate" => seen[r] \notin Terminal
  /\ pc[r] \in {"lget", "modify", "lread"} \/ cont[r] = "modify" =>
       kind[r] \in HandoffKinds \cup {"track"}
  /\ pc[r] \in {"rget", "rstate"} \/ cont[r] \in {"rstate", "hbget"} => kind[r] = "resume"
  /\ pc[r] = "idle" => kind[r] = "none"

IndInv ==
  /\ TypeOK
  /\ \A r \in Req : LockInv(r) /\ LabelInv(r) /\ SeenInv(r)
  /\ RowInv

-----------------------------------------------------------------------------
(* Type correctness *)

LEMMA InitType == Init => TypeOK
BY DEF Init, TypeOK, Absent, State, Fresh, SessionStatus, SessionPhase, Timestamp,
       Ttl, Labels, Kinds

LEMMA CopyType ==
  TypeOK /\ Present => Copy \in [phase : SessionPhase, seq : Nat]
BY DEF TypeOK, Present, Copy, State

LEMMA PhaseForStatusType ==
  ASSUME NEW s PROVE PhaseForStatus(s) \in SessionPhase
BY DEF PhaseForStatus, SessionPhase

LEMMA TargetType == ASSUME NEW k PROVE Target(k) \in Live
BY DEF Target, Live

LEMMA RollbackType ==
  ASSUME TypeOK, NEW r \in Req, Rollback(r) PROVE TypeOK'
BY DEF TypeOK, Rollback, Forget, Goto, See, Hold, Then, Fresh, State, Labels,
       SessionStatus, SessionPhase

(* No operation puts a value outside its type into the row, the Redis      *)
(* state or a request's variables.                                         *)
LEMMA NextType == TypeOK /\ [Next]_vars => TypeOK'
<1> SUFFICES ASSUME TypeOK, [Next]_vars PROVE TypeOK'
  OBVIOUS
<1> USE SeqAssumption, KindsAssumption
    DEF TypeOK, Goto, See, Hold, Then, Enter, Forget, Rollback,
            Move, Exists, Present, Copy, State, Stored, Absent, Fresh,
            database, locals
<1>1. ASSUME NEW r \in Req, Step(r) PROVE TypeOK'
  <2>1. CASE CreateSession(r)
    BY <2>1 DEF CreateSession, Labels, SessionStatus, SessionPhase, Live, Timestamp, Kinds
  <2>2. CASE CompensateCreate(r)
    BY <2>2 DEF CompensateCreate, Labels, SessionStatus, Terminal, Timestamp
  <2>3. CASE RaiseCreate(r)
    BY <2>3 DEF RaiseCreate, Labels, SessionStatus, SessionPhase
  <2>4. CASE ActivateRead(r)
    BY <2>4 DEF ActivateRead, Labels, Kinds
  <2>5. CASE ActivateGet(r)
    BY <2>5 DEF ActivateGet, Labels
  <2>6. CASE ActivateUpdate(r)
    BY <2>6 DEF ActivateUpdate, Labels, SessionStatus, Live
  <2>7. CASE EnsureGet(r)
    <3>1. CASE Present
      <4>1. loc' \in [Req -> [phase : SessionPhase, seq : Nat]]
        BY <2>7, <3>1, CopyType DEF EnsureGet
      <4>2. pc' \in [Req -> Labels]
        BY <2>7, <3>1, SMTT(30) DEF EnsureGet
      <4> QED BY <2>7, <3>1, <4>1, <4>2 DEF EnsureGet
    <3>2. CASE ~Present /\ Given(r) \in Terminal
      <4>1. Rollback(r)
        BY <2>7, <3>2 DEF EnsureGet
      <4> QED BY <4>1, RollbackType
    <3>3. CASE ~Present /\ Given(r) \notin Terminal
      <4>1. Given(r) \in SessionStatus
        BY DEF Given, SessionStatus, Live
      <4>2. State(PhaseForStatus(Given(r)), 0) \in [phase : SessionPhase, seq : Nat]
        BY PhaseForStatusType DEF State
      <4>3. /\ loc' = [loc EXCEPT ![r] = State(PhaseForStatus(Given(r)), 0)]
            /\ seen' = [seen EXCEPT ![r] = Given(r)]
            /\ pc' = [pc EXCEPT ![r] = "set"]
            /\ UNCHANGED <<kind, database, redis, hb, cont>>
        BY <2>7, <3>3 DEF EnsureGet
      <4>4. loc' \in [Req -> [phase : SessionPhase, seq : Nat]]
        <5> HIDE DEF State
        <5> QED BY <4>2, <4>3
      <4>5. pc' \in [Req -> Labels]
        BY <4>3 DEF Labels
      <4>6. seen' \in [Req -> SessionStatus]
        BY <4>1, <4>3
      <4> QED BY <4>3, <4>4, <4>5, <4>6
    <3> QED BY <3>1, <3>2, <3>3
  <2>8. CASE SaveState(r)
    BY <2>8 DEF SaveState, Labels, Ttl, TtlForStatus
  <2>9. CASE HeartbeatGet(r)
    BY <2>9 DEF HeartbeatGet, Labels, Kinds
  <2>10. CASE HeartbeatSet(r)
    BY <2>10 DEF HeartbeatSet, Labels, Ttl, SessionPhase
  <2>11. CASE PhaseGet(r)
    <3>1. kind' \in [Req -> Kinds \cup {"none"}]
      BY <2>11 DEF PhaseGet
    <3>2. Copy \in [phase : SessionPhase, seq : Nat]
      BY <2>11, CopyType DEF PhaseGet
    <3> HIDE DEF Copy, State
    <3> QED BY <2>11, <3>1, <3>2 DEF PhaseGet, Labels
  <2>12. CASE PhaseSet(r)
    BY <2>12 DEF PhaseSet, Labels, Ttl, NewPhase, SessionPhase, Bump
  <2>13. CASE ResumeRead(r)
    BY <2>13 DEF ResumeRead, Labels, Kinds
  <2>14. CASE ResumeGet(r)
    BY <2>14 DEF ResumeGet, Labels
  <2>15. CASE ResumeState(r)
    <3>1. loc' \in [Req -> [phase : SessionPhase, seq : Nat]]
      BY <2>15 DEF ResumeState
    <3>2. pc' \in [Req -> Labels]
      BY <2>15 DEF ResumeState, Labels
    <3>3. cont' \in [Req -> Labels]
      BY <2>15 DEF ResumeState, Labels
    <3>4. UNCHANGED <<kind, row, rowNew, rowLock, redis, seen, hb>>
      BY <2>15 DEF ResumeState
    <3> QED BY <3>1, <3>2, <3>3, <3>4
  <2>16. CASE HandoffUpdate(r)
    BY <2>16 DEF HandoffUpdate, Labels, Kinds, HandoffKinds, SessionStatus, Live, Target
  <2>17. CASE LoadState(r)
    <3>1. kind' \in [Req -> Kinds \cup {"none"}]
      BY <2>17 DEF LoadState
    <3>2. loc' \in [Req -> [phase : SessionPhase, seq : Nat]]
      BY <2>17, CopyType DEF LoadState
    <3>3. pc' = [pc EXCEPT ![r] = "modify"] \/ pc' = [pc EXCEPT ![r] = "lread"]
      BY <2>17 DEF LoadState
    <3>4. pc' \in [Req -> Labels]
      BY <3>3 DEF Labels
    <3> QED BY <2>17, <3>1, <3>2, <3>4 DEF LoadState
  <2>18. CASE LoadRead(r)
    BY <2>18 DEF LoadRead, Labels, Visible
  <2>19. CASE ModifyState(r)
    <3>1. Target(kind[r]) \in SessionStatus
      BY TargetType DEF SessionStatus
    <3>2. State(PhaseForStatus(Target(kind[r])), loc[r].seq)
            \in [phase : SessionPhase, seq : Nat]
      BY PhaseForStatusType DEF State
    <3> HIDE DEF State
    <3>3. seen' \in [Req -> SessionStatus]
      BY <2>19, <3>1 DEF ModifyState
    <3>4. loc' \in [Req -> [phase : SessionPhase, seq : Nat]]
      BY <2>19, <3>2 DEF ModifyState
    <3>5. pc' \in [Req -> Labels] /\ cont' \in [Req -> Labels]
      BY <2>19 DEF ModifyState, Labels
    <3> QED BY <2>19, <3>3, <3>4, <3>5 DEF ModifyState
  <2>20. CASE EndRead(r)
    BY <2>20 DEF EndRead, Labels, Kinds
  <2>21. CASE EndGet(r)
    BY <2>21 DEF EndGet, Labels
  <2>22. CASE EndUpdate(r)
    BY <2>22 DEF EndUpdate, Labels, SessionStatus, Terminal, Timestamp
  <2>23. CASE EndDelete(r)
    BY <2>23 DEF EndDelete, Labels, Ttl
  <2>24. CASE Commit(r)
    BY <2>24 DEF Commit, Labels, Visible, SessionStatus, SessionPhase
  <2>25. CASE KeyMissing(r)
    BY <2>25 DEF KeyMissing, Labels, SessionStatus, SessionPhase
  <2> HIDE DEF TypeOK
  <2> QED
    BY <1>1, <2>1, <2>2, <2>3, <2>4, <2>5, <2>6, <2>7, <2>8, <2>9, <2>10, <2>11, <2>12, <2>13,
      <2>14, <2>15, <2>16, <2>17, <2>18, <2>19, <2>20, <2>21, <2>22, <2>23, <2>24, <2>25 DEF Step
<1>2. ASSUME NEW r \in Req, RedisFails(r) \/ Swallow(r) \/ Crash(r) PROVE TypeOK'
  <2>1. CASE Swallow(r)
    BY <2>1 DEF TypeOK, Swallow, Move, Goto, Labels, database, locals
  <2> QED BY <1>2, <2>1, RollbackType DEF RedisFails, Crash
<1>3. CASE LoseState
  BY <1>3 DEF LoseState, Ttl
<1>4. CASE UNCHANGED vars
  BY <1>4 DEF vars
<1> HIDE DEF TypeOK
<1> QED
  BY <1>1, <1>2, <1>3, <1>4 DEF Next

(* Every reachable state of a session and its requests is well typed.      *)
THEOREM TypeCorrect == Spec => []TypeOK
BY InitType, NextType, PTL DEF Spec

-----------------------------------------------------------------------------
(* The inductive invariant: one lemma per action *)

LEMMA RollbackInd ==
  ASSUME IndInv, TypeOK', NEW r \in Req, Rollback(r)
  PROVE  IndInv'
<1> USE NoReqIsNoReq DEF IndInv, TypeOK, Rollback, Forget, Goto, See, Hold, Then
<1>1. \A q \in Req : LabelInv(q)'
  BY DEF LabelInv, HandoffKinds, Terminal
<1>2. \A q \in Req : LockInv(q)'
  BY DEF LockInv
<1>3. RowInv'
  BY DEF RowInv
<1>4. \A q \in Req : SeenInv(q)'
  BY DEF SeenInv, LabelInv, HandoffKinds, Terminal
<1> QED
  BY <1>1, <1>2, <1>3, <1>4

(* The first SELECT of activate_session. *)
LEMMA ActivateReadInd ==
  ASSUME IndInv, TypeOK', NEW r \in Req, ActivateRead(r)
  PROVE  IndInv'
<1> USE NoReqIsNoReq
    DEF IndInv, TypeOK, ActivateRead, Goto, See, Hold, Then, Enter, Forget, Rollback, Move,
        Exists, database, locals
<1>1. \A q \in Req : LabelInv(q)'
  BY DEF LabelInv, HandoffKinds, Terminal
<1>2. \A q \in Req : LockInv(q)'
  BY DEF LockInv, LabelInv, HandoffKinds, Terminal
<1>3. RowInv'
  BY DEF RowInv
<1>4. \A q \in Req : SeenInv(q)'
  BY DEF SeenInv, LabelInv, HandoffKinds, Terminal
<1> QED
  BY <1>1, <1>2, <1>3, <1>4

(* The second one. *)
LEMMA ActivateGetInd ==
  ASSUME IndInv, TypeOK', NEW r \in Req, ActivateGet(r)
  PROVE  IndInv'
<1> USE NoReqIsNoReq
    DEF IndInv, TypeOK, ActivateGet, Goto, See, Hold, Then, Enter, Forget, Rollback, Move,
        Exists, database, locals
<1>1. \A q \in Req : LabelInv(q)'
  BY DEF LabelInv, HandoffKinds, Terminal
<1>2. \A q \in Req : LockInv(q)'
  BY DEF LockInv, LabelInv, HandoffKinds, Terminal
<1>3. RowInv'
  BY DEF RowInv
<1>4. \A q \in Req : SeenInv(q)'
  BY DEF SeenInv, LabelInv, HandoffKinds, Terminal
<1> QED
  BY <1>1, <1>2, <1>3, <1>4

(* The SET of _write_ephemeral_state. *)
LEMMA SaveStateInd ==
  ASSUME IndInv, TypeOK', NEW r \in Req, SaveState(r)
  PROVE  IndInv'
<1> USE NoReqIsNoReq
    DEF IndInv, TypeOK, SaveState, Goto, See, Hold, Then, Enter, Forget, Rollback, Move,
        Exists, database, locals
<1>1. \A q \in Req : LabelInv(q)'
  BY DEF LabelInv, HandoffKinds, Terminal
<1>2. \A q \in Req : LockInv(q)'
  BY DEF LockInv, LabelInv, HandoffKinds, Terminal
<1>3. RowInv'
  BY DEF RowInv
<1>4. \A q \in Req : SeenInv(q)'
  BY DEF SeenInv, LabelInv, HandoffKinds, Terminal
<1> QED
  BY <1>1, <1>2, <1>3, <1>4

(* The GET of record_heartbeat. *)
LEMMA HeartbeatGetInd ==
  ASSUME IndInv, TypeOK', NEW r \in Req, HeartbeatGet(r)
  PROVE  IndInv'
<1> USE NoReqIsNoReq
    DEF IndInv, TypeOK, HeartbeatGet, Goto, See, Hold, Then, Enter, Forget, Rollback, Move,
        Exists, database, locals
<1>1. \A q \in Req : LabelInv(q)'
  BY DEF LabelInv, HandoffKinds, Terminal
<1>2. \A q \in Req : LockInv(q)'
  BY DEF LockInv, LabelInv, HandoffKinds, Terminal
<1>3. RowInv'
  BY DEF RowInv
<1>4. \A q \in Req : SeenInv(q)'
  BY DEF SeenInv, LabelInv, HandoffKinds, Terminal
<1> QED
  BY <1>1, <1>2, <1>3, <1>4

(* The SET of record_heartbeat. *)
LEMMA HeartbeatSetInd ==
  ASSUME IndInv, TypeOK', NEW r \in Req, HeartbeatSet(r)
  PROVE  IndInv'
<1> USE NoReqIsNoReq
    DEF IndInv, TypeOK, HeartbeatSet, Goto, See, Hold, Then, Enter, Forget, Rollback, Move,
        Exists, database, locals
<1>1. \A q \in Req : LabelInv(q)'
  BY DEF LabelInv, HandoffKinds, Terminal
<1>2. \A q \in Req : LockInv(q)'
  BY DEF LockInv, LabelInv, HandoffKinds, Terminal
<1>3. RowInv'
  BY DEF RowInv
<1>4. \A q \in Req : SeenInv(q)'
  BY DEF SeenInv, LabelInv, HandoffKinds, Terminal
<1> QED
  BY <1>1, <1>2, <1>3, <1>4

(* The GET of update_phase and set_interrupt. *)
LEMMA PhaseGetInd ==
  ASSUME IndInv, TypeOK', NEW r \in Req, PhaseGet(r)
  PROVE  IndInv'
<1> USE NoReqIsNoReq
    DEF IndInv, TypeOK, PhaseGet, Goto, See, Hold, Then, Enter, Forget, Rollback, Move,
        Exists, database, locals
<1>1. \A q \in Req : LabelInv(q)'
  BY DEF LabelInv, HandoffKinds, Terminal, PhaseKinds
<1>2. \A q \in Req : LockInv(q)'
  BY DEF LockInv, LabelInv, HandoffKinds, Terminal
<1>3. RowInv'
  BY DEF RowInv
<1>4. \A q \in Req : SeenInv(q)'
  BY DEF SeenInv, LabelInv, HandoffKinds, PhaseKinds, Terminal
<1> QED
  BY <1>1, <1>2, <1>3, <1>4

(* The SET of update_phase and set_interrupt. *)
LEMMA PhaseSetInd ==
  ASSUME IndInv, TypeOK', NEW r \in Req, PhaseSet(r)
  PROVE  IndInv'
<1> USE NoReqIsNoReq
    DEF IndInv, TypeOK, PhaseSet, Goto, See, Hold, Then, Enter, Forget, Rollback, Move,
        Exists, database, locals
<1>1. \A q \in Req : LabelInv(q)'
  BY DEF LabelInv, HandoffKinds, Terminal
<1>2. \A q \in Req : LockInv(q)'
  BY DEF LockInv, LabelInv, HandoffKinds, Terminal
<1>3. RowInv'
  BY DEF RowInv
<1>4. \A q \in Req : SeenInv(q)'
  BY DEF SeenInv, LabelInv, HandoffKinds, Terminal
<1> QED
  BY <1>1, <1>2, <1>3, <1>4

(* The SELECT of resume_session. *)
LEMMA ResumeReadInd ==
  ASSUME IndInv, TypeOK', NEW r \in Req, ResumeRead(r)
  PROVE  IndInv'
<1> USE NoReqIsNoReq
    DEF IndInv, TypeOK, ResumeRead, Goto, See, Hold, Then, Enter, Forget, Rollback, Move,
        Exists, database, locals
<1>1. \A q \in Req : LabelInv(q)'
  BY DEF LabelInv, HandoffKinds, Terminal
<1>2. \A q \in Req : LockInv(q)'
  BY DEF LockInv, LabelInv, HandoffKinds, Terminal
<1>3. RowInv'
  BY DEF RowInv
<1>4. \A q \in Req : SeenInv(q)'
  BY DEF SeenInv, LabelInv, HandoffKinds, Terminal
<1> QED
  BY <1>1, <1>2, <1>3, <1>4

(* The first GET of resume_session. *)
LEMMA ResumeGetInd ==
  ASSUME IndInv, TypeOK', NEW r \in Req, ResumeGet(r)
  PROVE  IndInv'
<1> USE NoReqIsNoReq
    DEF IndInv, TypeOK, ResumeGet, Goto, See, Hold, Then, Enter, Forget, Rollback, Move,
        Exists, database, locals
<1>1. \A q \in Req : LabelInv(q)'
  BY DEF LabelInv, HandoffKinds, Terminal
<1>2. \A q \in Req : LockInv(q)'
  BY DEF LockInv, LabelInv, HandoffKinds, Terminal
<1>3. RowInv'
  BY DEF RowInv
<1>4. \A q \in Req : SeenInv(q)'
  BY DEF SeenInv, LabelInv, HandoffKinds, Terminal
<1> QED
  BY <1>1, <1>2, <1>3, <1>4

(* The second GET of resume_session. *)
LEMMA ResumeStateInd ==
  ASSUME IndInv, TypeOK', NEW r \in Req, ResumeState(r)
  PROVE  IndInv'
<1> USE NoReqIsNoReq
    DEF IndInv, TypeOK, ResumeState, Goto, See, Hold, Then, Enter, Forget, Rollback, Move,
        Exists, database, locals
<1>1. \A q \in Req : LabelInv(q)'
  BY SMTT(30) DEF LabelInv, HandoffKinds, Terminal
<1>2. \A q \in Req : LockInv(q)'
  BY DEF LockInv, LabelInv, HandoffKinds, Terminal
<1>3. RowInv'
  BY DEF RowInv
<1>4. \A q \in Req : SeenInv(q)'
  BY SMTT(30) DEF SeenInv, LabelInv, HandoffKinds, Terminal
<1> QED
  BY <1>1, <1>2, <1>3, <1>4

(* The GET of _load_or_reconcile_state. *)
LEMMA LoadStateInd ==
  ASSUME IndInv, TypeOK', NEW r \in Req, LoadState(r)
  PROVE  IndInv'
<1> USE NoReqIsNoReq
    DEF IndInv, TypeOK, LoadState, Goto, See, Hold, Then, Enter, Forget, Rollback, Move,
        Exists, database, locals
<1>1. \A q \in Req : LabelInv(q)'
  BY DEF LabelInv, HandoffKinds, Terminal
<1>2. \A q \in Req : LockInv(q)'
  BY DEF LockInv, LabelInv, HandoffKinds, Terminal
<1>3. RowInv'
  BY DEF RowInv
<1>4. \A q \in Req : SeenInv(q)'
  BY DEF SeenInv, LabelInv, HandoffKinds, Terminal
<1> QED
  BY <1>1, <1>2, <1>3, <1>4

(* The SELECT of _load_or_reconcile_state. *)
LEMMA LoadReadInd ==
  ASSUME IndInv, TypeOK', NEW r \in Req, LoadRead(r)
  PROVE  IndInv'
<1> USE NoReqIsNoReq
    DEF IndInv, TypeOK, LoadRead, Goto, See, Hold, Then, Enter, Forget, Rollback, Move,
        Exists, database, locals
<1>1. \A q \in Req : LabelInv(q)'
  BY DEF LabelInv, HandoffKinds, Terminal
<1>2. \A q \in Req : LockInv(q)'
  BY DEF LockInv, LabelInv, HandoffKinds, Terminal
<1>3. RowInv'
  BY DEF RowInv
<1>4. \A q \in Req : SeenInv(q)'
  BY SMTT(30) DEF SeenInv, LabelInv, HandoffKinds, Terminal
<1> QED
  BY <1>1, <1>2, <1>3, <1>4

(* The changed copy of a handoff operation. *)
LEMMA ModifyStateInd ==
  ASSUME IndInv, TypeOK', NEW r \in Req, ModifyState(r)
  PROVE  IndInv'
<1> USE NoReqIsNoReq
    DEF IndInv, TypeOK, ModifyState, Goto, See, Hold, Then, Enter, Forget, Rollback, Move,
        Exists, database, locals
<1>1. \A q \in Req : LabelInv(q)'
  BY DEF LabelInv, HandoffKinds, Terminal
<1>2. \A q \in Req : LockInv(q)'
  BY DEF LockInv, LabelInv, HandoffKinds, Terminal
<1>3. RowInv'
  BY DEF RowInv
<1>4. \A q \in Req : SeenInv(q)'
  BY SMTT(30) DEF SeenInv, LabelInv, HandoffKinds, Terminal
<1> QED
  BY <1>1, <1>2, <1>3, <1>4

(* The first SELECT of end_session. *)
LEMMA EndReadInd ==
  ASSUME IndInv, TypeOK', NEW r \in Req, EndRead(r)
  PROVE  IndInv'
<1> USE NoReqIsNoReq
    DEF IndInv, TypeOK, EndRead, Goto, See, Hold, Then, Enter, Forget, Rollback, Move,
        Exists, database, locals
<1>1. \A q \in Req : LabelInv(q)'
  BY DEF LabelInv, HandoffKinds, Terminal
<1>2. \A q \in Req : LockInv(q)'
  BY DEF LockInv, LabelInv, HandoffKinds, Terminal
<1>3. RowInv'
  BY DEF RowInv
<1>4. \A q \in Req : SeenInv(q)'
  BY DEF SeenInv, LabelInv, HandoffKinds, Terminal
<1> QED
  BY <1>1, <1>2, <1>3, <1>4

(* The second one. *)
LEMMA EndGetInd ==
  ASSUME IndInv, TypeOK', NEW r \in Req, EndGet(r)
  PROVE  IndInv'
<1> USE NoReqIsNoReq
    DEF IndInv, TypeOK, EndGet, Goto, See, Hold, Then, Enter, Forget, Rollback, Move,
        Exists, database, locals
<1>1. \A q \in Req : LabelInv(q)'
  BY DEF LabelInv, HandoffKinds, Terminal
<1>2. \A q \in Req : LockInv(q)'
  BY DEF LockInv, LabelInv, HandoffKinds, Terminal
<1>3. RowInv'
  BY DEF RowInv
<1>4. \A q \in Req : SeenInv(q)'
  BY DEF SeenInv, LabelInv, HandoffKinds, Terminal
<1> QED
  BY <1>1, <1>2, <1>3, <1>4

(* The DEL of end_session. *)
LEMMA EndDeleteInd ==
  ASSUME IndInv, TypeOK', NEW r \in Req, EndDelete(r)
  PROVE  IndInv'
<1> USE NoReqIsNoReq
    DEF IndInv, TypeOK, EndDelete, Goto, See, Hold, Then, Enter, Forget, Rollback, Move,
        Exists, database, locals
<1>1. \A q \in Req : LabelInv(q)'
  BY DEF LabelInv, HandoffKinds, Terminal
<1>2. \A q \in Req : LockInv(q)'
  BY DEF LockInv, LabelInv, HandoffKinds, Terminal
<1>3. RowInv'
  BY DEF RowInv
<1>4. \A q \in Req : SeenInv(q)'
  BY DEF SeenInv, LabelInv, HandoffKinds, Terminal
<1> QED
  BY <1>1, <1>2, <1>3, <1>4

(* The INSERT of create_session. *)
LEMMA CreateSessionInd ==
  ASSUME IndInv, TypeOK', NEW r \in Req, CreateSession(r)
  PROVE  IndInv'
<1> USE NoReqIsNoReq
    DEF IndInv, TypeOK, CreateSession, Goto, See, Hold, Then, Enter, Forget, Rollback, Move,
        Exists, database, locals
<1>1. \A q \in Req : LabelInv(q)'
  BY DEF LabelInv, LockInv, HandoffKinds, Terminal
<1>2. \A q \in Req : LockInv(q)'
  BY DEF LockInv, LabelInv, HandoffKinds, Terminal, RowInv
<1>3. RowInv'
  BY DEF RowInv, LockInv, LabelInv, Terminal, Target
<1>4. \A q \in Req : SeenInv(q)'
  BY DEF SeenInv, LabelInv, HandoffKinds, Terminal
<1> QED
  BY <1>1, <1>2, <1>3, <1>4

(* end_session(FAILED) of create_session. *)
LEMMA CompensateCreateInd ==
  ASSUME IndInv, TypeOK', NEW r \in Req, CompensateCreate(r)
  PROVE  IndInv'
<1> USE NoReqIsNoReq
    DEF IndInv, TypeOK, CompensateCreate, Goto, See, Hold, Then, Enter, Forget, Rollback, Move,
        Exists, database, locals
<1>1. \A q \in Req : LabelInv(q)'
  BY DEF LabelInv, LockInv, HandoffKinds, Terminal
<1>2. \A q \in Req : LockInv(q)'
  BY DEF LockInv, LabelInv, HandoffKinds, Terminal, RowInv
<1>3. RowInv'
  BY DEF RowInv, LockInv, LabelInv, Terminal, Target
<1>4. \A q \in Req : SeenInv(q)'
  BY DEF SeenInv, LabelInv, HandoffKinds, Terminal
<1> QED
  BY <1>1, <1>2, <1>3, <1>4

(* The UPDATE of activate_session. *)
LEMMA ActivateUpdateInd ==
  ASSUME IndInv, TypeOK', NEW r \in Req, ActivateUpdate(r)
  PROVE  IndInv'
<1> USE NoReqIsNoReq
    DEF IndInv, TypeOK, ActivateUpdate, Goto, See, Hold, Then, Enter, Forget, Rollback, Move,
        Exists, database, locals
<1>1. \A q \in Req : LabelInv(q)'
  BY DEF LabelInv, LockInv, HandoffKinds, Terminal
<1>2. \A q \in Req : LockInv(q)'
  BY DEF LockInv, LabelInv, HandoffKinds, Terminal, RowInv
<1>3. RowInv'
  BY DEF RowInv, LockInv, LabelInv, Terminal, Target
<1>4. \A q \in Req : SeenInv(q)'
  BY DEF SeenInv, LabelInv, HandoffKinds, Terminal
<1> QED
  BY <1>1, <1>2, <1>3, <1>4

(* The UPDATE of a handoff operation. *)
LEMMA HandoffUpdateInd ==
  ASSUME IndInv, TypeOK', NEW r \in Req, HandoffUpdate(r)
  PROVE  IndInv'
<1> USE NoReqIsNoReq
    DEF IndInv, TypeOK, HandoffUpdate, Goto, See, Hold, Then, Enter, Forget, Rollback, Move,
        Exists, database, locals
<1>1. \A q \in Req : LabelInv(q)'
  BY DEF LabelInv, LockInv, HandoffKinds, Terminal
<1>2. \A q \in Req : LockInv(q)'
  BY DEF LockInv, LabelInv, HandoffKinds, Terminal, RowInv
<1>3. RowInv'
  BY DEF RowInv, LockInv, LabelInv, Terminal, Target
<1>4. \A q \in Req : SeenInv(q)'
  BY DEF SeenInv, LabelInv, HandoffKinds, Terminal
<1> QED
  BY <1>1, <1>2, <1>3, <1>4

(* The UPDATE of end_session. *)
LEMMA EndUpdateInd ==
  ASSUME IndInv, TypeOK', NEW r \in Req, EndUpdate(r)
  PROVE  IndInv'
<1> USE NoReqIsNoReq
    DEF IndInv, TypeOK, EndUpdate, Goto, See, Hold, Then, Enter, Forget, Rollback, Move,
        Exists, database, locals
<1>1. \A q \in Req : LabelInv(q)'
  BY DEF LabelInv, LockInv, HandoffKinds, Terminal
<1>2. \A q \in Req : LockInv(q)'
  BY DEF LockInv, LabelInv, HandoffKinds, Terminal, RowInv
<1>3. RowInv'
  BY DEF RowInv, LockInv, LabelInv, Terminal, Target
<1>4. \A q \in Req : SeenInv(q)'
  BY DEF SeenInv, LabelInv, HandoffKinds, Terminal
<1> QED
  BY <1>1, <1>2, <1>3, <1>4

(* COMMIT publishes the dirty row. *)
LEMMA CommitInd ==
  ASSUME IndInv, TypeOK', NEW r \in Req, Commit(r)
  PROVE  IndInv'
<1> USE NoReqIsNoReq
    DEF IndInv, TypeOK, Commit, Visible, Goto, See, Hold, Then, Enter, Forget, Rollback, Move,
        Exists, database, locals
<1>1. \A q \in Req : LabelInv(q)'
  BY DEF LabelInv, LockInv, HandoffKinds, Terminal
<1>2. \A q \in Req : LockInv(q)'
  BY DEF LockInv, LabelInv, HandoffKinds, Terminal, RowInv
<1>3. RowInv'
  BY DEF RowInv, LockInv, LabelInv, Terminal, Target
<1>4. \A q \in Req : SeenInv(q)'
  BY DEF SeenInv, LabelInv, HandoffKinds, Terminal
<1> QED
  BY <1>1, <1>2, <1>3, <1>4

(* A failure caught in a voice turn: the request goes to its commit. *)
LEMMA SwallowInd ==
  ASSUME IndInv, TypeOK', NEW r \in Req, Swallow(r)
  PROVE  IndInv'
<1> USE NoReqIsNoReq
    DEF IndInv, TypeOK, Swallow, RedisLabels, Goto, Move, database, locals
<1>1. \A q \in Req : LabelInv(q)'
  BY DEF LabelInv, TurnKinds, PhaseKinds, HandoffKinds, Terminal
<1>2. \A q \in Req : LockInv(q)'
  BY DEF LockInv, LabelInv, HandoffKinds, Terminal
<1>3. RowInv'
  BY DEF RowInv
<1>4. \A q \in Req : SeenInv(q)'
  BY DEF SeenInv, LabelInv, HandoffKinds, Terminal
<1> QED
  BY <1>1, <1>2, <1>3, <1>4

(* The GET of _ensure_ephemeral_state, which may raise. *)
LEMMA EnsureGetInd ==
  ASSUME IndInv, TypeOK', NEW r \in Req, EnsureGet(r)
  PROVE  IndInv'
<1>1. CASE Rollback(r)
  BY <1>1, RollbackInd
<1>2. CASE ~Rollback(r)
  <2>1. /\ UNCHANGED <<kind, row, rowNew, rowLock, cont>>
        /\ pc[r] = "eget"
        /\ pc' = [pc EXCEPT ![r] = cont[r]] \/ pc' = [pc EXCEPT ![r] = "set"]
        /\ seen' = seen \/ seen' = [seen EXCEPT ![r] = Given(r)]
    BY <1>2 DEF EnsureGet, Goto, See, database
  <2> USE <2>1 DEF IndInv, TypeOK
  <2>2. \A q \in Req : LabelInv(q)'
    BY DEF LabelInv, Given, Terminal, HandoffKinds
  <2>3. \A q \in Req : LockInv(q)'
    <3>1. \A q \in Req : pc[q] # "idle" => pc'[q] # "idle"
      BY DEF LabelInv
    <3>2. \A q \in Req : kind[q] = "activate" => seen'[q] \notin Terminal
      BY <2>2 DEF LabelInv
    <3> QED BY <3>1, <3>2 DEF LockInv
  <2>4. RowInv'
    BY DEF RowInv
  <2>5. \A q \in Req : SeenInv(q)'
    <3>1. \/ pc' = [pc EXCEPT ![r] = cont[r]] /\ seen' = seen
          \/ pc' = [pc EXCEPT ![r] = "set"] /\ Given(r) \notin Terminal
             /\ seen' = [seen EXCEPT ![r] = Given(r)]
      BY <1>2 DEF EnsureGet, Goto, See
    <3>2. CASE pc' = [pc EXCEPT ![r] = cont[r]] /\ seen' = seen
      BY <3>2 DEF SeenInv, LabelInv
    <3>3. CASE pc' = [pc EXCEPT ![r] = "set"] /\ Given(r) \notin Terminal
               /\ seen' = [seen EXCEPT ![r] = Given(r)]
      BY <3>3 DEF SeenInv
    <3> QED BY <3>1, <3>2, <3>3
  <2> QED
    BY <2>2, <2>3, <2>4, <2>5
<1> QED
  BY <1>1, <1>2

LEMMA OtherInd ==
  ASSUME IndInv, TypeOK', LoseState \/ UNCHANGED vars
  PROVE  IndInv'
<1>1. UNCHANGED <<kind, row, rowNew, rowLock, pc, seen, cont>>
  BY DEF LoseState, vars, database, locals
<1>2. \A q \in Req : LabelInv(q)' /\ LockInv(q)' /\ SeenInv(q)'
  BY <1>1 DEF IndInv, LabelInv, LockInv, SeenInv
<1>3. RowInv'
  BY <1>1 DEF IndInv, RowInv
<1> QED
  BY <1>2, <1>3 DEF IndInv

LEMMA InitInd == Init => IndInv
<1> SUFFICES ASSUME Init PROVE IndInv
  OBVIOUS
<1>1. \A r \in Req : LockInv(r) /\ LabelInv(r) /\ SeenInv(r)
  BY NoReqIsNoReq DEF Init, LockInv, LabelInv, SeenInv, HandoffKinds, Terminal
<1>2. RowInv
  BY DEF Init, RowInv, Terminal
<1> QED
  BY <1>1, <1>2, InitType DEF IndInv

LEMMA NextInd == IndInv /\ [Next]_vars => IndInv'
<1> SUFFICES ASSUME IndInv, [Next]_vars PROVE IndInv'
  OBVIOUS
<1>1. TypeOK'
  BY NextType DEF IndInv
<1>2. ASSUME NEW r \in Req, Step(r) PROVE IndInv'
  <2>1. CASE RaiseCreate(r) \/ KeyMissing(r)
    BY <1>1, <2>1, RollbackInd DEF RaiseCreate, KeyMissing
  <2> QED
    BY <1>1, <1>2, <2>1, CreateSessionInd, CompensateCreateInd,
       ActivateReadInd, ActivateGetInd, ActivateUpdateInd, EnsureGetInd,
       SaveStateInd, HeartbeatGetInd, HeartbeatSetInd, PhaseGetInd,
       PhaseSetInd, ResumeReadInd, ResumeGetInd, ResumeStateInd,
       HandoffUpdateInd, LoadStateInd, LoadReadInd, ModifyStateInd,
       EndReadInd, EndGetInd, EndUpdateInd, EndDeleteInd, CommitInd DEF Step
<1>3. ASSUME NEW r \in Req, RedisFails(r) \/ Swallow(r) \/ Crash(r) PROVE IndInv'
  BY <1>1, <1>3, RollbackInd, SwallowInd DEF RedisFails, Crash
<1>4. CASE LoseState \/ UNCHANGED vars
  BY <1>1, <1>4, OtherInd
<1> QED
  BY <1>2, <1>3, <1>4 DEF Next

LEMMA Inductive == Spec => []IndInv
BY InitInd, NextInd, PTL DEF Spec

-----------------------------------------------------------------------------
(* The committed row changes by a commit of the lock holder only. *)
LEMMA OnlyCommitWrites ==
  ASSUME [Next]_vars, row' # row
  PROVE  \E r \in Req : Commit(r) /\ rowLock = r
<1>1. ASSUME NEW r \in Req, Step(r) PROVE Commit(r) /\ rowLock = r
  <2>1. CASE Commit(r)
    BY <2>1 DEF Commit, Visible
  <2>2. CASE ~Commit(r)
    BY <1>1, <2>2 DEF Step, CreateSession, CompensateCreate, RaiseCreate,
       ActivateRead, ActivateGet, ActivateUpdate, EnsureGet, SaveState,
       HeartbeatGet, HeartbeatSet, PhaseGet, PhaseSet, ResumeRead, ResumeGet,
       ResumeState, HandoffUpdate, LoadState, LoadRead, ModifyState, EndRead,
       EndGet, EndUpdate, EndDelete, KeyMissing, Rollback, Move, database
  <2> QED BY <2>1, <2>2
<1>2. ASSUME NEW r \in Req, RedisFails(r) \/ Swallow(r) \/ Crash(r) PROVE FALSE
  BY <1>2 DEF RedisFails, Swallow, Crash, Rollback, Move, database
<1>3. CASE LoseState \/ UNCHANGED vars
  BY <1>3 DEF LoseState, vars, database
<1> QED
  BY <1>1, <1>2, <1>3 DEF Next

(* An ended session is revived only by a handoff operation or by an         *)
(* activation that overlapped the end, for any number of requests.         *)
THEOREM RevivedByOverlapOnly == Spec => OnlyOverlapRevives
<1> DEFINE Revives == row.status \in Terminal /\ row'.status \notin Terminal
           Overlap == \E r \in Req :
                        /\ pc[r] = "commit" /\ pc'[r] = "idle"
                        /\ \/ kind[r] \in HandoffKinds
                           \/ kind[r] = "activate" /\ seen[r] \notin Terminal
<1>1. IndInv /\ [Next]_vars => [Revives => Overlap]_vars
  <2> SUFFICES ASSUME IndInv, [Next]_vars, Revives PROVE Overlap
    OBVIOUS
  <2>1. PICK r \in Req : Commit(r) /\ rowLock = r
    BY OnlyCommitWrites
  <2>2. LockInv(r) /\ row' = rowNew /\ pc[r] = "commit" /\ pc'[r] = "idle"
    BY <2>1 DEF IndInv, TypeOK, Commit, Visible, Forget, Goto
  <2>3. kind[r] \in HandoffKinds
        \/ (kind[r] = "activate" /\ seen[r] \notin Terminal)
    BY <2>1, <2>2 DEF LockInv, Terminal
  <2> QED BY <2>2, <2>3
<1> QED
  BY <1>1, Inductive, PTL DEF Spec, OnlyOverlapRevives

(* Redis gets a state it did not have from the SET of a request. *)
LEMMA OnlySetsWrite ==
  ASSUME TypeOK, [Next]_vars, redis' # redis, redis'.phase # "absent"
  PROVE  \E r \in Req : SaveState(r) \/ HeartbeatSet(r) \/ PhaseSet(r)
<1>1. ASSUME NEW r \in Req, Step(r) PROVE SaveState(r) \/ HeartbeatSet(r) \/ PhaseSet(r)
  BY <1>1 DEF Step, CreateSession, CompensateCreate, RaiseCreate, ActivateRead, ActivateGet,
     ActivateUpdate, EnsureGet, HeartbeatGet, PhaseGet, ResumeRead, ResumeGet, ResumeState,
     HandoffUpdate, LoadState, LoadRead, ModifyState, EndRead, EndGet, EndUpdate, EndDelete,
     Commit, KeyMissing, Rollback, Move, Absent
<1>2. ASSUME NEW r \in Req, RedisFails(r) \/ Swallow(r) \/ Crash(r) PROVE FALSE
  BY <1>2 DEF RedisFails, Swallow, Crash, Rollback, Move
<1>3. CASE LoseState \/ UNCHANGED vars
  BY <1>3 DEF LoseState, vars, Absent
<1> QED
  BY <1>1, <1>2, <1>3 DEF Next

(* The state of an ended session comes back to Redis only by a request      *)
(* that overlapped the end, for any number of requests, crashes, Redis     *)
(* failures, lost keys and failures caught in a voice turn.                *)
THEOREM RebuiltByOverlapOnly == Spec => OnlyOverlapRebuilds
<1> DEFINE Rebuilds == row.status \in Terminal /\ ~Present /\ redis'.phase # "absent"
           Overlap == \E r \in Req : /\ pc'[r] # pc[r]
                                     /\ HoldsCopy(r) \/ seen[r] \notin Terminal
<1>1. IndInv /\ [Next]_vars => [Rebuilds => Overlap]_vars
  <2> SUFFICES ASSUME IndInv, [Next]_vars, Rebuilds PROVE Overlap
    OBVIOUS
  <2>1. PICK r \in Req : SaveState(r) \/ HeartbeatSet(r) \/ PhaseSet(r)
    <3>1. TypeOK /\ redis' # redis
      BY DEF IndInv, Present
    <3> QED BY <3>1, OnlySetsWrite
  <2>2. pc'[r] # pc[r]
    BY <2>1 DEF IndInv, TypeOK, LabelInv, SaveState, HeartbeatSet, PhaseSet, Goto
  <2>3. HoldsCopy(r) \/ seen[r] \notin Terminal
    BY <2>1 DEF IndInv, SeenInv, HoldsCopy, SaveState, HeartbeatSet, PhaseSet
  <2> QED BY <2>2, <2>3
<1> QED
  BY <1>1, Inductive, PTL DEF Spec, OnlyOverlapRebuilds
=============================================================================
