---------------------------- MODULE OrgWorkspace ----------------------------
(***************************************************************************)
(* What the members of one organization do beside the voice path, as       *)
(* concurrent requests: versions of the agent's configuration (create,     *)
(* apply a preset, roll back), onboarding with its sample call, and the    *)
(* demo endpoints (quickstart, chat, voice, trust loop).                   *)
(*                                                                         *)
(* A request is one transaction of PostgreSQL at READ COMMITTED, unless it *)
(* commits in between.  An UPDATE sees the rows committed when it starts   *)
(* and waits for those another transaction has changed; an INSERT waits    *)
(* for an uncommitted row with its key and fails on a committed one.       *)
(* Sessions are abstracted to their status: SessionManager and AgentTurn   *)
(* model them.                                                             *)
(***************************************************************************)
EXTENDS Integers, FiniteSets, FiniteSetsExt, Sequences

CONSTANTS
  Req,          \* concurrent requests
  Contents,     \* configurations a version may carry
  Presets,      \* preset slug -> configuration; builtin, overridden by templates
  Slugs,        \* preset slugs a request may name
  Workloads,    \* bound: which kinds of requests meet each other in a behaviour
  Faults,       \* which of "turn", "state", "upload", "crash" happen
  MaxVersions,  \* bound: versions, failed attempts not counted
  MaxSessions   \* bound: sessions opened by requests

ASSUME WorkspaceAssumption ==
  /\ DOMAIN Presets \subseteq Slugs
  /\ MaxVersions \in Nat /\ MaxSessions \in Nat

ConfigKinds == {"create", "apply", "rollback"}
OnboardingKinds == {"start", "connect", "sample"}
DemoKinds == {"quickstart", "chat", "trust_loop"}

VARIABLES
  versions,  \* committed agent_config_versions: number -> [config, active]
  sessions,  \* voice_sessions of these requests: status, and whether a handoff exists
  runs,      \* committed onboarding_runs, oldest first
  faq,       \* committed rows of the demo FAQ, and whether one was ever deleted
  opened,    \* session ids handed out
  req,       \* request -> its state
  kinds      \* kinds of requests of this behaviour, fixed at the start

vars == <<versions, sessions, runs, faq, opened, req, kinds>>

NoReq ==
  [pc |-> "idle", kind |-> "none", config |-> "none", activate |-> FALSE, number |-> 0,
   snapshot |-> {}, locked |-> {}, session |-> 0, run |-> 0]

Init ==
  /\ versions = <<>> /\ runs = <<>> /\ sessions = <<>>
  /\ faq = [collections |-> 0, documents |-> 0, deleted |-> FALSE]
  /\ opened = 0
  /\ req = [r \in Req |-> NoReq]
  /\ kinds \in Workloads

Set(r, s) == req' = [req EXCEPT ![r] = s]
Answer(r) == Set(r, NoReq)

-----------------------------------------------------------------------------
(* Agent configuration. *)
(* create_agent_config, apply_policy_preset, rollback_agent_config up to the
   read of the next number: an unknown preset or version is answered 404 and
   changes nothing. *)
BeginConfig(r, kind, activate, config) ==
  /\ req[r].pc = "idle" /\ kind \in kinds \cap ConfigKinds
  /\ Cardinality(DOMAIN versions) < MaxVersions
  /\ Set(r, [NoReq EXCEPT !.pc = "number", !.kind = kind, !.activate = activate,
                          !.config = config])
  /\ UNCHANGED <<versions, sessions, runs, faq, opened, kinds>>

CreateVersion(r) ==
  \E config \in Contents, activate \in BOOLEAN : BeginConfig(r, "create", activate, config)

(* get_policy_preset *)
KnownPreset(slug) == slug \in DOMAIN Presets

ApplyPreset(r) ==
  \E slug \in Slugs, activate \in BOOLEAN :
    KnownPreset(slug) /\ BeginConfig(r, "apply", activate, Presets[slug])

(* get_by_version *)
KnownVersion(target) == target \in DOMAIN versions

Rollback(r) ==
  \E target \in 1 .. MaxVersions :
    KnownVersion(target) /\ BeginConfig(r, "rollback", TRUE, versions[target].config)

(* next_version_number *)
NextVersionNumber(r) ==
  /\ req[r].pc = "number"
  /\ Set(r, [req[r] EXCEPT !.number = Max({0} \cup DOMAIN versions) + 1,
                           !.pc = IF req[r].activate THEN "deactivate" ELSE "insert"])
  /\ UNCHANGED <<versions, sessions, runs, faq, opened, kinds>>

(* deactivate_all: the statement starts *)
StartDeactivate(r) ==
  /\ req[r].pc = "deactivate"
  /\ Set(r, [req[r] EXCEPT !.snapshot = DOMAIN versions, !.pc = "update"])
  /\ UNCHANGED <<versions, sessions, runs, faq, opened, kinds>>

LockedByOthers(r) == UNION {req[o].locked : o \in Req \ {r}}

(* and has the rows it saw *)
DeactivateAll(r) ==
  /\ req[r].pc = "update"
  /\ req[r].snapshot \cap LockedByOthers(r) = {}
  /\ Set(r, [req[r] EXCEPT !.locked = @ \cup req[r].snapshot, !.snapshot = {}, !.pc = "insert"])
  /\ UNCHANGED <<versions, sessions, runs, faq, opened, kinds>>

Inserted(r) == req[r].pc = "commit" /\ req[r].kind \in ConfigKinds

BugInsertVersion(r) ==
  /\ req[r].pc = "insert"
  /\ Set(r, [req[r] EXCEPT
                !.number = Max({0} \cup DOMAIN versions
                                 \cup {req[o].number : o \in {p \in Req : Inserted(p)}}) + 1,
                !.pc = "commit"])
  /\ UNCHANGED <<versions, sessions, runs, faq, opened, kinds>>

(* The row of create_version: uq_agent_config_versions_org_version *)
InsertVersion(r) ==
  /\ req[r].pc = "insert"
  /\ \A o \in Req \ {r} : ~(Inserted(o) /\ req[o].number = req[r].number)
  /\ IF req[r].number \in DOMAIN versions
     THEN Answer(r)
     ELSE Set(r, [req[r] EXCEPT !.pc = "commit"])
  /\ UNCHANGED <<versions, sessions, runs, faq, opened, kinds>>

BugAfterCommit(r) ==
  [n \in DOMAIN versions \cup {req[r].number} |->
     IF n = req[r].number THEN [config |-> req[r].config, active |-> req[r].activate]
     ELSE [versions[n] EXCEPT !.active = FALSE]]

(* What the transaction makes of the table. *)
AfterCommit(r) ==
  [n \in DOMAIN versions \cup {req[r].number} |->
     IF n = req[r].number THEN [config |-> req[r].config, active |-> req[r].activate]
     ELSE [versions[n] EXCEPT !.active = @ /\ n \notin req[r].locked]]

CommitVersion(r) ==
  /\ Inserted(r)
  /\ versions' = AfterCommit(r)
  /\ Answer(r)
  /\ UNCHANGED <<sessions, runs, faq, opened, kinds>>

(* The rows get_active chooses from. *)
ActiveVersions == {n \in DOMAIN versions : versions[n].active}

-----------------------------------------------------------------------------
(* Sessions of onboarding and demo. *)
Status(id) == sessions[id].status

Store(id, status) == [sessions EXCEPT ![id].status = status]

(* A chat has read the session, open, and has not activated it yet. *)
Reopening(id) == \E o \in Req : req[o].pc = "activate" /\ req[o].session = id

(* end_session; overlap is a history of the model: a chat was about to reopen
   the session when it ended. *)
Ending(ss, id) ==
  [ss EXCEPT ![id].status = "completed", ![id].overlap = @ \/ Reopening(id)]

(* initiate_handoff: a session has one handoff; the first one writes the status
   whatever it is by then *)
Escalated(id) ==
  IF sessions[id].handoff THEN sessions
  ELSE [sessions EXCEPT ![id].status = "handoff_pending", ![id].handoff = TRUE]

(* What a scripted turn commits: it escalates or not. *)
AfterTurn(id) == {sessions, Escalated(id)}

NewSession(r, pc, status, run) ==
  /\ opened < MaxSessions
  /\ opened' = opened + 1
  /\ sessions' = Append(sessions, [status |-> status, handoff |-> FALSE, overlap |-> FALSE])
  /\ Set(r, [req[r] EXCEPT !.pc = pc, !.session = opened + 1, !.run = run])
  /\ UNCHANGED <<versions, runs, faq, kinds>>

Begin(r, kind, pc) ==
  /\ req[r].pc = "idle" /\ kind \in kinds
  /\ Set(r, [NoReq EXCEPT !.kind = kind, !.pc = pc])
  /\ UNCHANGED <<versions, sessions, runs, faq, opened, kinds>>

(* Onboarding. *)
Started == [status |-> "started", connected |-> FALSE, completed |-> FALSE, session |-> 0]

StartOnboarding(r) ==
  /\ req[r].pc = "idle" /\ "start" \in kinds /\ Len(runs) < MaxSessions
  /\ runs' = Append(runs, Started)
  /\ UNCHANGED <<versions, sessions, faq, opened, req, kinds>>

(* The run a request works on: the latest one, or 0, a new one of its own. *)
LatestRun == Len(runs)

Written(i, run) == IF i = 0 THEN Append(runs, run) ELSE [runs EXCEPT ![i] = run]

RunAt(i) == IF i = 0 THEN Started ELSE runs[i]

(* connect_token: reads the run, then writes status and connected_at *)
ConnectToken(r) == Begin(r, "connect", "connect")

ReadRun(r) ==
  /\ req[r].pc = "connect"
  /\ Set(r, [req[r] EXCEPT !.pc = "connected", !.run = LatestRun])
  /\ UNCHANGED <<versions, sessions, runs, faq, opened, kinds>>

CommitConnect(r) ==
  /\ req[r].pc = "connected"
  /\ runs' = Written(req[r].run, [RunAt(req[r].run) EXCEPT !.status = "token_connected",
                                                           !.connected = TRUE])
  /\ Answer(r)
  /\ UNCHANGED <<versions, sessions, faq, opened, kinds>>

(* run_sample_call: the session, the scripted turn, which commits, and the
   result.  Sessions that are not committed yet are "pending". *)
RunSampleCall(r) == Begin(r, "sample", "sample")

OpenSample(r) == req[r].pc = "sample" /\ NewSession(r, "sample_turn", "pending", LatestRun)

(* The commit of the turn has the new run and the session too. *)
SampleTurn(r) ==
  /\ req[r].pc = "sample_turn"
  /\ \E s \in AfterTurn(req[r].session) :
       sessions' = [s EXCEPT ![req[r].session].status = IF @ = "pending" THEN "created" ELSE @]
  /\ runs' = Written(req[r].run, RunAt(req[r].run))
  /\ Set(r, [req[r] EXCEPT !.pc = "sample_end",
                           !.run = IF @ = 0 THEN Len(runs) + 1 ELSE @])
  /\ UNCHANGED <<versions, faq, opened, kinds>>

BugSamplePasses(r) ==
  /\ req[r].pc = "sample_end"
  /\ runs' = Written(req[r].run, [RunAt(req[r].run) EXCEPT !.status = "test_call_passed",
                                    !.completed = TRUE, !.session = req[r].session])
  /\ Answer(r)
  /\ UNCHANGED <<versions, sessions, faq, opened, kinds>>

(* end_session and the run's result in one transaction *)
SamplePasses(r) ==
  /\ req[r].pc = "sample_end"
  /\ sessions' = Ending(sessions, req[r].session)
  /\ runs' = Written(req[r].run, [RunAt(req[r].run) EXCEPT !.status = "test_call_passed",
                                    !.completed = TRUE, !.session = req[r].session])
  /\ Answer(r)
  /\ UNCHANGED <<versions, faq, opened, kinds>>

(* The turn raises, before its commit or after it: the result is failed, the
   session is committed and stays open. *)
SampleFails(r) ==
  /\ req[r].pc \in {"sample_turn", "sample_end"} /\ "turn" \in Faults
  /\ sessions' = IF req[r].pc = "sample_turn" THEN Store(req[r].session, "created") ELSE sessions
  /\ runs' = Written(req[r].run, [RunAt(req[r].run) EXCEPT !.status = "test_call_failed"])
  /\ Answer(r)
  /\ UNCHANGED <<versions, faq, opened, kinds>>

-----------------------------------------------------------------------------
(* The demo. *)
Quickstart(r) == Begin(r, "quickstart", "open")
TrustLoop(r) == Begin(r, "trust_loop", "seed")

(* demo_chat and demo_voice without a session; a voice request without any
   text of the client or of the recognition does not get this far *)
Chat(r) == Begin(r, "chat", "open")

(* and with one: a terminal session is answered 409, an active one is taken as
   it is, *)
ChatAgain(r, id) ==
  /\ req[r].pc = "idle" /\ "chat" \in kinds
  /\ Status(id) \in {"created", "active", "handoff_pending"}
  /\ Set(r, [NoReq EXCEPT !.kind = "chat", !.session = id,
                          !.pc = IF Status(id) = "active" THEN "turn" ELSE "activate"])
  /\ UNCHANGED <<versions, sessions, runs, faq, opened, kinds>>

(* any other is made active, by an UPDATE that does not look at the status again,
   and its commit *)
ActivateSession(r) ==
  /\ req[r].pc = "activate"
  /\ sessions' = Store(req[r].session, "active")
  /\ Set(r, [req[r] EXCEPT !.pc = "turn"])
  /\ UNCHANGED <<versions, runs, faq, opened, kinds>>

(* _ensure_demo_session without an id; quickstart does the same *)
OpenSession(r) == req[r].pc = "open" /\ NewSession(r, "turn", "active", 0)

(* run_scripted_turn and commit; the trust loop goes on to its handoff *)
DemoTurn(r) ==
  /\ req[r].pc = "turn"
  /\ sessions' \in AfterTurn(req[r].session)
  /\ IF req[r].kind = "trust_loop" THEN Set(r, [req[r] EXCEPT !.pc = "handoff"]) ELSE Answer(r)
  /\ UNCHANGED <<versions, runs, faq, opened, kinds>>

(* The turn raises, or its state expired: quickstart ends its session, the
   others leave it as the turn did *)
DemoTurnFails(r) ==
  /\ req[r].pc = "turn" /\ Faults \cap {"turn", "state"} # {}
  /\ \E s \in AfterTurn(req[r].session) :
       sessions' = IF req[r].kind = "quickstart" THEN Ending(s, req[r].session) ELSE s
  /\ Answer(r)
  /\ UNCHANGED <<versions, runs, faq, opened, kinds>>

(* seed_demo_faq: the collection is looked for, *)
SeedRead(r) ==
  /\ req[r].pc = "seed"
  /\ Set(r, [req[r] EXCEPT !.pc = CASE faq.collections = 0 -> "collection"
                                    [] faq.collections > 0 /\ faq.documents = 0 -> "upload"
                                    [] OTHER -> "open"])
  /\ UNCHANGED <<versions, sessions, runs, faq, opened, kinds>>

BugSeedCollection(r) ==
  /\ req[r].pc = "collection"
  /\ Set(r, [req[r] EXCEPT !.pc = "upload", !.number = 1])
  /\ UNCHANGED <<versions, sessions, runs, faq, opened, kinds>>

(* created (uq_knowledge_collections_org_name), number = 1 while it is not
   committed, *)
SeedCollection(r) ==
  /\ req[r].pc = "collection"
  /\ \A o \in Req \ {r} : ~(req[o].pc = "upload" /\ req[o].number = 1)
  /\ IF faq.collections > 0 THEN Answer(r)
     ELSE Set(r, [req[r] EXCEPT !.pc = "upload", !.number = 1])
  /\ UNCHANGED <<versions, sessions, runs, faq, opened, kinds>>

(* and filled; one commit for both *)
SeedCommit(r) ==
  /\ req[r].pc = "upload"
  /\ faq' = [faq EXCEPT !.collections = @ + req[r].number, !.documents = @ + 1]
  /\ Set(r, [req[r] EXCEPT !.pc = "open", !.number = 0])
  /\ UNCHANGED <<versions, sessions, runs, opened, kinds>>

SeedFails(r) ==
  /\ req[r].pc = "upload" /\ "upload" \in Faults
  /\ Answer(r)
  /\ UNCHANGED <<versions, sessions, runs, faq, opened, kinds>>

(* An operator deletes the document of the FAQ through the knowledge API. *)
DeleteFaq ==
  /\ faq.documents > 0
  /\ faq' = [faq EXCEPT !.documents = 0, !.deleted = TRUE]
  /\ UNCHANGED <<versions, sessions, runs, opened, req, kinds>>

(* initiate_handoff at the end of the trust loop *)
TrustLoopHandoff(r) ==
  /\ req[r].pc = "handoff"
  /\ sessions' = Escalated(req[r].session)
  /\ Answer(r)
  /\ UNCHANGED <<versions, runs, faq, opened, kinds>>

(* The session is ended by its owner, through the API. *)
EndByOwner(id) ==
  /\ Status(id) \in {"created", "active", "handoff_pending"}
  /\ sessions' = Ending(sessions, id)
  /\ UNCHANGED <<versions, runs, faq, opened, req, kinds>>

(* The request is gone: its transaction is rolled back. *)
Crash(r) ==
  /\ "crash" \in Faults /\ req[r].pc # "idle"
  /\ sessions' = [i \in DOMAIN sessions |->
                    IF i = req[r].session /\ Status(i) = "pending"
                    THEN [sessions[i] EXCEPT !.status = "rolled_back"] ELSE sessions[i]]
  /\ Answer(r)
  /\ UNCHANGED <<versions, runs, faq, opened, kinds>>

-----------------------------------------------------------------------------
Step(r) ==
  \/ NextVersionNumber(r) \/ StartDeactivate(r) \/ DeactivateAll(r)
  \/ InsertVersion(r) \/ CommitVersion(r)
  \/ ReadRun(r) \/ CommitConnect(r)
  \/ OpenSample(r) \/ SampleTurn(r) \/ SamplePasses(r) \/ SampleFails(r)
  \/ OpenSession(r) \/ ActivateSession(r) \/ DemoTurn(r) \/ DemoTurnFails(r)
  \/ SeedRead(r) \/ SeedCollection(r) \/ SeedCommit(r) \/ SeedFails(r) \/ TrustLoopHandoff(r)

Call(r) ==
  \/ CreateVersion(r) \/ ApplyPreset(r) \/ Rollback(r)
  \/ StartOnboarding(r) \/ ConnectToken(r) \/ RunSampleCall(r)
  \/ Quickstart(r) \/ TrustLoop(r) \/ Chat(r)
  \/ \E id \in DOMAIN sessions : ChatAgain(r, id)

Next ==
  \/ \E r \in Req : Step(r) \/ Call(r) \/ Crash(r)
  \/ \E id \in DOMAIN sessions : EndByOwner(id)
  \/ DeleteFaq

Spec == Init /\ [][Next]_vars

-----------------------------------------------------------------------------
Configs == Contents \cup {"none"} \cup {Presets[slug] : slug \in DOMAIN Presets}

Version == [config : Configs, active : BOOLEAN]

Session ==
  [status : {"pending", "created", "active", "handoff_pending", "completed", "rolled_back"},
   handoff : BOOLEAN, overlap : BOOLEAN]

Run ==
  [status : {"started", "token_connected", "test_call_passed", "test_call_failed"},
   connected : BOOLEAN, completed : BOOLEAN, session : Nat]

Request ==
  [pc : {"idle", "number", "deactivate", "update", "insert", "commit", "connect", "connected",
         "sample", "sample_turn", "sample_end", "open", "activate", "turn", "handoff", "seed",
         "collection", "upload"},
   kind : {"none"} \cup ConfigKinds \cup OnboardingKinds \cup DemoKinds,
   config : Configs, activate : BOOLEAN, number : Nat, snapshot : SUBSET Nat, locked : SUBSET Nat,
   session : Nat, run : Nat]

TypeOK ==
  /\ versions \in Seq(Version)
  /\ sessions \in Seq(Session)
  /\ runs \in Seq(Run)
  /\ faq \in [collections : Nat, documents : Nat, deleted : BOOLEAN]
  /\ opened \in Nat
  /\ req \in [Req -> Request]
  /\ kinds \in Workloads

(* "At most one active version per org": concurrent requests that create,
   apply and roll back never leave two, because the number is read before the
   others are deactivated and the key makes the later of two fail. *)
OneActiveVersion == Cardinality(ActiveVersions) <= 1

(* An organization that has an active version keeps one, whatever fails, and a
   committed version never changes its content. *)
HistoryKept ==
  [][/\ ActiveVersions # {} => ActiveVersions' # {}
     /\ \A n \in DOMAIN versions :
          n \in DOMAIN versions' /\ versions'[n].config = versions[n].config]_vars

(* The FAQ of the demo is seeded once, however many visitors start the trust
   loop at the same time and whichever of them fail: the key of the collection
   also keeps the document single.  Only the collection is protected once an
   operator has deleted the document: two visitors may then both upload it. *)
FaqSeededOnce == faq.collections <= 1 /\ (faq.deleted \/ faq.documents <= 1)

(* An onboarding run whose sample call passed points to a session that was ended
   with it, and the session stays so, whatever else the organization does with
   it, except in two cases.  A chat that had read the session while it was open
   and activates it after the end writes "active" over it; and a turn that
   hands the session over writes its status without looking at it, as those
   who then work on the handoff do. *)
PassedMeansEnded ==
  \A i \in DOMAIN runs : runs[i].completed =>
    LET id == runs[i].session IN
      id # 0 /\ (Status(id) = "completed" \/ sessions[id].overlap \/ sessions[id].handoff)
=============================================================================
