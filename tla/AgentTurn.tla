----------------------------- MODULE AgentTurn ------------------------------
(***************************************************************************)
(* The turns of one voice session: _process_turn of the pipeline with the  *)
(* generator it drives (the LangGraph agents, the deterministic mock graph *)
(* or the plain conversation engine), the tools, the memory, the           *)
(* evaluation, the escalation and the outcome.                             *)
(*                                                                         *)
(* Everything a turn stores goes into one database transaction, tx, which  *)
(* the turn commits at its end; the history the agents read is memory of   *)
(* the process, phase and failure counter are in Redis.  A turn meets      *)
(* interrupts, failing models, tools, speech synthesis, Redis and          *)
(* database, and a new job that takes the session over.                    *)
(***************************************************************************)
EXTENDS ToolRegistry, TurnPolicy

CONSTANTS
  ActiveModes,        \* modes the active agent configuration may name, "none" without one
  MockModels,         \* whether the model is the mock one: a set of Booleans
  Transcripts,        \* sets of phrase classes a user may say
  ModelAnswers,       \* answers the model may give, of Drafts
  Confidences,        \* confidences of the speech recognition
  Judgements,         \* scores of the hallucination judge
  LatencySamples,     \* end-to-end times in milliseconds
  Configs,            \* session configurations
  Settings,           \* the settings used here, as a record
  CallerScopes,       \* scopes of the caller
  TurnFaults,         \* which of "llm", "tts", "redis", "db", "embed", "job" fail
  MaxIterations,      \* max_agent_iterations
  MaxToolIterations,  \* max_tool_iterations
  SummarizeAfter,     \* memory_summarize_after_messages
  MaxRecent,          \* memory_max_recent_messages
  HistoryPage,        \* default limit of get_messages
  MaxFailures,        \* bound: the counter of failed tools
  MaxCalls,           \* bound: calls of tools in a turn
  MaxTurns,           \* bound: turns, and changes of the tools, of a behaviour
  MaxJobs             \* bound: jobs that serve the session

ASSUME TurnAssumption ==
  /\ MaxIterations \in Nat /\ MaxToolIterations \in Nat
  /\ SummarizeAfter \in Nat /\ MaxRecent \in Nat \ {0} /\ HistoryPage \in Nat
  /\ ModelAnswers \subseteq Drafts
  /\ MockModels \subseteq BOOLEAN
  /\ Judgements \subseteq Int
  /\ MaxFailures \in Nat

VARIABLES
  mode, config,   \* the generator and the configuration of the session
  pc,             \* where the turn is
  turn,           \* turns so far
  cur,            \* locals of the turn and of the graph's state
  irq,            \* _interrupt_event of the turn
  history,        \* _history of the generator, without the system message
  trace,          \* _traces of the generator: the last graph run that ended
  tx, db,         \* the database as the transaction sees it, and as committed
  broken,         \* the transaction had an error and is not rolled back
  redis,          \* phase and failure counter of the session's state
  jobs,           \* jobs that served the session
  died            \* ghost: a turn of this job ended with an exception

turnVars == <<mode, config, pc, turn, cur, irq, history, trace, tx, db, broken, redis, jobs, died>>

agentVars == <<registry, turnVars>>

Policy == LoadEscalationPolicy(config, Settings)

Message(role) == [turn |-> turn, role |-> role]

NoTurn ==
  [phrases |-> {}, stt |-> 0, prompt |-> <<>>, iteration |-> 0, rounds |-> 0,
   draft |-> "none", blocked |-> FALSE, steps |-> EmptyTrace, answer |-> "none",
   text |-> "none", interrupted |-> FALSE, e2e |-> NoSignal, hallucination |-> NoSignal,
   escalated |-> FALSE]

EmptyDb ==
  [rows |-> <<>>, entries |-> <<>>, summary |-> [count |-> 0, covers |-> {}], evaluation |-> "none",
   outcome |-> [turn |-> 0, escalation |-> FALSE, success |-> FALSE],
   status |-> "active", handoff |-> FALSE]

(* What is said and remembered; a turn of 0 marks the messages of the system
   in a prompt. *)
Messages == [turn : Nat \ {0}, role : {"user", "assistant", "system"}]

Prompts == Messages \cup [turn : {0}, role : {"prompt", "summary", "memory", "knowledge"}]

Traces ==
  [ok : Nat, bad : Nat, critical : BOOLEAN, critic : {"none", "completed", "revised"}]

Turns ==
  [phrases : Transcripts \cup {{}}, stt : Confidences \cup {0}, prompt : Seq(Prompts),
   iteration : Nat, rounds : Nat, draft : Drafts, blocked : BOOLEAN, steps : Traces,
   answer : Answers, text : Answers, interrupted : BOOLEAN, e2e : LatencySamples \cup {NoSignal},
   hallucination : 0 .. 100 \cup {NoSignal}, escalated : BOOLEAN]

Databases ==
  [rows : Seq(Messages), entries : Seq(Messages),
   summary : [count : Nat, covers : SUBSET Messages],
   evaluation : {"none", "passed", "warning", "failed"},
   outcome : [turn : Nat, escalation : BOOLEAN, success : BOOLEAN],
   status : {"active", "handoff_pending"}, handoff : BOOLEAN]

Labels ==
  {"idle", "begin", "remember", "speaking", "context", "single", "planner", "executor",
   "critic", "coordinator", "speak", "answer", "store", "evaluate", "escalate", "outcome",
   "close", "dead"}

(* The state of the graph, the rows, the prompt, the history and the counters of a
   turn stay what their readers expect, through every fault. *)
TurnTypeOK ==
  /\ mode \in {"single", "mock", "multi_agent"} /\ config \in Configs
  /\ pc \in Labels
  /\ turn \in Nat /\ jobs \in Nat
  /\ cur \in Turns
  /\ history \in Seq(Messages)
  /\ trace \in Traces
  /\ tx \in Databases /\ db \in Databases
  /\ redis \in [phase : {"listening", "processing", "speaking", "handoff_pending"},
                failures : 0 .. MaxFailures]
  /\ {irq, broken, died} \subseteq BOOLEAN

(* effective_orchestrator_mode: the session's choice, the active version's,
   the settings' *)
EffectiveOrchestratorMode(active, session) ==
  CASE Get(session, "orchestrator", "none") \in {"single", "multi_agent"} -> session.orchestrator
    [] Get(session, "orchestrator", "none") \notin {"single", "multi_agent"} /\ active # "none"
         -> active
    [] OTHER -> Settings.orchestrator_mode

(* create_response_generator; the orchestrator compiles the mock graph for the
   mock model *)
CreateResponseGenerator(m, mock) ==
  CASE m # "multi_agent" -> "single"
    [] m = "multi_agent" /\ mock -> "mock"
    [] OTHER -> "multi_agent"

(* bootstrap_session_agent_config, once per session: the active version does
   not change during a behaviour. *)
Bootstrap ==
  \E session \in Configs, active \in ActiveModes, mock \in MockModels :
    /\ config = session
    /\ mode = CreateResponseGenerator(EffectiveOrchestratorMode(active, session), mock)

TurnInit ==
  /\ RegistryInit
  /\ Bootstrap
  /\ pc = "idle" /\ turn = 0 /\ cur = NoTurn /\ irq = FALSE
  /\ history = <<>> /\ trace = EmptyTrace
  /\ tx = EmptyDb /\ db = EmptyDb /\ broken = FALSE
  /\ redis = [phase |-> "listening", failures |-> 0]
  /\ jobs = 1 /\ died = FALSE

Goto(l) == pc' = l

-----------------------------------------------------------------------------
(* Memory. *)
StoreEntry(d, role) == [d EXCEPT !.entries = Append(@, Message(role))]

UpsertSummary(d, count, covers) == [d EXCEPT !.summary = [count |-> count, covers |-> covers]]

(* _maybe_summarize: count_turns counts turns only, list_entries takes that
   many of the latest entries of any type. *)
Summarized(d) ==
  LET count == Cardinality({i \in DOMAIN d.entries : d.entries[i].role # "system"})
      latest == SubSeq(d.entries, Len(d.entries) - count + 1, Len(d.entries))
  IN IF count < SummarizeAfter THEN d
     ELSE StoreEntry(UpsertSummary(d, count, {e \in Range(latest) : e.role # "system"}), "system")

(* store_turn: only an assistant's turn may lead to a summary. *)
StoreTurn(d, role) ==
  IF role = "assistant" THEN Summarized(StoreEntry(d, role)) ELSE StoreEntry(d, role)

System(kind) == [turn |-> 0, role |-> kind]

BugTail(messages) == SubSeq(messages, 1, Min({Len(messages), MaxRecent}))

(* The tail of ContextBuilder.build. *)
Tail_(messages) ==
  SubSeq(messages, Max({1, Len(messages) - MaxRecent + 1}), Len(messages))

(* The turns of the session that are similar to the question: the user's
   message itself, which was stored just before, always is. *)
SearchSimilar(d) ==
  IF \E e \in Range(d.entries) : e.role # "system" THEN <<System("memory")>> ELSE <<>>

(* retrieve_context *)
RetrieveContext(d) ==
  (IF d.summary.count > 0 THEN <<System("summary")>> ELSE <<>>) \o SearchSimilar(d)

(* ContextBuilder.build *)
BuildMessages == <<System("prompt")>> \o RetrieveContext(tx) \o Tail_(history)

IsSystem(m) == m.turn = 0

(* KnowledgeContextBuilder.enrich_messages: before the first message that is
   not a system message. *)
EnrichMessages(messages, found) ==
  LET at == SelectInSeq(messages, LAMBDA m : ~IsSystem(m))
  IN IF found THEN InsertAt(messages, at, System("knowledge")) ELSE messages

-----------------------------------------------------------------------------
(* The user speaks, a final transcript starts a turn. *)
Utter ==
  /\ pc = "idle" /\ Started /\ turn + hot < MaxTurns
  /\ \E phrases \in Transcripts, stt \in Confidences :
       cur' = [NoTurn EXCEPT !.phrases = phrases, !.stt = stt]
  /\ turn' = turn + 1
  /\ irq' = FALSE
  /\ Goto("begin")
  /\ UNCHANGED <<mode, config, history, trace, tx, db, broken, redis, jobs, died>>

SaveMessage(d, role) == [d EXCEPT !.rows = Append(@, Message(role))]

(* update_phase(PROCESSING), save_user_message *)
SaveUserMessage ==
  /\ pc = "begin" /\ ~broken
  /\ redis' = [redis EXCEPT !.phase = "processing"]
  /\ tx' = SaveMessage(tx, "user")
  /\ Goto("remember")
  /\ UNCHANGED <<mode, config, turn, cur, irq, history, trace, db, broken, jobs, died>>

(* memory.store_turn, add_user_message *)
RememberUser ==
  /\ pc = "remember" /\ ~broken
  /\ tx' = StoreTurn(tx, "user")
  /\ history' = Append(history, Message("user"))
  /\ Goto("speaking")
  /\ UNCHANGED <<mode, config, turn, cur, irq, trace, db, broken, redis, jobs, died>>

(* update_phase(SPEAKING) *)
StartSpeaking ==
  /\ pc = "speaking"
  /\ redis' = [redis EXCEPT !.phase = "speaking"]
  /\ Goto("context")
  /\ UNCHANGED <<mode, config, turn, cur, irq, history, trace, tx, db, broken, jobs, died>>

(* build_messages_for_llm and enrich_messages, then the generator *)
BuildContext ==
  /\ pc = "context" /\ ~broken
  /\ \E found \in BOOLEAN :
       cur' = [cur EXCEPT !.prompt = EnrichMessages(BuildMessages, found)]
  /\ Goto(IF mode = "single" THEN "single" ELSE "planner")
  /\ UNCHANGED <<mode, config, turn, irq, history, trace, tx, db, broken, redis, jobs, died>>

(* ConversationEngine.generate_response: one stream, no agents, no trace *)
SingleAnswer ==
  /\ pc = "single"
  /\ \E draft \in ModelAnswers : cur' = [cur EXCEPT !.answer = draft, !.prompt = <<>>]
  /\ Goto("speak")
  /\ UNCHANGED <<mode, config, turn, irq, history, trace, tx, db, broken, redis, jobs, died>>

-----------------------------------------------------------------------------
(* The nodes of the graph. *)
(* planner, safety and route_after_safety: the plan itself is text for the
   executor; an answer of the safety agent that is no JSON passes, the mock
   graph always does *)
PlanAndCheck ==
  /\ pc = "planner"
  /\ \/ /\ cur' = [cur EXCEPT !.rounds = 0, !.prompt = <<>>]
        /\ Goto("executor")
     \/ /\ mode # "mock"
        /\ cur' = [cur EXCEPT !.blocked = TRUE, !.prompt = <<>>]
        /\ Goto("coordinator")
  /\ UNCHANGED <<mode, config, turn, irq, history, trace, tx, db, broken, redis, jobs, died>>

(* initiate_handoff, from the tool or from the policy: once per session *)
InitiateHandoff(d) == [d EXCEPT !.handoff = TRUE, !.status = "handoff_pending"]

PhaseAfterHandoff(phase) == IF tx.handoff THEN phase ELSE "handoff_pending"

(* What initiate_handoff leaves in the transaction when it ends with an
   exception or is cancelled: the rows it wrote so far, from the record up to
   the status of the session.  Nobody rolls them back. *)
CutShort(d) ==
  IF d.handoff THEN {d} ELSE {d, [d EXCEPT !.handoff = TRUE], InitiateHandoff(d)}

(* ToolRouter.execute within the loop of the executor.  The row of the
   call is left out, nothing reads it; handoff_to_human hands the session
   over, and a failure or a timeout of it is a result like any other. *)
ExecuteTool(name, status) ==
  LET refused == Refused(name, CallerScopes)
      handover == /\ ~refused /\ name = "handoff_to_human"
                  /\ name \in DOMAIN Handlers \ DOMAIN index
  IN /\ status \in IF refused THEN {"error"} ELSE ExecuteStatuses(name)
     /\ \/ /\ handover
           /\ tx' = IF tx.handoff THEN tx ELSE InitiateHandoff(tx)
           /\ redis' = [redis EXCEPT !.phase = PhaseAfterHandoff(@)]
        \/ /\ handover /\ status # "success"
           /\ tx' \in CutShort(tx)
           /\ UNCHANGED redis
        \/ ~handover /\ UNCHANGED <<tx, redis>>

(* executor: the model asks for a tool, in the same answer as the call before
   or in the next one; after max_tool_iterations + 1 answers with calls the
   draft is the text of the last one *)
CallTool ==
  /\ pc = "executor" /\ mode = "multi_agent" /\ ~broken
  /\ cur.steps.ok + cur.steps.bad < MaxCalls
  /\ \E name \in ToolNames, status \in {"success", "error", "timeout"} :
       /\ ExecuteTool(name, status)
       /\ LET called == [cur EXCEPT !.steps = TraceTool(@, name, status)]
          IN \/ /\ cur' = called
                /\ Goto("executor")
             \/ /\ cur.rounds < MaxToolIterations
                /\ cur' = [called EXCEPT !.rounds = @ + 1]
                /\ Goto("executor")
             \/ /\ cur.rounds = MaxToolIterations
                /\ \E draft \in ModelAnswers :
                     cur' = [called EXCEPT !.draft = draft, !.rounds = 0]
                /\ Goto("critic")
  /\ UNCHANGED <<mode, config, turn, irq, history, trace, db, broken, jobs, died>>

(* executor: the model answers *)
DraftAnswer ==
  /\ pc = "executor" /\ mode = "multi_agent"
  /\ \E draft \in ModelAnswers :
       cur' = [cur EXCEPT !.draft = draft, !.rounds = 0]
  /\ Goto("critic")
  /\ UNCHANGED <<mode, config, turn, irq, history, trace, tx, db, broken, redis, jobs, died>>

(* executor of the mock graph: the knowledge base lookup if it is listed,
   then the answer of the mock model, never empty *)
MockExecutor ==
  /\ pc = "executor" /\ mode = "mock" /\ ~broken
  /\ \E draft \in ModelAnswers \ {"none"} :
       LET drafted == [cur EXCEPT !.draft = draft]
           lookup == "knowledge_base_lookup"
       IN \/ /\ lookup \in DOMAIN Handlers \cup DOMAIN index \cup support
             /\ \E status \in {"success", "error", "timeout"} :
                  /\ ExecuteTool(lookup, status)
                  /\ cur' = [drafted EXCEPT !.steps = TraceTool(@, lookup, status)]
          \/ /\ lookup \notin DOMAIN Handlers \cup DOMAIN index \cup support
             /\ cur' = drafted
             /\ UNCHANGED <<tx, redis>>
  /\ Goto("critic")
  /\ UNCHANGED <<mode, config, turn, irq, history, trace, db, broken, jobs, died>>

BugNextIteration(approved) == cur.iteration

(* The iteration counter the critic writes. *)
NextIteration(approved) == cur.iteration + (IF approved THEN 0 ELSE 1)

(* critic and route_after_critic *)
CriticNode ==
  /\ pc = "critic"
  /\ \E approved \in IF mode = "mock" THEN {TRUE} ELSE BOOLEAN :
       /\ cur' = [cur EXCEPT !.iteration = NextIteration(approved),
                  !.steps = TraceCritic(@, IF approved THEN "completed" ELSE "revised")]
       /\ Goto(IF approved \/ NextIteration(approved) >= MaxIterations
               THEN "coordinator" ELSE "planner")
  /\ UNCHANGED <<mode, config, turn, irq, history, trace, tx, db, broken, redis, jobs, died>>

BugFinalResponse == IF cur.draft # "none" THEN cur.draft ELSE "refusal"

(* coordinator, and the fallback of generate_response: the refusal of the
   safety agent, the draft, or the apology for an empty one *)
FinalResponse ==
  CASE cur.blocked -> "refusal"
    [] ~cur.blocked /\ cur.draft # "none" -> cur.draft
    [] OTHER -> "apology"

(* The state of the graph is gone when its run is over. *)
Generated ==
  [cur EXCEPT !.prompt = <<>>, !.iteration = 0, !.rounds = 0, !.draft = "none",
              !.steps = EmptyTrace]

CoordinatorNode ==
  /\ pc = "coordinator"
  /\ trace' = cur.steps
  /\ cur' = [Generated EXCEPT !.answer = FinalResponse]
  /\ Goto("speak")
  /\ UNCHANGED <<mode, config, turn, irq, history, tx, db, broken, redis, jobs, died>>

(* An exception of the generator: caught by the pipeline as a failure of the
   synthesis.  The trace of an earlier turn stays the last one. *)
GenerationFails ==
  /\ pc \in {"context", "planner", "executor", "critic", "single"}
  /\ "llm" \in TurnFaults \/ broken
  /\ cur' = [Generated EXCEPT !.blocked = FALSE]
  /\ Goto("answer")
  /\ UNCHANGED <<mode, config, turn, irq, history, trace, tx, db, broken, redis, jobs, died>>

-----------------------------------------------------------------------------
(* Tokens and sentences: all of the answer, as much as the interrupt let
   through, or as much as was synthesized before it failed. *)
SpeakAll ==
  /\ pc = "speak" /\ ~irq
  /\ \E e2e \in LatencySamples :
       cur' = [cur EXCEPT !.text = cur.answer,
                          !.e2e = IF cur.answer = "none" THEN NoSignal ELSE e2e]
  /\ Goto("answer")
  /\ UNCHANGED <<mode, config, turn, irq, history, trace, tx, db, broken, redis, jobs, died>>

SpeakInterrupted ==
  /\ pc = "speak" /\ irq
  /\ \E text \in {"none", "plain", cur.answer} :
       cur' = [cur EXCEPT !.text = text, !.interrupted = TRUE]
  /\ Goto("answer")
  /\ UNCHANGED <<mode, config, turn, irq, history, trace, tx, db, broken, redis, jobs, died>>

SpeakFails ==
  /\ pc = "speak" /\ "tts" \in TurnFaults /\ cur.answer # "none"
  /\ \E text \in {"plain", cur.answer} : cur' = [cur EXCEPT !.text = text]
  /\ Goto("answer")
  /\ UNCHANGED <<mode, config, turn, irq, history, trace, tx, db, broken, redis, jobs, died>>

(* interrupt(): it may come at any time of the turn, the event is only read
   while tokens and sentences are spoken *)
Interrupt ==
  /\ pc = "speak" /\ ~irq
  /\ irq' = TRUE
  /\ UNCHANGED <<mode, config, pc, turn, cur, history, trace, tx, db, broken, redis, jobs, died>>

-----------------------------------------------------------------------------
BugRecordAnswer ==
  /\ pc = "answer" /\ ~broken
  /\ history' = IF cur.text = "none" THEN history ELSE Append(history, Message("assistant"))
  /\ tx' = IF cur.text = "none" \/ cur.interrupted THEN tx
           ELSE SaveMessage(tx, "assistant")
  /\ Goto("store")
  /\ UNCHANGED <<mode, config, turn, cur, irq, trace, db, broken, redis, jobs, died>>

(* add_assistant_message, save_assistant_message: if anything was said *)
RecordAnswer ==
  /\ pc = "answer" /\ ~broken
  /\ history' = IF cur.text = "none" THEN history ELSE Append(history, Message("assistant"))
  /\ tx' = IF cur.text = "none" THEN tx
           ELSE SaveMessage(tx, "assistant")
  /\ Goto("store")
  /\ UNCHANGED <<mode, config, turn, cur, irq, trace, db, broken, redis, jobs, died>>

(* memory.store_turn of the answer, save_turn_metrics *)
StoreAnswer ==
  /\ pc = "store" /\ ~broken
  /\ tx' = IF cur.text = "none" THEN tx ELSE StoreTurn(tx, "assistant")
  /\ Goto("evaluate")
  /\ UNCHANGED <<mode, config, turn, cur, irq, history, trace, db, broken, redis, jobs, died>>

(* evaluate_turn: the scores of the turn in one run *)
Scores(judge) ==
  {LatencyScore(cur.e2e, Settings.e2e_target), TaskCompletionScore(cur.text, cur.interrupted),
   ToolAccuracyScore(trace), QualityScore(cur.text),
   CostScore(Settings.turn_cost, Settings.turn_budget), HallucinationScore(cur.text, judge)}

(* Of the saved runs the last one is kept. *)
SaveRun(d, judge) == [d EXCEPT !.evaluation = OverallStatus(Scores(judge))]

EvaluateTurn ==
  /\ pc = "evaluate" /\ ~broken
  /\ \E judge \in Judgements :
       /\ tx' = SaveRun(tx, judge)
       /\ cur' = [cur EXCEPT !.hallucination = HallucinationScore(cur.text, judge),
                             !.e2e = NoSignal, !.answer = "none", !.blocked = FALSE]
  /\ Goto("escalate")
  /\ UNCHANGED <<mode, config, turn, irq, history, trace, db, broken, redis, jobs, died>>

(* track_tool_failures: the failed steps of the last trace; the counter is
   kept up to MaxFailures, beyond which no policy tells it apart *)
TrackedFailures ==
  IF trace.bad > 0 THEN Min({redis.failures + trace.bad, MaxFailures}) ELSE 0

BugDecision ==
  IF cur.text = "none" THEN "none"
  ELSE Evaluate(TurnContext(cur.phrases, cur.interrupted, cur.stt, trace, cur.hallucination,
                            TrackedFailures), Policy)

Decision ==
  Evaluate(TurnContext(cur.phrases, cur.interrupted, cur.stt, trace, cur.hallucination,
                       TrackedFailures), Policy)

(* The escalation of the turn. *)
Escalate ==
  /\ pc = "escalate" /\ ~broken
  /\ LET escalate == Decision # "none"
     IN /\ redis' = [phase |-> IF escalate THEN PhaseAfterHandoff(redis.phase) ELSE redis.phase,
                     failures |-> TrackedFailures]
        /\ tx' = IF escalate /\ ~tx.handoff THEN InitiateHandoff(tx) ELSE tx
        /\ cur' = [cur EXCEPT !.escalated = escalate, !.hallucination = NoSignal]
  /\ Goto("outcome")
  /\ UNCHANGED <<mode, config, turn, irq, history, trace, db, broken, jobs, died>>

(* One row per session, overwritten. *)
UpsertSessionOutcome(d, o) ==
  [d EXCEPT !.outcome = [turn |-> turn, escalation |-> o.escalation, success |-> o.success]]

(* record_outcome, commit *)
RecordOutcome ==
  /\ pc = "outcome" /\ ~broken
  /\ tx' = UpsertSessionOutcome(tx, DeriveOutcome(cur.text, cur.interrupted, cur.escalated))
  /\ db' = tx'
  /\ Goto("close")
  /\ UNCHANGED <<mode, config, turn, cur, irq, history, trace, broken, redis, jobs, died>>

(* clear_interrupt, update_phase(LISTENING).  The event of the turn stays as it
   is; the next turn makes a new one, so irq starts over. *)
CloseTurn ==
  /\ pc = "close"
  /\ redis' = [redis EXCEPT !.phase = "listening"]
  /\ cur' = NoTurn /\ irq' = FALSE
  /\ Goto("idle")
  /\ UNCHANGED <<mode, config, turn, history, trace, tx, db, broken, jobs, died>>

-----------------------------------------------------------------------------
(* Exceptions nobody catches inside the turn: Redis, an embedding or a
   summary, a statement on a broken transaction.  A handoff that fails after
   the failures were counted leaves what it wrote to the next commit. *)
FaultsAt(l) ==
  CASE l \in {"begin", "speaking", "close"} -> {"redis"}
    [] l \in {"remember", "store", "evaluate"} -> {"embed"}
    [] l = "escalate" -> {"redis"}
    [] OTHER -> {}

TurnDies ==
  /\ \/ FaultsAt(pc) \cap TurnFaults # {}
     \/ broken /\ pc \in {"begin", "answer"}
  /\ tx' \in IF pc = "escalate" /\ Decision # "none" THEN CutShort(tx) ELSE {tx}
  /\ redis' = IF tx' = tx THEN redis ELSE [redis EXCEPT !.failures = TrackedFailures]
  /\ died' = TRUE
  /\ cur' = NoTurn /\ irq' = FALSE
  /\ Goto("dead")
  /\ UNCHANGED <<mode, config, turn, history, trace, db, broken, jobs>>

(* A statement fails: the session of the database is unusable until it is
   rolled back, which a job never does.  Inside the generator the exception
   is caught and the next statement fails, elsewhere the turn dies; the
   phase is written before the message or the read of the configuration, the
   answer is in the history before it is saved. *)
DatabaseFails ==
  /\ "db" \in TurnFaults /\ ~broken
  /\ broken' = TRUE
  /\ redis' = [redis EXCEPT !.phase = CASE pc = "begin" -> "processing"
                                        [] pc = "speaking" -> "speaking"
                                        [] OTHER -> @]
  /\ \/ /\ pc \in {"context", "executor"}
        /\ cur' = [Generated EXCEPT !.blocked = FALSE]
        /\ Goto("answer")
        /\ UNCHANGED <<irq, history, died>>
     \/ /\ pc \in {"begin", "remember", "speaking", "answer", "store", "evaluate",
                  "escalate", "outcome"}
        /\ history' = IF pc = "answer" /\ cur.text # "none"
                      THEN Append(history, Message("assistant")) ELSE history
        /\ died' = TRUE
        /\ cur' = NoTurn /\ irq' = FALSE
        /\ Goto("dead")
  /\ UNCHANGED <<mode, config, turn, trace, tx, db, jobs>>

(* run_listening reported the error; the loop of the LiveKit runner listens
   again with the same transaction *)
Relisten ==
  /\ pc = "dead"
  /\ Goto("idle")
  /\ UNCHANGED <<mode, config, turn, cur, irq, history, trace, tx, db, broken, redis, jobs, died>>

(* load_history: the first page of the saved messages *)
LoadHistory(rows) == SubSeq(rows, 1, Min({Len(rows), HistoryPage}))

(* The job dies at any point and another one takes the session: what was not
   committed is rolled back, activate_session, the history is loaded. *)
NewJob ==
  /\ "job" \in TurnFaults /\ jobs < MaxJobs
  /\ jobs' = jobs + 1
  /\ db' = [db EXCEPT !.status = "active"]
  /\ tx' = db'
  /\ redis' = IF db.status = "active" THEN redis ELSE [redis EXCEPT !.phase = "listening"]
  /\ history' = LoadHistory(db.rows)
  /\ trace' = EmptyTrace
  /\ broken' = FALSE /\ died' = FALSE
  /\ cur' = NoTurn /\ irq' = FALSE
  /\ Goto("idle")
  /\ UNCHANGED <<mode, config, turn>>

Generation ==
  \/ BuildContext \/ SingleAnswer \/ PlanAndCheck \/ CallTool \/ DraftAnswer
  \/ MockExecutor \/ CriticNode \/ CoordinatorNode \/ GenerationFails

TurnStep ==
  \/ SaveUserMessage \/ RememberUser \/ StartSpeaking
  \/ Generation
  \/ SpeakAll \/ SpeakInterrupted \/ SpeakFails
  \/ RecordAnswer \/ StoreAnswer \/ EvaluateTurn \/ Escalate \/ RecordOutcome \/ CloseTurn
  \/ TurnDies

(* Deadlock is checked: a session whose turns are used up rests. *)
Rest == pc = "idle" /\ turn + hot >= MaxTurns /\ UNCHANGED turnVars

(* The registry is filled before the first session and changed by the
   hot-plug hooks, which no code calls during a turn. *)
TurnNext ==
  \/ pc = "idle" /\ RegistryNext /\ UNCHANGED turnVars
  \/ (TurnStep \/ Utter \/ Interrupt \/ DatabaseFails \/ Relisten \/ NewJob \/ Rest)
       /\ UNCHANGED registry

TurnSpec == TurnInit /\ [][TurnNext]_agentVars

(* A turn that can go on does: model calls return or raise, tools time out. *)
FairTurnSpec == TurnSpec /\ WF_agentVars(TurnStep /\ UNCHANGED registry)

-----------------------------------------------------------------------------
(* The safety agent's refusal stands: once it blocked a plan, in whichever
   round of planning, no draft of an earlier round is spoken. *)
RefusalStands ==
  cur.blocked => cur.answer \in {"none", "refusal"} /\ pc # "executor"

(* s is t without some of its elements. *)
Subsequence(s, t) ==
  \E at \in [DOMAIN s -> DOMAIN t] :
    \A i \in DOMAIN s : s[i] = t[at[i]] /\ \A j \in 1 .. i - 1 : at[j] < at[i]

(* What the agents remember is what is saved: the history is part of the saved
   transcript, in order, unless the transaction is broken.  Between the turns of
   a job of which none failed it is the first page of the k messages that the
   job found (load_history), and all that was committed since. *)
HistoryIsTranscript ==
  /\ ~broken => Subsequence(history, tx.rows)
  /\ pc = "idle" /\ ~died =>
       \E k \in 0 .. Len(db.rows) :
         history = LoadHistory(SubSeq(db.rows, 1, k)) \o SubSeq(db.rows, k + 1, Len(db.rows))

(* Every prompt ends with what the user just said, and the context that is
   added to it comes before the conversation. *)
PromptEndsWithQuestion ==
  cur.prompt # <<>> =>
    /\ Last(cur.prompt) = Message("user")
    /\ \A i, j \in DOMAIN cur.prompt :
         IsSystem(cur.prompt[j]) /\ ~IsSystem(cur.prompt[i]) => j < i

(* A user who asks for a human gets a handoff with the commit of that turn,
   whether or not the models, the tools or the synthesis worked. *)
RequestIsEscalated ==
  pc = "close" /\ Policy.fallback /\ Detect(cur.phrases, Policy.explicit) => db.handoff

(* A turn ends: the agents do not plan, call tools and criticize forever. *)
TurnEnds == pc = "begin" ~> pc \in {"idle", "dead"}
=============================================================================
