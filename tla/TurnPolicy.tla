----------------------------- MODULE TurnPolicy -----------------------------
(***************************************************************************)
(* What the pipeline computes from a finished turn: the scores of the      *)
(* evaluators, the context of the escalation policy and its decision, and  *)
(* the outcome of the session.  Scores and confidences are percentages,    *)
(* NoSignal stands for None.                                               *)
(*                                                                         *)
(* Text is abstracted to what these functions look for.  A transcript is   *)
(* the set of phrase classes it contains.  An answer is one of Answers:    *)
(* nothing, the refusal of the safety agent, the apology for an empty      *)
(* result, or a draft that claims success, promises a transfer or does     *)
(* neither.  A trace is what its readers count: the tool steps that        *)
(* succeeded and failed, whether a critical one is named among them, and   *)
(* the status of its first critic step.                                    *)
(***************************************************************************)
EXTENDS Integers, FiniteSets, FiniteSetsExt

NoSignal == -1

Drafts == {"none", "solved", "transfer", "plain"}
Answers == Drafts \cup {"refusal", "apology"}

EmptyTrace == [ok |-> 0, bad |-> 0, critical |-> FALSE, critic |-> "none"]

CriticalTools == {"knowledge_base_lookup", "ticket_lookup", "handoff_to_human"}

(* The name context.py gives a failed step: the trace of the graph has no
   "tool" key, so it is the summary, which starts with the tool's name. *)
StepName(tool) == [tool |-> tool, summary |-> TRUE]

IsCritical(name) == ~name.summary /\ name.tool \in CriticalTools

TraceTool(trace, tool, status) ==
  IF status = "success" THEN [trace EXCEPT !.ok = @ + 1]
  ELSE [trace EXCEPT !.bad = @ + 1, !.critical = @ \/ IsCritical(StepName(tool))]

TraceCritic(trace, status) ==
  [trace EXCEPT !.critic = IF @ = "none" THEN status ELSE @]

-----------------------------------------------------------------------------
(* Evaluators. *)
StatusFromScore(score) ==
  CASE score >= 80 -> "passed"
    [] score >= 50 /\ score < 80 -> "warning"
    [] OTHER -> "failed"

Clip(score) == Max({0, Min({100, score})})

(* target and e2e in milliseconds *)
LatencyScore(e2e, target) ==
  CASE e2e = NoSignal -> 0
    [] e2e # NoSignal /\ e2e <= target -> 100
    [] OTHER -> Clip(100 - ((e2e - target) * 100) \div target)

TaskCompletionScore(text, interrupted) ==
  CASE interrupted -> 30
    [] ~interrupted /\ text # "none" -> 100
    [] OTHER -> 0

ToolAccuracyScore(trace) ==
  IF trace.ok + trace.bad = 0 THEN 100 ELSE (trace.ok * 100) \div (trace.ok + trace.bad)

QualityScore(text) == IF text = "none" THEN 0 ELSE 100

CostScore(cost, budget) == Clip(100 - (cost * 100) \div budget)

(* judge is the score the judge gives, NoSignal when it is unavailable or
   its answer cannot be parsed. *)
HallucinationScore(text, judge) ==
  CASE text = "none" -> 0
    [] text # "none" /\ judge = NoSignal -> 50
    [] OTHER -> Clip(judge)

OverallStatus(scores) ==
  LET statuses == {StatusFromScore(s) : s \in scores}
  IN CASE "failed" \in statuses -> "failed"
       [] "failed" \notin statuses /\ "warning" \in statuses -> "warning"
       [] OTHER -> "passed"

-----------------------------------------------------------------------------
(* Escalation. *)
Get(config, key, default) == IF key \in DOMAIN config THEN config[key] ELSE default

(* load_escalation_policy: the session's configuration, then its tool_config
   (for fallback_to_human), then the settings. *)
LoadEscalationPolicy(config, settings) ==
  LET tools == Get(config, "tool_config", <<>>)
  IN [fallback |-> Get(config, "fallback_to_human", Get(tools, "fallback_to_human", TRUE)),
      min |-> Get(config, "min_confidence", settings.min_confidence),
      onTool |-> Get(config, "escalate_on_tool_failure", settings.escalate_on_tool_failure),
      maxFailures |-> Get(config, "max_tool_failures", settings.max_tool_failures),
      onCritical |-> Get(config, "escalate_on_critical_tool_failure", TRUE),
      explicit |-> Get(config, "require_explicit_request", FALSE)]

(* UserRequestDetector.detect *)
Detect(phrases, require_explicit) ==
  \/ "explicit" \in phrases
  \/ ~require_explicit /\ phrases \cap {"transfer", "frustration"} # {}

(* build_turn_handoff_context *)
TurnContext(phrases, interrupted, stt, trace, hallucination, consecutive) ==
  [phrases |-> phrases,
   interrupted |-> interrupted,
   failures |-> trace.bad,
   consecutive |-> consecutive,
   critical |-> trace.critical,
   signals |->
     [critic_approved |-> CASE trace.critic = "none" -> NoSignal
                            [] trace.critic = "completed" -> 100
                            [] OTHER -> 0,
      hallucination_score |-> hallucination,
      tool_success_ratio |-> IF trace.ok + trace.bad = 0 THEN NoSignal
                             ELSE (trace.ok * 100) \div (trace.ok + trace.bad),
      stt_confidence |-> stt,
      kb_top_similarity |-> NoSignal]]

SignalWeights ==
  [critic_approved |-> 30, hallucination_score |-> 25, tool_success_ratio |-> 20,
   stt_confidence |-> 15, kb_top_similarity |-> 10]

(* compute_confidence_score, as the comparison evaluate makes with it: the
   weighted mean of the signals there are is below the threshold. *)
BelowThreshold(signals, min) ==
  LET known == {k \in DOMAIN SignalWeights : signals[k] # NoSignal}
      weighted == MapThenSumSet(LAMBDA k : signals[k] * SignalWeights[k], known)
      total == MapThenSumSet(LAMBDA k : SignalWeights[k], known)
  IN known # {} /\ weighted < min * total

(* HandoffPolicyEngine.evaluate: the trigger, in the order of its tests. *)
Evaluate(ctx, policy) ==
  LET requested == Detect(ctx.phrases, policy.explicit)
      tool == \/ policy.onCritical /\ ctx.critical
              \/ policy.onTool /\ ctx.failures > 0
              \/ policy.onTool /\ ctx.consecutive >= policy.maxFailures
      low == BelowThreshold(ctx.signals, policy.min)
  IN CASE ~policy.fallback -> "none"
       [] policy.fallback /\ requested -> "user_request"
       [] policy.fallback /\ ~requested /\ tool -> "tool_failure"
       [] policy.fallback /\ ~requested /\ ~tool /\ low -> "confidence_threshold"
       [] policy.fallback /\ ~requested /\ ~tool /\ ~low /\ ctx.interrupted -> "policy"
       [] OTHER -> "none"

-----------------------------------------------------------------------------
(* OutcomeExtractionService: escalated is the flag in the metadata. *)
DeriveEscalation(text, interrupted, escalated) ==
  escalated \/ interrupted \/ text = "transfer"

DeriveTaskSuccess(text, interrupted, escalation) ==
  ~interrupted /\ ~escalation /\ text = "solved"

DeriveOutcome(text, interrupted, escalated) ==
  LET escalation == DeriveEscalation(text, interrupted, escalated)
  IN [escalation |-> escalation, success |-> DeriveTaskSuccess(text, interrupted, escalation)]
=============================================================================
