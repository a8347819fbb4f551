\* Two turns of a session, two rounds of planning, two calls of tools in the
\* first turn and one in the second, every fault, a second job that loads less
\* than the first has saved.
SPECIFICATION FairTurnSpec
CONSTANTS
  ToolNames = {"knowledge_base_lookup", "handoff_to_human"}
  Handlers <- MCHandlers
  Internal = {"knowledge_base_lookup"}
  Configured <- MCConfigured
  HotConfigs <- MCHot
  LiveTools <- MCLiveTools
  DiscoveryOn = TRUE
  MaxHot = 1
  ActiveModes = {"none", "single"}
  MockModels = {TRUE, FALSE}
  Transcripts = {{"explicit"}, {"frustration"}}
  ModelAnswers = {"none", "plain"}
  Confidences = {95}
  Judgements = {90}
  LatencySamples = {1500}
  Configs <- MCConfigs
  Settings <- MCSettings
  CallerScopes = {"handoffs:write"}
  TurnFaults = {"llm", "tts", "redis", "db", "job"}
  MaxIterations = 2
  MaxToolIterations = 1
  SummarizeAfter = 3
  MaxRecent = 2
  HistoryPage = 1
  MaxFailures = 2
  MaxCalls = 2
  MaxTurns = 2
  MaxJobs = 2
CONSTRAINT FewCalls
INVARIANTS
  RefusalStands
  HistoryIsTranscript
  PromptEndsWithQuestion
  RequestIsEscalated
  RegistryRoutes
PROPERTY
  TurnEnds
