\* A client that sends anything at any time: two starts are enough for a task
\* the loop lost sight of and one it holds.
SPECIFICATION Spec
CONSTANTS
  Msgs = {"start", "restart", "resume", "audio", "end", "interrupt", "ping"}
  Faults = {"refuse", "db", "bootstrap", "send", "pipeline", "redis", "cleanup"}
  MaxStarts = 2
  MaxTurns = 2
  QMax = 2
PROPERTY
  EndedSessionIsQuiet
