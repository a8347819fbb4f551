\* Two jobs of one session, a queue of one frame, a participant who joins
\* twice, every fault; one job at a time is busy with audio, and one is hit.
SPECIFICATION FairSpec
CONSTANTS
  Jobs = {j1, j2}
  QueueSize = 1
  Faults = {"dispatch", "setup", "redis", "db", "stt", "turn", "job", "stop"}
  MaxJoins = 2
CONSTRAINT
  FewAtOnce
INVARIANT
  JobSettles
PROPERTY
  StopEnds
CHECK_DEADLOCK FALSE
