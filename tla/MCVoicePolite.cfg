\* A client that starts, talks and ends, and starts again when its session is
\* over, pinging and interrupting: three sessions on one socket, two turns each,
\* a queue of two frames.
SPECIFICATION FairSpec
CONSTANTS
  Msgs = {"start", "audio", "end", "interrupt", "ping"}
  Faults = {"refuse", "db", "pipeline", "redis"}
  MaxStarts = 3
  MaxTurns = 2
  QMax = 2
INVARIANT
  SocketConsistent

  
