\* One request at a time, every lifecycle operation in every order, the key
\* lost between any two commands; sequence numbers up to 3, resumes from 0 or 2.
SPECIFICATION Spec
CONSTANTS
  Req = {r1}
  NoReq = NoReq
  KindsUsed = {"create", "activate", "resume", "end", "track", "heartbeat",
               "interrupt", "hpending", "hactive", "hclear"}
  Faults = {"loss"}
  LastSeq = 2
  MaxSeq = 3
INVARIANT
  PhaseFollowsStatus
PROPERTY
  SequenceMonotone
