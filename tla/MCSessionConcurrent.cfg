\* Two requests in flight at any time, one after the other without end: every
\* pair of statements of two requests meets, with every fault in between.
\* Sequence numbers, which nothing here depends on, are those of session_sequential.
SPECIFICATION FairSpec
CONSTANTS
  Req = {r1, r2}
  NoReq = NoReq
  KindsUsed = {"create", "activate", "resume", "end", "hclear", "track"}
  Faults = {"redis", "crash", "loss"}
  LastSeq = 0
  MaxSeq = 0
PROPERTIES
  OnlyOverlapRevives
  OnlyOverlapRebuilds
  
