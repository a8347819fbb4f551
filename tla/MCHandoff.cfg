\* Four requests by two agents, all overlapping: two accepts, a close and an
\* end, a duplicate initiation, a failed turn with an activation, each failing
\* at any statement; two accepts and one request of every other kind.
SPECIFICATION Spec
CONSTANTS
  Req = {r1, r2, r3, r4}
  Agents = {a1, a2}
  NoReq = NoReq
  NoAgent = NoAgent
SYMMETRY Symmetry
CONSTRAINT FewOfAKind
INVARIANTS
  SessionFollowsHandoff
  OneAgentWins
  CloseIsFinal
  RecordsAgree
  NoWaitCycle
PROPERTY
  ImplementsLifecycle
