\* One job, no faults: the participant leaves and rejoins.
SPECIFICATION FairSpec
CONSTANTS
  Jobs = {j1}
  QueueSize = 2
  Faults = {}
  MaxJoins = 2
PROPERTY
  RejoinKeepsSession
CHECK_DEADLOCK FALSE
