SPECIFICATION Spec
CONSTANTS
  Req = {r1, r2, r3}
  Contents = {"b"}
  Presets <- MCPresets
  Slugs = {"strict", "unknown"}
  Workloads <- MCWorkloads
  Faults = {"turn", "state", "upload", "crash"}
  MaxVersions = 2
  MaxSessions = 2
SYMMETRY Perms
INVARIANTS
  OneActiveVersion
  FaqSeededOnce
  PassedMeansEnded
PROPERTY
  HistoryKept
CHECK_DEADLOCK FALSE
