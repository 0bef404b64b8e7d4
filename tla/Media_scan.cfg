SPECIFICATION Spec
CONSTANTS
  NULL = NULL
  CRASH = CRASH
  Registered <- MCRegistered
  Files <- MCFiles
  Profiler = "ffmpeg"
INVARIANTS
  KeepsItsProfile
  ClaimedOnce
CHECK_DEADLOCK FALSE
