SPECIFICATION FairSpec
CONSTANTS
  NULL = NULL
  CRASH = CRASH
  SERVICES_VIRTUAL_DIR = "services"
  Registered <- MCRegistered
  Files <- MCFiles
  Profiler = "ffmpeg"
  Hash <- MCHash
  UINT32 = 64
  INT32 = 64
  ControlPoints = {1, 2}
  Databases <- MCDatabases
  Interfaces <- MCInterfaces
  AnyFile = "song"
  MaxPlayers = 1
  Scenarios <- MCScenarios
INVARIANTS
  RestoredAsKept
  PagesCoverChildren
  AnnouncedIsServed
  DescribedAnswers
PROPERTIES
  StaysAsAsked
  EveryRequestEnds
CHECK_DEADLOCK FALSE
