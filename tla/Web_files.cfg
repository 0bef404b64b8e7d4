CONSTANTS
  NULL = NULL
  SERVICES_VIRTUAL_DIR = "services"
  Conns = {1, 2}
  Scenarios <- MCScenarios
  Docs = {1, 2}
  DocLength = 2
  InitialFiles <- MCFiles
  Virtual <- MCVirtual
  WEB_SERVER_BUF_SIZE = 2
  MaxContentLength = 9
SPECIFICATION FairSpec
INVARIANTS
  CountedDocumentStays
  DownloadIsWhole
PROPERTY EveryCallReturns
CHECK_DEADLOCK FALSE
