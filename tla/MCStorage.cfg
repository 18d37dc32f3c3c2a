SPECIFICATION StorageSpec
CONSTANTS
  Keys = {1, 2}
  NumLevels = 4
  L0Trigger = 2
  MaxMemLevel = 1
  L0Inputs = 2
  Checked = FALSE
  Bounds <- SmallBounds
  MaxStarts = 3
  MaxOps = 2
  MaxJobs = 1
  Repairs = TRUE
  ReplayWriters = {w1, w2}
  ReplayPlans <- MCReplayPlans
  ReplayPasses = 1
  BlockSize = 8
  HeaderSize = 3
  Adders = {a1, a2, a3}
  Sizes = {0, 12}
  MaxBadWrites = 1
  TableKeys <- MCTableKeys
  TableSeqs = {1, 2}
  MaxSeq = 3
  MaxByte = 3
  TableLimit = 3
  Layouts <- MCLayouts
  MinBits = 8
  HashBits = 5
  HashRotate = 3
  BloomHash <- MCHash
  Datasets <- MCDatasets
  CursorKeys = {1, 2, 3}
  Snapshots = {2, 3}
  CacheKeys = {1, 2, 3}
  Charge <- MCCharge
  Capacity = 3
  Clients = {c1, c2}
  Handles = {h1, h2, h3, h4, h5}
  GroupBits = 3
  Short = 2
  Long = 4
  BatchKeys <- MCBatchKeys
  BatchValues <- MCBatchValues
  BatchOps = 3
  BatchStarts = {4090}
  EditLevels = 2
  EditNumbers = {0, 8, 65535}
  EditSizes = {300}
  EditKeys <- MCEditKeys
  EditFields = 2
  Dbs = {"db"}
  Iters = {"iterator"}
  Snaps = {"snapshot"}
  DbParts <- MCParts
  Opts = "options"
  ChildLimit = 1
  Lengths = {0, 5, 8}
  ElementSizes = {1, 2, 4}
  DebugBuild = FALSE
  MaxReads = 5
INVARIANTS
  FilesOnDisk TombstonesKept RangeCompacted
  AckedRecoverable SequenceFresh ReplayOfMem
  LogSound TableSound CursorSound CacheSound
  BatchSound EditSound HandlesSound ArraySound
PROPERTY OnlyCutsMislead
CHECK_DEADLOCK FALSE
