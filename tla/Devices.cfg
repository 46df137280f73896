SPECIFICATION DevicesSpec
CONSTANTS
  Byte = 4
  Word32 = 32
  heads = 2
  sectors = 2
  Words = 2
  Sizes = {2, 5}
  Addressing = {"lba", "chs"}
  Counts = {0, 1}
  LastStart = 4
  MaxRequests = 2
  MaxExchanges = 1
  Months = {0, 1}
  Days = {1, 2}
  UseSet = {TRUE, FALSE}
  RingSize = 3
  MaxBytes = 4
  Kinds = {"mmc", "sd1", "sd2", "sdhc"}
  Size = 4
  BlockBytes = 2
  MaxCount = 3
  MaxCalls = 3
  MaxPulls = 1
  Drives <- XtDrives
  Defaults <- XtDefaults
  Images <- XtImages
  Tree <- XtTree
  Home = "/XT"
  Root = "/"
  DirOf <- XtDirOf
  MaxFiles = 3
  MaxChanges = 2
  MaxBoots = 2
  DayLength = 2
INVARIANTS TypesOK SetDateKept CardLeftReady DateSurvives
PROPERTIES RequestsEnd ImplementsSectorDisk BytesInOrder CardImplementsSectorDisk
           ImplementsSettingsStore
CHECK_DEADLOCK FALSE
