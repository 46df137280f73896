SPECIFICATION Spec
CONSTANTS
  Byte = 4
  Word32 = 32
  heads = 2
  sectors = 2
  Words = 2
  Sizes = {2, 5}
  Addressing = {"lba", "chs", "chs zero"}
  Counts = {0, 1}
  LastStart = 5
  MaxRequests = 1
  MaxExchanges = 1
PROPERTIES StaysOnDisk
CHECK_DEADLOCK FALSE
