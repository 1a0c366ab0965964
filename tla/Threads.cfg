SPECIFICATION FairSpec
CONSTANTS
  Programs <- MCPrograms
  Names = {"main", "t1", "t2", "x"}
  Main = "main"
  OfC = {"x"}
  Mutexes = {"m"}
  Conditions = {"cv"}
  Channels = {"c1"}
INVARIANTS
  RuntimeStateOwned
  ChannelsReleased
PROPERTIES
  ThreadsFinish
CHECK_DEADLOCK FALSE
