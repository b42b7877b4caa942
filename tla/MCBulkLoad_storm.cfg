SPECIFICATION FairLoadSpec
CONSTANTS
  Height = 1
  Z = 1
  ClientIds = {0, 1, 2}
  Data <- AnyData
  NoValue = NoValue
  Lost = Lost
  BlockSize = 2
  BatchSize = 2
  MapCapacity = 2
  StashCapacity = 1
  StorageCapacity = 2
  Uninitialised = {0}
  IntBits = 8
  WordBits = 8
  StorageMayFail = TRUE
  LoadSize = 3
  UndefinedLeaf = {0, 5}
PROPERTIES
  ImplementsLoadedBlockStore
  CallEnds
