SPECIFICATION Spec
CONSTANTS
  Height = 3
  Z = 1
  ClientIds = {0, 1}
  Data <- ShortData
  Values = {}
  NoValue = NoValue
  Lost = Lost
  BlockSize = 2
  BatchSize = 2
  MapCapacity = 8
  StashCapacity = 3
  StorageCapacity = 8
  Uninitialised = {0}
  IntBits = 8
  WordBits = 8
  StorageMayFail = FALSE
INVARIANTS
  OneCopy
  StashWaitsForRoot
  PrefetchCoversBatch
PROPERTIES
  ImplementsBlockStore
