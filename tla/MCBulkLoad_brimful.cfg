SPECIFICATION LoadSpec
CONSTANTS
  Height = 2
  Z = 1
  ClientIds = {0, 1, 2, 3}
  Data <- ShortData
  NoValue = NoValue
  Lost = Lost
  BlockSize = 2
  BatchSize = 0
  MapCapacity = 4
  StashCapacity = 3
  StorageCapacity = 5
  Uninitialised = {0}
  IntBits = 8
  WordBits = 8
  StorageMayFail = FALSE
  LoadSize = 4
  UndefinedLeaf = {0, 5}
PROPERTIES
  LoadKeepsInvariant
