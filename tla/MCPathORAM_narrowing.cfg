SPECIFICATION Spec
CONSTANTS
  Height = 2
  Z = 2
  ClientIds = {0, 4}
  Data <- ShortData
  Values = {}
  NoValue = NoValue
  Lost = Lost
  BlockSize = 2
  BatchSize = 0
  MapCapacity = 8
  StashCapacity = 3
  StorageCapacity = 4
  Uninitialised = {0}
  IntBits = 3
  WordBits = 8
  StorageMayFail = FALSE
PROPERTIES
  InsertedLeaveStash
