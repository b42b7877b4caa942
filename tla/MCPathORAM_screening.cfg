SPECIFICATION Spec
CONSTANTS
  Height = 2
  Z = 1
  ClientIds = {0, 4, 5}
  Data <- AnyData
  Values = {}
  NoValue = NoValue
  Lost = Lost
  BlockSize = 2
  BatchSize = 1
  MapCapacity = 5
  StashCapacity = 1
  StorageCapacity = 5
  Uninitialised = {1, 9, 254, 255}
  IntBits = 8
  WordBits = 8
  StorageMayFail = FALSE
INVARIANTS
  TypeOK
  BlockOnItsPath
  PathInStash
  CopiesAgree
PROPERTIES
  ImplementsBlockStore
