SPECIFICATION Spec
CONSTANTS
  Height = 2
  Z = 1
  ClientIds = {0, 1}
  Data <- FullData
  Values = {v1, v2}
  NoValue = NoValue
  Lost = Lost
  BlockSize = 2
  BatchSize = 0
  MapCapacity = 4
  StashCapacity = 3
  StorageCapacity = 4
  Uninitialised = {0}
  IntBits = 8
  WordBits = 8
  StorageMayFail = TRUE
INVARIANTS
  BlockOnItsPath
  CopiesAgree
PROPERTIES
  ImplementsBlockStore
SYMMETRY ValueSymmetry
