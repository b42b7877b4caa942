SPECIFICATION RecursiveSpec
CONSTANTS
  Height = 2
  Z = 1
  ClientIds = {0, 4}
  Data <- FullData
  Values = {v1, v2}
  NoValue = NoValue
  Lost = Lost
  BlockSize = 2
  BatchSize = 1
  MapCapacity = 5
  StashCapacity = 3
  StorageCapacity = 4
  Uninitialised = {2}
  IntBits = 8
  WordBits = 8
  StorageMayFail = FALSE
  MapMayFail = TRUE
INVARIANTS
  BlockOnItsPath
  CopiesAgree
PROPERTIES
  ImplementsForgetfulBlockStore
SYMMETRY ValueSymmetry
