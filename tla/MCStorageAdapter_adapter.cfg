SPECIFICATION Spec
CONSTANTS
  Capacity = 2
  Buckets = {zero, full}
  Malformed = {bad}
  Zero = zero
  Unread = Unread
  Absent = Absent
  Adapters <- Sound
  RequestSize = 3
INVARIANTS
  TypeOK
  NotifiedOfAll
PROPERTIES
  ImplementsBucketStore
