SPECIFICATION Spec
CONSTANTS
  Capacity = 2
  Buckets = {zero, full}
  Malformed = {bad}
  Zero = zero
  Unread = Unread
  Absent = Absent
  Adapters <- Silent
  RequestSize = 2
PROPERTIES
  SetWrites
