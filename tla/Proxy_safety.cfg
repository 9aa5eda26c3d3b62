\* Three threads are the fewest that can find the array full.
SPECIFICATION Spec
CONSTANTS
  Thread = {c1, c2, c3}
  Box = {b1, b2, b3}
  NONE = NONE
  InitialSlots = 2
  MAX_CACHE_SIZE = 3
  MAX_OBJECT_SIZE = 20
  MAXBUF = 2
  Addresses = 2
  Fds = 5
  Fd <- MCFd
  Answers <- MCAnswers
  Silent = {}
  Impatient = {}
SYMMETRY Interchangeable
INVARIANTS TypeOK DescriptorsOwned BoxesOwned EntryWhole
PROPERTY ImplementsRelay
CHECK_DEADLOCK FALSE
