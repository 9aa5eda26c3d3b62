\* One answer that is larger than the buffer.
SPECIFICATION Spec
CONSTANTS
  Thread = {c1, c2}
  Box = {b1, b2}
  NONE = NONE
  InitialSlots = 10
  MAX_CACHE_SIZE = 256
  MAX_OBJECT_SIZE = 25
  MAXBUF = 2
  Addresses = 2
  Fds = 4
  Fd <- MCFd
  Answers <- MCAnswers
  Silent = {}
  Impatient = {}
INVARIANT WholeAnswer
CHECK_DEADLOCK FALSE
