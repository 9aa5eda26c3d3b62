\* c2 may never send or read, and its server may never answer.
SPECIFICATION FairSpec
CONSTANTS
  Thread = {c1, c2}
  Box = {b1, b2}
  NONE = NONE
  InitialSlots = 2
  MAX_CACHE_SIZE = 3
  MAX_OBJECT_SIZE = 20
  MAXBUF = 2
  Addresses = 2
  Fds = 4
  Fd <- MCFd
  Answers <- MCAnswers
  Silent = {c2}
  Impatient = {c1, c2}
PROPERTY EveryConnectionEnds
CHECK_DEADLOCK FALSE
