\* Two clients that come back, with every fault; c1 may not read.
CONSTANTS
  MAXLINE = 3
  RIO_BUFSIZE = 3
  c1 = c1
  c2 = c2
  Client = {c1, c2}
  NONE = NONE
  Deaf = {c1}
  Scripts <- MCScripts
  Addresses <- MCAddresses
  Disks <- MCDisks
  Faults = {"fin", "reset", "edit", "io"}
SPECIFICATION Spec
CHECK_DEADLOCK FALSE
INVARIANTS
  TypeOK
  StreamIntact
  AnswersAfterHeader
  NothingHeld
  OwnAnswer
PROPERTY
  EveryoneAccepted
