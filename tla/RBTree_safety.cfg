\* Eight nodes: all cases of both rebuilds, on both sides, more than one round.
CONSTANTS
  Key = {1, 2, 3, 4, 5, 6, 7, 8}
  Doubled = {}
  Node <- MCNode
  AddressFor <- MCAddressFor
  nil = nil
  NULL = NULL
SPECIFICATION Spec
INVARIANTS
  TypeOK
  ParentLinks
  SentinelIntact
  AllReachable
  DeleteFreesAll
  SearchOrder
  NoRedRed
  BlackBalanced
