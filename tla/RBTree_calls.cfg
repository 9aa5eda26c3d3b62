\* Every call, with a key that is there twice: what it returns, and that it does.
CONSTANTS
  Key = {1, 2, 3, 4, 5}
  Doubled = {2}
  Node <- MCNode
  AddressFor <- MCAddressFor
  nil = nil
  NULL = NULL
SPECIFICATION FairSpec
INVARIANT
  ToArraySorted
PROPERTIES
  ImplementsBag
  CallReturns
