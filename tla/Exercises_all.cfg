\* Every program with every input up to the bounds.
CONSTANTS
  Addr = {1, 2, 3, 4, 5, 6, 7, 8, 9, 10}
  NULL = NULL
  MaxItems = 5
  MaxLost = 1
  Item = {1, 2, 3}
  Expressions <- MCExpressions
  Value = {1, 2}
  MaxNodes = 5
  Program <- MCPrograms
  Deviating = {"Q3_A_LL", "Q1_C_SQ", "Q2_C_SQ", "Q3_C_SQ", "Q2_E_BT", "Q6_C_SQ", "Q2_F_BST"}
  Leaky = {"Q7_C_SQ", "Q4_F_BST"}
SPECIFICATION Spec
CHECK_DEADLOCK FALSE
INVARIANTS
  ChainsWhole
  NothingLost
  TraversalOrders
PROPERTY
  ImplementsAnswers
