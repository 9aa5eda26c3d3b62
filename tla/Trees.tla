------------------------------- MODULE Trees -------------------------------
(***************************************************************************)
(* Binary_Tree/Q1 .. Q8_E_BT.c: their functions and their mains.           *)
(*                                                                         *)
(* createTree asks for one node after the other, so that it is one action  *)
(* for the root and one for the two children of each node it pops.         *)
(***************************************************************************)
EXTENDS NodeHeap

CONSTANTS Value,           \* integers a user may enter
          MaxNodes         \* bound: the most nodes the trees of a main have

NotCreating == [var |-> NULL, root |-> NULL, stk |-> <<>>]
(* "Any Alpha value will be treated as NULL."                               *)
Input == Value \cup {NULL}

IntegerMax == 2147483647

(* The children of a node that are there.                                  *)
Kids(h, n, order) == SelectSeq([k \in 1 .. 2 |-> h[n][order[k]]], LAMBDA c : c # NULL)

RECURSIVE TreeNodes(_, _)
TreeNodes(h, n) ==
  IF n = NULL THEN {} ELSE {n} \cup TreeNodes(h, h[n].left) \cup TreeNodes(h, h[n].right)

RECURSIVE printTree(_, _)
printTree(h, n) ==
  IF n = NULL THEN <<>>
  ELSE printTree(h, h[n].left) \o <<h[n].item>> \o printTree(h, h[n].right)

(* Mutant: it forgets the subtree on the right.                            *)
RECURSIVE LeftSpine(_, _)
LeftSpine(h, n) == IF n = NULL THEN {} ELSE {n} \cup LeftSpine(h, h[n].left)
removeAllLeft(m, r) == [Freed(m, LeftSpine(m.heap, m.root[r])) EXCEPT !.root[r] = NULL]

removeAll(m, r) == [Freed(m, TreeNodes(m.heap, m.root[r])) EXCEPT !.root[r] = NULL]

RemoveBoth(m) == removeAll(removeAll(m, "root1"), "root2")

createBTNode(m, item) == Stored(m, Malloc(m), [item |-> item, left |-> NULL, right |-> NULL])

----------------------------------------------------------------------------
(* createTree *)

TreeRoom(m, inputs) ==
  Cardinality(DOMAIN m.heap) + Cardinality({k \in DOMAIN inputs : inputs[k] # NULL}) <= MaxNodes

(* The choice that creates a tree removes the old one first; main's root   *)
(* is assigned when createTree returns.                                    *)
Creates(choice, r) ==
  LET cleared == removeAll(mem, r)
  IN  \E item \in Input :
        IF item = NULL THEN Becomes(cleared, choice, <<<<>>>>)
        ELSE /\ TreeRoom(cleared, <<item>>)
             /\ mem' = createBTNode(cleared, item)
             /\ creating' = [var |-> r, root |-> Malloc(cleared), stk |-> <<Malloc(cleared)>>]
             /\ shown' = <<choice>>
             /\ UNCHANGED <<program, local, phase>>

(* m with a child of parent for the input, and the child's address.        *)
WithChild(m, parent, side, input) ==
  IF input = NULL THEN m
  ELSE LET a == Malloc(m) IN [createBTNode(m, input) EXCEPT !.heap[parent][side] = a]

(* A round of createTree's loop; after the last one main prints the tree.  *)
createTree ==
  /\ creating # NotCreating
  /\ LET temp == Head(creating.stk)
     IN  \E left, right \in Input :
           LET m == WithChild(WithChild(mem, temp, "left", left), temp, "right", right)
               stk == Kids(m.heap, temp, <<"left", "right">>) \o Tail(creating.stk)
           IN  /\ TreeRoom(mem, <<left, right>>)
               /\ IF stk # <<>>
                  THEN mem' = m /\ creating' = [creating EXCEPT !.stk = stk] /\ UNCHANGED shown
                  ELSE /\ mem' = [m EXCEPT !.root[creating.var] = creating.root]
                       /\ creating' = NotCreating
                       /\ shown' = shown \o <<printTree(m.heap, creating.root)>>
  /\ UNCHANGED <<program, local, phase>>

----------------------------------------------------------------------------
(* The functions of the exercises *)

RECURSIVE identical(_, _, _)
identical(h, tree1, tree2) ==
  IF tree1 = NULL /\ tree2 = NULL THEN TRUE
  ELSE IF tree1 = NULL \/ tree2 = NULL THEN FALSE
  ELSE /\ h[tree1].item = h[tree2].item
       /\ identical(h, h[tree1].left, h[tree2].left)
       /\ identical(h, h[tree1].right, h[tree2].right)

Larger(a, b) == IF a > b THEN a ELSE b
Smaller(a, b) == IF a < b THEN a ELSE b

RECURSIVE maxHeight(_, _)
maxHeight(h, n) ==
  IF n = NULL THEN -1 ELSE 1 + Larger(maxHeight(h, h[n].left), maxHeight(h, h[n].right))

RECURSIVE countOneChildNodes(_, _)
countOneChildNodes(h, n) ==
  IF n = NULL THEN 0
  ELSE (IF (h[n].left = NULL) # (h[n].right = NULL) THEN 1 ELSE 0)
       + countOneChildNodes(h, h[n].left) + countOneChildNodes(h, h[n].right)

RECURSIVE sumOfOddNodes(_, _)
sumOfOddNodes(h, n) ==
  IF n = NULL THEN 0
  ELSE (IF h[n].item % 2 # 0 THEN h[n].item ELSE 0)
       + sumOfOddNodes(h, h[n].left) + sumOfOddNodes(h, h[n].right)

RECURSIVE mirrorTree(_, _)
mirrorTree(h, n) ==
  IF n = NULL THEN h
  ELSE LET below == mirrorTree(mirrorTree(h, h[n].left), h[n].right)
       IN  [below EXCEPT ![n].left = below[n].right, ![n].right = below[n].left]

RECURSIVE printSmallerValues(_, _, _)
printSmallerValues(h, n, m) ==
  IF n = NULL THEN <<>>
  ELSE (IF h[n].item < m THEN <<h[n].item>> ELSE <<>>)
       \o printSmallerValues(h, h[n].left, m) \o printSmallerValues(h, h[n].right, m)

RECURSIVE smallestValue(_, _)
smallestValue(h, n) ==
  IF n = NULL THEN IntegerMax
  ELSE Smaller(Smaller(h[n].item, smallestValue(h, h[n].right)), smallestValue(h, h[n].left))

(* The height it returns and what it prints.                               *)
RECURSIVE hasGreatGrandchild(_, _)
hasGreatGrandchild(h, n) ==
  IF n = NULL THEN [height |-> -1, out |-> <<>>]
  ELSE LET left == hasGreatGrandchild(h, h[n].left)
           right == hasGreatGrandchild(h, h[n].right)
           currentHeight == 1 + Larger(left.height, right.height)
       IN  [height |-> currentHeight,
            out |-> left.out \o right.out \o IF currentHeight >= 3 THEN <<h[n].item>> ELSE <<>>]

----------------------------------------------------------------------------
(* The mains of Binary_Tree.  A choice is read between two trees only.     *)

Answers1(output) == Becomes(removeAll(mem, "root1"), 2, output)

Q1_E_BT ==
  \/ Creates(1, "root1")
  \/ Creates(2, "root2")
  \/ Becomes(RemoveBoth(mem), 3,
              <<identical(mem.heap, mem.root["root1"], mem.root["root2"])>>)
  \/ Quits(RemoveBoth(mem))

(* The height is put into c, the variable the loop tests: height 0 ends the*)
(* program as choice 0 does.                                               *)
Q2_E_BT ==
  \/ Creates(1, "root1")
  \/ LET c == maxHeight(mem.heap, mem.root["root1"])
     IN  /\ mem' = removeAll(mem, "root1")
         /\ shown' = <<2, c>>
         /\ phase' = IF c = 0 THEN "quit" ELSE phase
         /\ UNCHANGED <<program, local, creating>>
  \/ Quits(removeAll(mem, "root1"))

Q3_E_BT ==
  \/ Creates(1, "root1")
  \/ Answers1(<<countOneChildNodes(mem.heap, mem.root["root1"])>>)
  \/ Quits(removeAll(mem, "root1"))

Q4_E_BT ==
  \/ Creates(1, "root1")
  \/ Answers1(<<sumOfOddNodes(mem.heap, mem.root["root1"])>>)
  \/ Quits(removeAll(mem, "root1"))

Q5_E_BT ==
  \/ Creates(1, "root1")
  \/ LET m == [mem EXCEPT !.heap = mirrorTree(@, mem.root["root1"])]
     IN  Becomes(removeAll(m, "root1"), 2, <<printTree(m.heap, mem.root["root1"])>>)
  \/ Quits(removeAll(mem, "root1"))

(* The value is asked for, and kept when the answer is not an integer.     *)
Q6_E_BT ==
  \/ Creates(1, "root1")
  \/ \E input \in Input :
       LET value == IF input = NULL THEN local ELSE input
       IN  /\ mem' = removeAll(mem, "root1")
           /\ local' = value
           /\ shown' = <<2, value, printSmallerValues(mem.heap, mem.root["root1"], value)>>
           /\ UNCHANGED <<program, creating, phase>>
  \/ Quits(removeAll(mem, "root1"))

Q7_E_BT ==
  \/ Creates(1, "root1")
  \/ Answers1(<<smallestValue(mem.heap, mem.root["root1"])>>)
  \/ Quits(removeAll(mem, "root1"))

Q8_E_BT ==
  \/ Creates(1, "root1")
  \/ Answers1(<<hasGreatGrandchild(mem.heap, mem.root["root1"]).out>>)
  \/ Quits(removeAll(mem, "root1"))

TreePrograms == {"Q1_E_BT", "Q2_E_BT", "Q3_E_BT", "Q4_E_BT", "Q5_E_BT", "Q6_E_BT", "Q7_E_BT", "Q8_E_BT"}

TreeTurn ==
  /\ creating = NotCreating
  /\ \/ program = "Q1_E_BT" /\ Q1_E_BT
     \/ program = "Q2_E_BT" /\ Q2_E_BT
     \/ program = "Q3_E_BT" /\ Q3_E_BT
     \/ program = "Q4_E_BT" /\ Q4_E_BT
     \/ program = "Q5_E_BT" /\ Q5_E_BT
     \/ program = "Q6_E_BT" /\ Q6_E_BT
     \/ program = "Q7_E_BT" /\ Q7_E_BT
     \/ program = "Q8_E_BT" /\ Q8_E_BT
=============================================================================
