----------------------------- MODULE SearchTrees -----------------------------
(***************************************************************************)
(* Binary_Search_Tree/Q1 .. Q5_F_BST.c: traversals with an explicit stack  *)
(* or queue, each run by its program on one tree.  The stacks and queues   *)
(* of a traversal are sequences of nodes, the top or head first; every loop*)
(* ends with them empty, so that pop and dequeue have freed all they held. *)
(***************************************************************************)
EXTENDS Trees

(* Mutant: the children are queued the other way round.                    *)
RECURSIVE LevelRightFirst(_, _)
LevelRightFirst(h, q) ==
  IF q = <<>> THEN <<>>
  ELSE <<h[Head(q)].item>> \o
       LevelRightFirst(h, Tail(q) \o Kids(h, Head(q), <<"right", "left">>))

RECURSIVE LevelFrom(_, _)
LevelFrom(h, q) ==
  IF q = <<>> THEN <<>>
  ELSE <<h[Head(q)].item>> \o LevelFrom(h, Tail(q) \o Kids(h, Head(q), <<"left", "right">>))

levelOrderTraversal(h, root) == IF root = NULL THEN <<>> ELSE LevelFrom(h, <<root>>)

(* The nodes from n down to the left, deepest first, on top of the stack.  *)
RECURSIVE PushLeft(_, _, _)
PushLeft(h, n, stk) == IF n = NULL THEN stk ELSE PushLeft(h, h[n].left, <<n>> \o stk)

RECURSIVE InOrderFrom(_, _, _)
InOrderFrom(h, curNode, stk) ==
  IF curNode = NULL /\ stk = <<>> THEN <<>>
  ELSE LET pushed == PushLeft(h, curNode, stk)
           n == Head(pushed)
       IN  <<h[n].item>> \o InOrderFrom(h, h[n].right, Tail(pushed))

inOrderTraversal(h, root) == InOrderFrom(h, root, <<>>)

RECURSIVE PreOrderFrom(_, _)
PreOrderFrom(h, stk) ==
  IF stk = <<>> THEN <<>>
  ELSE <<h[Head(stk)].item>> \o
       PreOrderFrom(h, Kids(h, Head(stk), <<"left", "right">>) \o Tail(stk))

preOrderIterative(h, root) == IF root = NULL THEN <<>> ELSE PreOrderFrom(h, <<root>>)

(* What s1 moves to s2, the last on top.                                   *)
RECURSIVE ToSecondStack(_, _, _)
ToSecondStack(h, s1, s2) ==
  IF s1 = <<>> THEN s2
  ELSE ToSecondStack(h, Kids(h, Head(s1), <<"right", "left">>) \o Tail(s1), <<Head(s1)>> \o s2)

postOrderIterativeS1(h, root) ==
  LET s2 == IF root = NULL THEN <<>> ELSE ToSecondStack(h, <<root>>, <<>>)
  IN  [k \in DOMAIN s2 |-> h[s2[k]].item]

(* Q5_F_BST.c empties its two stacks first, new as they are.               *)
postOrderIterativeS2(h, root) ==
  IF root = NULL THEN <<>>
  ELSE LET s2 == ToSecondStack(h, <<root>>, <<>>)
       IN  [k \in 1 .. Len(s2) |-> h[s2[k]].item]

----------------------------------------------------------------------------
(* The programs *)

(* m with value below node n of the tree root1, or as its root.            *)
RECURSIVE InsertBelow(_, _, _)
InsertBelow(m, n, value) ==
  LET side == IF value < m.heap[n].item THEN "left" ELSE "right"
  IN  IF value = m.heap[n].item THEN m
      ELSE IF m.heap[n][side] = NULL THEN WithChild(m, n, side, value)
      ELSE InsertBelow(m, m.heap[n][side], value)

insertBSTNode(m, value) ==
  IF m.root["root1"] = NULL THEN [createBTNode(m, value) EXCEPT !.root["root1"] = Malloc(m)]
  ELSE InsertBelow(m, m.root["root1"], value)

Built(values) == FoldLeft(insertBSTNode, mem, values)

(* main runs the test (choice 3 of a menu in comments) and returns.        *)
Finishes(m, output) ==
  /\ mem' = m
  /\ shown' = <<3>> \o output
  /\ phase' = "quit"
  /\ UNCHANGED <<program, local, creating>>

Q1_F_BST_runTestTree ==
  LET m == Built(<<20, 15, 50, 10, 18, 25, 80>>)
  IN  Finishes(removeAll(m, "root1"), <<levelOrderTraversal(m.heap, m.root["root1"])>>)

Q2_F_BST_runTest ==
  LET m == Built(<<20, 15, 50, 10, 18>>)
  IN  Finishes(removeAll(m, "root1"), <<inOrderTraversal(m.heap, m.root["root1"])>>)

Q3_F_BST_runTest ==
  LET m == Built(<<20, 15, 50, 10, 18, 25, 80>>)
  IN  Finishes(removeAll(m, "root1"), <<preOrderIterative(m.heap, m.root["root1"])>>)

(* The only test that does not remove its tree.                            *)
Q4_F_BST_runTest ==
  LET m == Built(<<20, 15, 50, 10, 18, 25, 80>>)
  IN  Finishes([m EXCEPT !.root["root1"] = NULL],
               <<postOrderIterativeS1(m.heap, m.root["root1"])>>)

Q5_F_BST_runTest ==
  LET m == Built(<<20, 15, 50, 10, 18, 25, 80>>)
  IN  Finishes(removeAll(m, "root1"), <<postOrderIterativeS2(m.heap, m.root["root1"])>>)

SearchTreePrograms == {"Q1_F_BST", "Q2_F_BST", "Q3_F_BST", "Q4_F_BST", "Q5_F_BST"}

SearchTreeTurn ==
  \/ program = "Q1_F_BST" /\ Q1_F_BST_runTestTree
  \/ program = "Q2_F_BST" /\ Q2_F_BST_runTest
  \/ program = "Q3_F_BST" /\ Q3_F_BST_runTest
  \/ program = "Q4_F_BST" /\ Q4_F_BST_runTest
  \/ program = "Q5_F_BST" /\ Q5_F_BST_runTest
=============================================================================
