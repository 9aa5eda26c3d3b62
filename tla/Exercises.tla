------------------------------ MODULE Exercises ------------------------------
(***************************************************************************)
(* The exercise programs, any one of which runs: what a user enters is     *)
(* arbitrary, and each answer is compared with the abstract Answers, which *)
(* knows sequences and trees but no nodes.                                 *)
(***************************************************************************)
EXTENDS StacksQueues, SearchTrees

CONSTANTS Program,         \* the programs that may be run
          Deviating,       \* programs that do not do what their menus say
          Leaky            \* programs known to lose nodes

vars == <<program, mem, local, creating, shown, phase>>

(* A scalar that main did not initialise has any value.                    *)
Locals(p) ==
  CASE p = "Q1_A_LL" -> Item \X {0}
    [] p = "Q7_C_SQ" -> Expressions
    [] p = "Q6_E_BT" -> Value
    [] OTHER -> {0}

Init ==
  /\ program \in Program
  /\ mem = EmptyMemory
  /\ local \in Locals(program)
  /\ creating = NotCreating
  /\ shown = <<>>
  /\ phase = "prompt"

Next ==
  /\ phase = "prompt"
  /\ \/ LinkedListTurn
     \/ StackQueueTurn
     \/ TreeTurn
     \/ createTree
     \/ SearchTreeTurn

Spec == Init /\ [][Next]_vars

----------------------------------------------------------------------------
(* Safety *)

AtPrompt == phase = "prompt" /\ creating = NotCreating
OnLists == UNION {Range(Chain(mem, l)) : l \in Lists}
InTrees(roots) == UNION {TreeNodes(mem.heap, n) : n \in roots}

(* Whatever a program does with its nodes, the size it keeps of a list is  *)
(* the number of nodes on its chain, a chain ends and no node is on two    *)
(* lists (insertNode, removeNode and the functions that link nodes         *)
(* themselves: moveMaxToFront, RecursiveReverse, MergeFrom).               *)
ChainsWhole ==
  /\ \A l \in Lists : /\ mem.list[l].size = Len(Chain(mem, l))
                      /\ Chain(mem, l) # <<>> => mem.heap[Last(Chain(mem, l))].next = NULL
  /\ \A l, k \in Lists : l # k => Range(Chain(mem, l)) \cap Range(Chain(mem, k)) = {}

(* No node is lost: what is allocated is on a list or in a tree of main,   *)
(* or in the tree that createTree builds, and after the choice 0 nothing   *)
(* is allocated (removeAllItems, removeAll before each createTree).        *)
NothingLost ==
  program \notin Leaky =>
    /\ DOMAIN mem.heap =
         OnLists \cup InTrees(Range(mem.root) \cup {creating.root})
    /\ phase = "quit" => DOMAIN mem.heap = {}

----------------------------------------------------------------------------
(* What the menus say *)

(* A tree as the function from the paths of its nodes, written as          *)
(* sequences of sides, to their items.                                     *)
RECURSIVE PathsFrom(_, _)
PathsFrom(h, n) ==
  IF n = NULL THEN {}
  ELSE {[path |-> <<>>, item |-> h[n].item]}
       \cup {[below EXCEPT !.path = <<1>> \o @] : below \in PathsFrom(h, h[n].left)}
       \cup {[below EXCEPT !.path = <<2>> \o @] : below \in PathsFrom(h, h[n].right)}

TreeOf(h, n) ==
  LET nodes == PathsFrom(h, n)
  IN  [p \in {x.path : x \in nodes} |-> (CHOOSE x \in nodes : x.path = p).item]

Contents == [l \in Lists |-> printList(mem, l)]
TreeValues ==
  [r \in Roots |->
     TreeOf(mem.heap, IF creating.var = r THEN creating.root ELSE mem.root[r])]

Promise == INSTANCE Answers WITH lists <- Contents, trees <- TreeValues

(* Each program does what its menu, or the line before the answer, says,  *)
(* for every list, string and pair of trees a user can enter, and keeps    *)
(* what was entered until then.  Of a program in Deviating this is false:  *)
(* at the choice concerned it does, every time, the one other thing that   *)
(* Answers!Instead, Die or Test says of it, and at the others what the     *)
(* menu says.                                                              *)
ImplementsAnswers == Promise!Spec

(* The four orders of traversal, on every tree a user can enter: the       *)
(* iterative functions of the Binary_Search_Tree programs visit the nodes  *)
(* as the recursive definitions of the orders have it.                     *)
TraversalOrders ==
  AtPrompt =>
    LET h == mem.heap
        n == mem.root["root1"]
        t == TreeValues["root1"]
    IN  /\ levelOrderTraversal(h, n) = Promise!Listed(t, Promise!LevelBefore)
        /\ inOrderTraversal(h, n) = Promise!Listed(t, Promise!InBefore)
        /\ preOrderIterative(h, n) = Promise!Listed(t, Promise!PreBefore)
        /\ postOrderIterativeS1(h, n) = Promise!Listed(t, Promise!PostBefore)
        /\ postOrderIterativeS2(h, n) = Promise!Listed(t, Promise!PostBefore)
=============================================================================
