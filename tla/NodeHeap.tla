------------------------------ MODULE NodeHeap ------------------------------
(***************************************************************************)
(* The memory the exercise programs share in kind: nodes on the C heap, the*)
(* LinkedList structures and tree roots of main, and the list functions    *)
(* that every program carries a copy of.                                   *)
(*                                                                         *)
(* A memory is a record m.  A node that was freed is no longer in the      *)
(* domain of m.heap: following a dangling or a null pointer has no value,  *)
(* and TLC stops on it.                                                    *)
(***************************************************************************)
EXTENDS Integers, SequencesExt

CONSTANTS Addr,            \* addresses malloc may return
          NULL,
          MaxItems         \* bound: a user enters an item while there are fewer nodes

VARIABLES program,         \* the program that runs
          mem,             \* its memory
          local,           \* scalars of its main that outlive a turn
          creating,        \* the call of createTree that is in progress
          shown,           \* the last choice, and what it printed
          phase            \* "prompt", "quit" or "crashed"

Lists == {"ll", "ll1", "ll2", "front", "back", "s", "q"}
Roots == {"root1", "root2"}

EmptyList == [size |-> 0, head |-> NULL]
EmptyMemory == [heap |-> [a \in {} |-> NULL],
                list |-> [l \in Lists |-> EmptyList],
                root |-> [r \in Roots |-> NULL]]

Malloc(m) == CHOOSE a \in Addr : a \notin DOMAIN m.heap
Stored(m, a, node) == [m EXCEPT !.heap = (a :> node) @@ @]
Freed(m, as) == [m EXCEPT !.heap = Restrict(@, DOMAIN @ \ as)]

----------------------------------------------------------------------------
(* Linked lists *)

(* The node n links after p; NULL past the end.                            *)
RECURSIVE Walk(_, _, _)
Walk(h, p, n) == IF p = NULL \/ n = 0 THEN p ELSE Walk(h, h[p].next, n - 1)

(* The addresses on a chain, cut off where a cycle would have closed.      *)
RECURSIVE ChainFrom(_, _, _)
ChainFrom(h, p, seen) ==
  IF p = NULL \/ p \in seen THEN <<>>
  ELSE <<p>> \o ChainFrom(h, h[p].next, seen \cup {p})

Chain(m, l) == ChainFrom(m.heap, m.list[l].head, {})
printList(m, l) == [k \in DOMAIN Chain(m, l) |-> m.heap[Chain(m, l)[k]].item]

removeAllItems(m, l) ==
  [Freed(m, Range(Chain(m, l))) EXCEPT !.list[l] = EmptyList]

findNode(m, l, index) ==
  IF index < 0 \/ index >= m.list[l].size THEN NULL
  ELSE Walk(m.heap, m.list[l].head, index)

(* Mutant: the size grows on the paths that find a predecessor only.       *)
insertNodeForgetsSize(m, l, index, value) ==
  LET a == Malloc(m)
      head == m.list[l].head
      pre == findNode(m, l, index - 1)
  IN  IF head = NULL \/ index = 0
      THEN [Stored(m, a, [item |-> value, next |-> head]) EXCEPT !.list[l].head = a]
      ELSE IF pre = NULL THEN m
      ELSE [Stored(m, a, [item |-> value, next |-> m.heap[pre].next])
              EXCEPT !.heap[pre].next = a, !.list[l].size = @ + 1]

insertNode(m, l, index, value) ==
  LET a == Malloc(m)
      head == m.list[l].head
      pre == findNode(m, l, index - 1)
  IN  IF index < 0 \/ index > m.list[l].size + 1 THEN m
      ELSE IF head = NULL \/ index = 0
      THEN [Stored(m, a, [item |-> value, next |-> head])
              EXCEPT !.list[l] = [size |-> @.size + 1, head |-> a]]
      ELSE IF pre = NULL THEN m
      ELSE [Stored(m, a, [item |-> value, next |-> m.heap[pre].next])
              EXCEPT !.heap[pre].next = a, !.list[l].size = @ + 1]

removeNode(m, l, index) ==
  LET head == m.list[l].head
      pre == findNode(m, l, index - 1)
      cur == IF index = 0 THEN head ELSE m.heap[pre].next
  IN  IF index < 0 \/ index >= m.list[l].size THEN m
      ELSE IF index = 0
      THEN Freed([m EXCEPT !.list[l] = [size |-> @.size - 1, head |-> m.heap[head].next]], {head})
      ELSE IF pre = NULL THEN m
      ELSE IF cur = NULL THEN m
      ELSE Freed([m EXCEPT !.heap[pre].next = m.heap[cur].next, !.list[l].size = @ - 1], {cur})

----------------------------------------------------------------------------
(* A turn of a main: the choice is read, acted on and answered.            *)

Becomes(m, choice, output) ==
  /\ mem' = m
  /\ shown' = <<choice>> \o output
  /\ UNCHANGED <<program, local, creating, phase>>

(* Choice 0 of every main: the lists are emptied and the loop ends.        *)
Quits(m) ==
  /\ mem' = m
  /\ shown' = <<0>>
  /\ phase' = "quit"
  /\ UNCHANGED <<program, local, creating>>

Emptied(m, ls) == FoldLeft(removeAllItems, m, ls)

HasRoom == Cardinality(DOMAIN mem.heap) < MaxItems
=============================================================================
