----------------------------- MODULE LinkedLists -----------------------------
(***************************************************************************)
(* Linked_List/Q1 .. Q7_A_LL.c: the function each program is about, and its*)
(* main as one action whose disjuncts are the choices of its menu.         *)
(***************************************************************************)
EXTENDS NodeHeap

CONSTANT Item

IsEven(x) == x % 2 = 0

(* A choice that appends a number and prints the list.                     *)
Appends(choice, l) ==
  \E i \in Item :
    /\ HasRoom
    /\ LET m == insertNode(mem, l, mem.list[l].size, i)
       IN  Becomes(m, choice, <<printList(m, l)>>)

(* Choice 2 of Q3 .. Q7: what the exercise made of the list is printed and *)
(* removed.                                                                *)
Answers(m) == Becomes(removeAllItems(m, "ll"), 2, <<printList(m, "ll")>>)

----------------------------------------------------------------------------
(* Q1_A_LL.c *)

(* The index of the first item that is not smaller; an equal one is kept   *)
(* and not inserted again.                                                 *)
insertSortedLL(m, l, item) ==
  LET items == printList(m, l)
      stop == SelectInSeq(items, LAMBDA x : x >= item)
      index == IF stop = 0 THEN Len(items) ELSE stop - 1
  IN  IF stop # 0 /\ items[stop] = item THEN [m |-> m, index |-> index]
      ELSE [m |-> insertNode(m, l, index, item), index |-> index]

(* Choice 2 prints i and j as they are, before the first insertion too.    *)
Q1_A_LL ==
  \/ \E i \in Item :
       /\ HasRoom
       /\ LET r == insertSortedLL(mem, "ll", i)
          IN  /\ mem' = r.m
              /\ local' = <<i, r.index>>
              /\ shown' = <<1, printList(r.m, "ll")>>
       /\ UNCHANGED <<program, creating, phase>>
  \/ Becomes(mem, 2, <<local>>)
  \/ Becomes(mem, 3, <<printList(mem, "ll")>>)
  \/ Quits(removeAllItems(mem, "ll"))

----------------------------------------------------------------------------
(* Q2_A_LL.c *)

(* Mutant: the growth of the first list is not counted.                    *)
RECURSIVE MergeStopsEarly(_, _, _)
MergeStopsEarly(m, pos, originalLL1Size) ==
  IF m.list["ll2"].head = NULL \/ pos > originalLL1Size THEN m
  ELSE LET value == m.heap[m.list["ll2"].head].item
       IN  MergeStopsEarly(removeNode(insertNode(m, "ll1", pos, value), "ll2", 0),
                           pos + 2, originalLL1Size)

(* The loop of alternateMergeLinkedList, at insertPosition pos.            *)
RECURSIVE MergeFrom(_, _, _)
MergeFrom(m, pos, originalLL1Size) ==
  IF m.list["ll2"].head = NULL \/ pos > originalLL1Size THEN m
  ELSE LET value == m.heap[m.list["ll2"].head].item
       IN  MergeFrom(removeNode(insertNode(m, "ll1", pos, value), "ll2", 0),
                     pos + 2, originalLL1Size + 1)

alternateMergeLinkedList(m) ==
  IF m.list["ll1"].head = NULL \/ m.list["ll2"].head = NULL THEN m
  ELSE MergeFrom(m, 1, m.list["ll1"].size)

Q2_A_LL ==
  \/ Appends(1, "ll1")
  \/ Appends(2, "ll2")
  \/ LET m == alternateMergeLinkedList(mem)
     IN  Becomes(Emptied(m, <<"ll1", "ll2">>), 3,
                 <<printList(m, "ll1"), printList(m, "ll2")>>)
  \/ Quits(Emptied(mem, <<"ll1", "ll2">>))

----------------------------------------------------------------------------
(* Q3_A_LL.c *)

(* The nodes as linked when they follow one another in this order.         *)
Relinked(m, l, order) ==
  [m EXCEPT !.list[l].head = IF order = <<>> THEN NULL ELSE order[1],
            !.heap = [a \in DOMAIN @ |->
                        IF a \in Range(order)
                        THEN LET k == CHOOSE j \in DOMAIN order : order[j] = a
                             IN  [@[a] EXCEPT !.next = IF k = Len(order) THEN NULL
                                                       ELSE order[k + 1]]
                        ELSE @[a]]]

(* The guard asks for a list without a first node, and returns otherwise.  *)
moveOddItemsToBack(m) ==
  LET order == Chain(m, "ll")
      even == SelectSeq(order, LAMBDA a : IsEven(m.heap[a].item))
      odd == SelectSeq(order, LAMBDA a : ~IsEven(m.heap[a].item))
  IN  IF m.list["ll"].head # NULL THEN m ELSE Relinked(m, "ll", even \o odd)

Q3_A_LL ==
  \/ Appends(1, "ll")
  \/ Answers(moveOddItemsToBack(mem))
  \/ Quits(removeAllItems(mem, "ll"))

----------------------------------------------------------------------------
(* Q4_A_LL.c *)

(* The loop of moveEvenItemsToBack: the copy goes to the end before the    *)
(* node is removed, and pCurrent leaves the node before it is freed.       *)
RECURSIVE MoveEvenFrom(_, _, _, _)
MoveEvenFrom(m, pCurrent, index, cycle) ==
  IF cycle >= m.list["ll"].size THEN m
  ELSE IF ~IsEven(m.heap[pCurrent].item)
  THEN MoveEvenFrom(m, m.heap[pCurrent].next, index + 1, cycle + 1)
  ELSE LET copied == insertNode(m, "ll", m.list["ll"].size, m.heap[pCurrent].item)
       IN  MoveEvenFrom(removeNode(copied, "ll", index), copied.heap[pCurrent].next,
                        index, cycle + 1)

moveEvenItemsToBack(m) == MoveEvenFrom(m, m.list["ll"].head, 0, 0)

Q4_A_LL ==
  \/ Appends(1, "ll")
  \/ Answers(moveEvenItemsToBack(mem))
  \/ Quits(removeAllItems(mem, "ll"))

----------------------------------------------------------------------------
(* Q5_A_LL.c *)

(* The items are copied, the front list gets the odd one.                  *)
frontBackSplitLinkedList(m) ==
  LET items == printList(m, "ll")
      frontSize == (m.list["ll"].size + 1) \div 2
      front == FoldLeft(LAMBDA n, v : insertNode(n, "front", n.list["front"].size, v),
                        m, SubSeq(items, 1, frontSize))
  IN  FoldLeft(LAMBDA n, v : insertNode(n, "back", n.list["back"].size, v),
               front, SubSeq(items, frontSize + 1, m.list["ll"].size))

Q5_A_LL ==
  \/ Appends(1, "ll")
  \/ LET m == frontBackSplitLinkedList(mem)
     IN  Becomes(Emptied(m, <<"ll", "front", "back">>), 2,
                 <<printList(m, "front"), printList(m, "back")>>)
  \/ Quits(Emptied(mem, <<"ll", "front", "back">>))

----------------------------------------------------------------------------
(* Q6_A_LL.c *)

(* The first of the largest nodes, unless it is the head, is unlinked from *)
(* its predecessor and becomes the head.                                   *)
moveMaxToFront(m) ==
  LET order == Chain(m, "ll")
      k == CHOOSE j \in DOMAIN order :
             \A i \in DOMAIN order : /\ m.heap[order[i]].item <= m.heap[order[j]].item
                                     /\ i < j => m.heap[order[i]].item < m.heap[order[j]].item
  IN  IF Len(order) <= 1 THEN m
      ELSE IF k = 1 THEN m
      ELSE [m EXCEPT !.heap[order[k - 1]].next = m.heap[order[k]].next,
                     !.heap[order[k]].next = order[1],
                     !.list["ll"].head = order[k]]

Q6_A_LL ==
  \/ Appends(1, "ll")
  \/ Answers(moveMaxToFront(mem))
  \/ Quits(removeAllItems(mem, "ll"))

----------------------------------------------------------------------------
(* Q7_A_LL.c *)

(* The heap with the chain from first reversed, and its new first node.    *)
RECURSIVE ReverseFrom(_, _)
ReverseFrom(h, first) ==
  IF first = NULL THEN [heap |-> h, head |-> NULL]
  ELSE IF h[first].next = NULL THEN [heap |-> h, head |-> first]
  ELSE LET rest == ReverseFrom(h, h[first].next)
           second == rest.heap[first].next
       IN  [heap |-> [rest.heap EXCEPT ![second].next = first, ![first].next = NULL],
            head |-> rest.head]

RecursiveReverse(m) ==
  LET r == ReverseFrom(m.heap, m.list["ll"].head)
  IN  [m EXCEPT !.heap = r.heap, !.list["ll"].head = r.head]

Q7_A_LL ==
  \/ Appends(1, "ll")
  \/ Answers(RecursiveReverse(mem))
  \/ Quits(removeAllItems(mem, "ll"))

LinkedListPrograms == {"Q1_A_LL", "Q2_A_LL", "Q3_A_LL", "Q4_A_LL", "Q5_A_LL", "Q6_A_LL", "Q7_A_LL"}

LinkedListTurn ==
  \/ program = "Q1_A_LL" /\ Q1_A_LL
  \/ program = "Q2_A_LL" /\ Q2_A_LL
  \/ program = "Q3_A_LL" /\ Q3_A_LL
  \/ program = "Q4_A_LL" /\ Q4_A_LL
  \/ program = "Q5_A_LL" /\ Q5_A_LL
  \/ program = "Q6_A_LL" /\ Q6_A_LL
  \/ program = "Q7_A_LL" /\ Q7_A_LL
=============================================================================
