---------------------------- MODULE StacksQueues ----------------------------
(***************************************************************************)
(* Stack_and_Queue/Q1 .. Q7_C_SQ.c.  A Stack and a Queue are a LinkedList: *)
(* "s" and "q" below; "ll" is main's list.                                 *)
(***************************************************************************)
EXTENDS LinkedLists

CONSTANTS Expressions,     \* strings a user may enter, as sequences
          MaxLost          \* bound: nodes lost before a string is checked once more

push(m, s, item) == insertNode(m, s, 0, item)
enqueue(m, q, item) == insertNode(m, q, m.list[q].size, item)

isEmptyStack(m, s) == m.list[s].size = 0
isEmptyQueue(m, q) == m.list[q].size = 0

FirstItem(m, l) == m.heap[m.list[l].head].item

(* What they leave behind; the item they return is FirstItem before.  An   *)
(* empty stack or queue stays as it is.                                    *)
pop(m, s) == IF m.list[s].head = NULL THEN m ELSE removeNode(m, s, 0)
dequeue(m, q) == IF isEmptyQueue(m, q) THEN m ELSE removeNode(m, q, 0)

RECURSIVE removeAllItemsFromStack(_, _)
removeAllItemsFromStack(m, s) ==
  IF m.list[s].head = NULL THEN m ELSE removeAllItemsFromStack(pop(m, s), s)

removeAllItemsFromQueue(m, q) ==
  FoldLeft(LAMBDA n, i : dequeue(n, q), m, [k \in 1 .. m.list[q].size |-> k])

----------------------------------------------------------------------------
(* Q1_C_SQ.c *)

(* createQueueFromLinkedList sets its parameter ll to NULL, empties the    *)
(* queue and follows ll: the program dies with whatever the list holds.    *)
createQueueFromLinkedList ==
  /\ mem' = IF isEmptyQueue(mem, "q") THEN mem ELSE removeAllItemsFromQueue(mem, "q")
  /\ phase' = "crashed"
  /\ shown' = <<2>>
  /\ UNCHANGED <<program, local, creating>>

(* An empty function.                                                      *)
removeOddValues(m) == m

Q1_C_SQ ==
  \/ Appends(1, "ll")
  \/ createQueueFromLinkedList
  \/ LET m == removeOddValues(mem)
     IN  Becomes(removeAllItems(removeAllItemsFromQueue(m, "q"), "ll"), 3, <<printList(m, "q")>>)
  \/ Quits(removeAllItems(removeAllItemsFromQueue(mem, "q"), "ll"))

----------------------------------------------------------------------------
(* Q2_C_SQ.c *)

createStackFromLinkedList(m) ==
  LET cleared == IF isEmptyStack(m, "s") THEN m ELSE removeAllItemsFromStack(m, "s")
  IN  FoldLeft(LAMBDA n, value : push(n, "s", value), cleared, printList(cleared, "ll"))

(* An empty function.                                                      *)
removeEvenValues(m) == m

Q2_C_SQ ==
  \/ Appends(1, "ll")
  \/ LET m == createStackFromLinkedList(mem) IN Becomes(m, 2, <<printList(m, "s")>>)
  \/ LET m == removeEvenValues(mem)
     IN  Becomes(removeAllItems(removeAllItemsFromStack(m, "s"), "ll"), 3, <<printList(m, "s")>>)
  \/ Quits(removeAllItems(removeAllItemsFromStack(mem, "s"), "ll"))

----------------------------------------------------------------------------
(* Q3_C_SQ.c *)

(* Choice 1 of the programs with a stack.                                  *)
Pushes(s) ==
  \E i \in Item :
    /\ HasRoom
    /\ LET m == push(mem, s, i) IN Becomes(m, 1, <<printList(m, s)>>)

(* The items of one stack go over to the other, which turns their order.   *)
RECURSIVE PourStack(_, _, _)
PourStack(m, from, to) ==
  IF isEmptyStack(m, from) THEN m
  ELSE PourStack(pop(push(m, to, FirstItem(m, from)), from), from, to)

(* The loop of isStackPairwiseConsecutive, which moves pairs to tmpStack   *)
(* ("q" here) while result is true.                                        *)
RECURSIVE ComparePairs(_, _)
ComparePairs(m, result) ==
  IF isEmptyStack(m, "s") \/ ~result THEN [m |-> m, result |-> result]
  ELSE LET first == FirstItem(m, "s")
           one == pop(push(m, "q", first), "s")
           second == FirstItem(one, "s")
       IN  IF isEmptyStack(one, "s") THEN ComparePairs(one, result)
           ELSE ComparePairs(pop(push(one, "q", second), "s"), result /\ first - 1 = second)

(* result starts as 0: no pair is ever compared.                           *)
isStackPairwiseConsecutive(m) ==
  IF isEmptyStack(m, "s") \/ m.list["s"].size % 2 # 0 THEN [m |-> m, result |-> FALSE]
  ELSE LET r == ComparePairs(m, FALSE)
       IN  [m |-> PourStack(r.m, "q", "s"), result |-> r.result]

Q3_C_SQ ==
  \/ Pushes("s")
  \/ LET r == isStackPairwiseConsecutive(mem)
     IN  Becomes(removeAllItems(r.m, "s"), 2, <<r.result>>)
  \/ Quits(removeAllItems(mem, "s"))

----------------------------------------------------------------------------
(* Q4_C_SQ.c *)

(* Through a stack of its own, until the queue and then the stack is empty.*)
reverse(m) ==
  LET onStack == FoldLeft(LAMBDA n, i : dequeue(push(n, "s", FirstItem(n, "q")), "q"),
                          m, printList(m, "q"))
  IN  FoldLeft(LAMBDA n, i : pop(enqueue(n, "q", FirstItem(n, "s")), "s"),
               onStack, printList(m, "q"))

Q4_C_SQ ==
  \/ Appends(1, "q")
  \/ LET m == reverse(mem) IN Becomes(removeAllItems(m, "q"), 2, <<printList(m, "q")>>)
  \/ Quits(removeAllItems(mem, "q"))

----------------------------------------------------------------------------
(* Q5_C_SQ.c *)

RECURSIVE recursiveReverse(_)
recursiveReverse(m) ==
  IF isEmptyQueue(m, "q") THEN m
  ELSE enqueue(recursiveReverse(dequeue(m, "q")), "q", FirstItem(m, "q"))

Q5_C_SQ ==
  \/ Appends(1, "q")
  \/ LET m == recursiveReverse(mem)
     IN  Becomes(removeAllItems(removeAllItemsFromQueue(m, "q"), "ll"), 2, <<printList(m, "q")>>)
  \/ Quits(removeAllItems(removeAllItemsFromQueue(mem, "q"), "ll"))

----------------------------------------------------------------------------
(* Q6_C_SQ.c *)

RECURSIVE removeUntil(_, _)
removeUntil(m, value) ==
  IF isEmptyStack(m, "s") THEN m
  ELSE IF FirstItem(m, "s") = value THEN m
  ELSE removeUntil(pop(m, "s"), value)

(* The menu announces choice 2 as "3:".                                    *)
Q6_C_SQ ==
  \/ Pushes("s")
  \/ \E i \in Item :
       LET m == removeUntil(mem, i)
       IN  Becomes(removeAllItems(removeAllItemsFromStack(m, "s"), "ll"), 2,
                   <<i, printList(m, "s")>>)
  \/ Quits(removeAllItems(removeAllItemsFromStack(mem, "s"), "ll"))

----------------------------------------------------------------------------
(* Q7_C_SQ.c *)

isMatching(opening, closing) == <<opening, closing>> \in {<<"(", ")">>, <<"[", "]">>, <<"{", "}">>}

(* From character i of the expression; the stack is local to the function. *)
RECURSIVE BalancedFrom(_, _, _)
BalancedFrom(m, expression, i) ==
  IF i > Len(expression) THEN [m |-> m, result |-> isEmptyStack(m, "s")]
  ELSE LET ch == expression[i]
       IN  IF ch \in {"{", "[", "("} THEN BalancedFrom(push(m, "s", ch), expression, i + 1)
           ELSE IF ch \notin {"}", "]", ")"} THEN BalancedFrom(m, expression, i + 1)
           ELSE IF isEmptyStack(m, "s") THEN [m |-> m, result |-> FALSE]
           ELSE IF ~isMatching(FirstItem(m, "s"), ch)
           THEN [m |-> pop(m, "s"), result |-> FALSE]
           ELSE BalancedFrom(pop(m, "s"), expression, i + 1)

(* Whatever is left on the stack when it returns is forgotten, not freed.  *)
balanced(m, expression) ==
  LET r == BalancedFrom(m, expression, 1)
  IN  [m |-> [r.m EXCEPT !.list["s"] = EmptyList], result |-> r.result]

(* Choice 2 checks str as it is, before a string was entered too.          *)
Q7_C_SQ ==
  \/ \E str \in Expressions :
       local' = str /\ shown' = <<1>> /\ UNCHANGED <<program, mem, creating, phase>>
  \/ /\ Cardinality(DOMAIN mem.heap) <= MaxLost
     /\ LET r == balanced(mem, local) IN Becomes(r.m, 2, <<r.result>>)
  \/ Quits(mem)

StackQueuePrograms == {"Q1_C_SQ", "Q2_C_SQ", "Q3_C_SQ", "Q4_C_SQ", "Q5_C_SQ", "Q6_C_SQ", "Q7_C_SQ"}

StackQueueTurn ==
  \/ program = "Q1_C_SQ" /\ Q1_C_SQ
  \/ program = "Q2_C_SQ" /\ Q2_C_SQ
  \/ program = "Q3_C_SQ" /\ Q3_C_SQ
  \/ program = "Q4_C_SQ" /\ Q4_C_SQ
  \/ program = "Q5_C_SQ" /\ Q5_C_SQ
  \/ program = "Q6_C_SQ" /\ Q6_C_SQ
  \/ program = "Q7_C_SQ" /\ Q7_C_SQ
=============================================================================
