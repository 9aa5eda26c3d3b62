------------------------------- MODULE Answers -------------------------------
(***************************************************************************)
(* What the menus of the exercise programs, and the lines that introduce   *)
(* their answers, say they do, on sequences and on trees, and what the     *)
(* programs in Deviating do against that.  A tree is a function from the   *)
(* paths of its nodes, sequences of 1 for left and 2 for right, to their   *)
(* items; orders of traversal are orders on paths.  The detailed module    *)
(* Exercises implements this one.                                          *)
(***************************************************************************)
EXTENDS Integers, SequencesExt

CONSTANTS Item, Value,
          Deviating        \* programs that do not do what their menus say

VARIABLES program, lists, trees, local, shown, phase

vars == <<program, lists, trees, local, shown, phase>>

NoLists == [l \in DOMAIN lists |-> <<>>]
NoTree == [p \in {} |-> 0]
NoTrees == [r \in DOMAIN trees |-> NoTree]

----------------------------------------------------------------------------
(* Orders on paths *)

(* Where two paths part, or the shorter ends.                              *)
Fork(p, q) == CHOOSE k \in 1 .. Len(p) + 1 :
                /\ SubSeq(p, 1, k - 1) = SubSeq(q, 1, k - 1)
                /\ k > Len(p) \/ k > Len(q) \/ p[k] # q[k]
Turn(p, k) == IF k > Len(p) THEN 0 ELSE p[k]

(* The side of p that q lies on, and the other way round; 0 for the node.  *)
PreBefore(p, q) == p # q /\ Turn(p, Fork(p, q)) < Turn(q, Fork(p, q))
InBefore(p, q) ==
  LET place(s) == CASE Turn(s, Fork(p, q)) = 1 -> 1
                    [] Turn(s, Fork(p, q)) = 0 -> 2
                    [] OTHER -> 3
  IN  p # q /\ place(p) < place(q)
PostBefore(p, q) ==
  LET place(s) == IF Turn(s, Fork(p, q)) = 0 THEN 3 ELSE Turn(s, Fork(p, q))
  IN  p # q /\ place(p) < place(q)
LevelBefore(p, q) == Len(p) < Len(q) \/ (Len(p) = Len(q) /\ PreBefore(p, q))

(* The items of the nodes in S, in the given order.                        *)
ListedOf(t, S, Before(_, _)) ==
  LET order == SetToSortSeq(S, Before) IN [k \in DOMAIN order |-> t[order[k]]]
Listed(t, Before(_, _)) == ListedOf(t, DOMAIN t, Before)

----------------------------------------------------------------------------
(* Answers *)

(* Items of the second list go between those of the first, as long as both *)
(* last; what is left of the second stays there.                           *)
Merged(a, b) ==
  LET n == IF Len(a) < Len(b) THEN Len(a) ELSE Len(b)
      both == [k \in 1 .. 2 * n |-> IF k % 2 = 1 THEN a[(k + 1) \div 2] ELSE b[k \div 2]]
  IN  <<both \o SubSeq(a, n + 1, Len(a)), SubSeq(b, n + 1, Len(b))>>

Evens(s) == SelectSeq(s, LAMBDA x : x % 2 = 0)
Odds(s) == SelectSeq(s, LAMBDA x : x % 2 = 1)

(* The first of the largest goes to the front.                             *)
MaxFirst(s) ==
  IF s = <<>> THEN s
  ELSE LET k == SelectInSeq(s, LAMBDA x : \A j \in DOMAIN s : s[j] <= x)
       IN  <<s[k]>> \o RemoveAt(s, k)

(* The top and the one below differ by one, and so on down the stack.      *)
PairwiseConsecutive(s) ==
  /\ s # <<>> /\ Len(s) % 2 = 0
  /\ \A k \in DOMAIN s : k % 2 = 1 => s[k] - 1 = s[k + 1]

(* From the first occurrence of the value on.                              *)
From(s, i) ==
  LET k == SelectInSeq(s, LAMBDA x : x = i) IN IF k = 0 THEN <<>> ELSE SubSeq(s, k, Len(s))

Pair == {<<"(", ")">>, <<"[", "]">>, <<"{", "}">>}

(* Adjacent pairs can be taken out until nothing but other characters is   *)
(* left.                                                                   *)
Balanced(e) ==
  LET brackets == SelectSeq(e, LAMBDA ch : \E p \in Pair : ch \in Range(p))
      closed[n \in 0 .. Len(brackets)] ==
        IF n = 0 THEN {<<>>}
        ELSE IF n = 1 THEN {}
        ELSE {s \o t : s \in closed[n - 2], t \in Pair}
             \cup {<<p[1]>> \o s \o <<p[2]>> : s \in closed[n - 2], p \in Pair}
             \cup UNION {{s \o t : s \in closed[k], t \in closed[n - k]} : k \in 2 .. n - 2}
  IN  brackets \in closed[Len(brackets)]

Height(t) == IF t = NoTree THEN -1 ELSE Max({Len(p) : p \in DOMAIN t})
OneChild(t) == {p \in DOMAIN t : (Append(p, 1) \in DOMAIN t) # (Append(p, 2) \in DOMAIN t)}
OddSum(t) == MapThenSumSet(LAMBDA p : t[p], {p \in DOMAIN t : t[p] % 2 = 1})
Mirror(t) ==
  LET flipped(p) == [k \in DOMAIN p |-> 3 - p[k]]
  IN  [p \in {flipped(q) : q \in DOMAIN t} |-> t[flipped(p)]]
GreatGrandparents(t) == {p \in DOMAIN t : \E q \in DOMAIN t : Len(q) = Len(p) + 3 /\ IsPrefix(p, q)}
Smallest(t) == IF t = NoTree THEN 2147483647 ELSE Min(Range(t))

Answer(i) ==
  LET ll == lists["ll"]
      q == lists["q"]
      s == lists["s"]
      t == trees["root1"]
  IN  CASE program = "Q2_A_LL" -> Merged(lists["ll1"], lists["ll2"])
        [] program = "Q3_A_LL" -> <<Evens(ll) \o Odds(ll)>>
        [] program = "Q4_A_LL" -> <<Odds(ll) \o Evens(ll)>>
        [] program = "Q5_A_LL" -> LET half == (Len(ll) + 1) \div 2
                                  IN  <<SubSeq(ll, 1, half), SubSeq(ll, half + 1, Len(ll))>>
        [] program = "Q6_A_LL" -> <<MaxFirst(ll)>>
        [] program = "Q7_A_LL" -> <<Reverse(ll)>>
        [] program = "Q1_C_SQ" -> <<Evens(q)>>
        [] program = "Q2_C_SQ" -> <<Odds(s)>>
        [] program = "Q3_C_SQ" -> <<PairwiseConsecutive(s)>>
        [] program \in {"Q4_C_SQ", "Q5_C_SQ"} -> <<Reverse(q)>>
        [] program = "Q6_C_SQ" -> <<i, From(s, i)>>
        [] program = "Q1_E_BT" -> <<trees["root1"] = trees["root2"]>>
        [] program = "Q2_E_BT" -> <<Height(t)>>
        [] program = "Q3_E_BT" -> <<Cardinality(OneChild(t))>>
        [] program = "Q4_E_BT" -> <<OddSum(t)>>
        [] program = "Q5_E_BT" -> <<Listed(Mirror(t), InBefore)>>
        [] program = "Q6_E_BT" -> <<i, ListedOf(t, {p \in DOMAIN t : t[p] < i}, PreBefore)>>
        [] program = "Q7_E_BT" -> <<Smallest(t)>>
        [] program = "Q8_E_BT" -> <<ListedOf(t, GreatGrandparents(t), PostBefore)>>

----------------------------------------------------------------------------
(* Turns *)

Unchanged == UNCHANGED <<program, phase>>

(* A list gets an item at its end, a stack at its front.                   *)
Enter ==
  /\ \E l \in DOMAIN lists, i \in Item :
       /\ lists' = [lists EXCEPT ![l] = IF l = "s" THEN <<i>> \o @ ELSE Append(@, i)]
       /\ shown' = <<IF l = "ll2" THEN 2 ELSE 1, lists'[l]>>
  /\ program # "Q1_A_LL"
  /\ UNCHANGED <<trees, local>> /\ Unchanged

(* Q1_A_LL keeps its list sorted and free of duplicates.                   *)
EnterSorted ==
  /\ program = "Q1_A_LL"
  /\ \E i \in Item :
       LET smaller == {x \in Range(lists["ll"]) : x < i}
       IN  /\ lists' = [lists EXCEPT !["ll"] = SetToSortSeq(Range(@) \cup {i}, <)]
           /\ local' = <<i, Cardinality(smaller)>>
  /\ shown' = <<1, lists'["ll"]>>
  /\ UNCHANGED trees /\ Unchanged

Show ==
  /\ program = "Q1_A_LL"
  /\ shown' \in {<<2, local>>, <<3, lists["ll"]>>}
  /\ UNCHANGED <<lists, trees, local>> /\ Unchanged

EnterString ==
  /\ program = "Q7_C_SQ"
  /\ shown' = <<1>>
  /\ UNCHANGED <<lists, trees>> /\ Unchanged

Check ==
  /\ program = "Q7_C_SQ"
  /\ shown' = <<2, Balanced(local)>>
  /\ UNCHANGED <<lists, trees, local>> /\ Unchanged

(* The stack of Q2_C_SQ and the queue of Q1_C_SQ are made of the list, by  *)
(* the menu; as it deviates, Q1_C_SQ dies of this choice.                  *)
Copy ==
  /\ program \notin Deviating \/ program = "Q2_C_SQ"
  /\ \/ program = "Q1_C_SQ" /\ lists' = [lists EXCEPT !["q"] = lists["ll"]]
                            /\ shown' = <<2, lists'["q"]>>
     \/ program = "Q2_C_SQ" /\ lists' = [lists EXCEPT !["s"] = Reverse(lists["ll"])]
                            /\ shown' = <<2, lists'["s"]>>
  /\ UNCHANGED <<trees, local>> /\ Unchanged

Die ==
  /\ program = "Q1_C_SQ" /\ program \in Deviating
  /\ shown' = <<2>> /\ phase' = "crashed"
  /\ UNCHANGED <<program, lists, trees, local>>

TreePrograms == {"Q1_E_BT", "Q2_E_BT", "Q3_E_BT", "Q4_E_BT", "Q5_E_BT", "Q6_E_BT", "Q7_E_BT", "Q8_E_BT"}
Plants(r) == program \in TreePrograms /\ (r = "root2" => program = "Q1_E_BT")
TreeChoice(r) == IF r = "root2" THEN 2 ELSE 1

(* A tree is entered anew, and grows by the children of one node at a time.*)
Plant ==
  \E r \in DOMAIN trees :
    /\ Plants(r)
    /\ \/ trees' = [trees EXCEPT ![r] = NoTree] /\ shown' = <<TreeChoice(r), <<>>>>
       \/ \E i \in Value : trees' = [trees EXCEPT ![r] = <<>> :> i] /\ shown' = <<TreeChoice(r)>>
    /\ UNCHANGED <<lists, local>> /\ Unchanged

Grow ==
  \E r \in DOMAIN trees :
    LET old == trees[r]
        new == trees'[r]
    IN  /\ Plants(r)
        /\ trees' = [trees EXCEPT ![r] = new]
        /\ DOMAIN old \subseteq DOMAIN new
        /\ \A p \in DOMAIN old : new[p] = old[p]
        /\ \E p \in DOMAIN old :
             /\ {Append(p, 1), Append(p, 2)} \cap DOMAIN old = {}
             /\ DOMAIN new \ DOMAIN old \subseteq {Append(p, 1), Append(p, 2)}
        /\ shown' \in {shown, <<TreeChoice(r), Listed(new, InBefore)>>}
        /\ UNCHANGED <<lists, local>> /\ Unchanged

TestPrograms == {"Q1_F_BST", "Q2_F_BST", "Q3_F_BST", "Q4_F_BST", "Q5_F_BST"}
AskChoice ==
  IF program \in {"Q2_A_LL", "Q1_C_SQ", "Q2_C_SQ", "Q6_C_SQ", "Q1_E_BT"} THEN 3 ELSE 2

(* What the menu says of the question of the exercise, and what comes in   *)
(* its place: the list or the stack as it is, no stack pairwise            *)
(* consecutive, the answer under another number, an answer that ends the   *)
(* program.                                                                *)
Announced ==
  /\ program \notin Deviating \/ program = "Q1_C_SQ"
  /\ \E i \in Item \cup Value : shown' = <<AskChoice>> \o Answer(i)
  /\ Unchanged

Instead ==
  /\ program \in Deviating
  /\ \/ program = "Q3_A_LL" /\ shown' = <<2, lists["ll"]>> /\ Unchanged
     \/ program = "Q2_C_SQ" /\ shown' = <<3, lists["s"]>> /\ Unchanged
     \/ program = "Q3_C_SQ" /\ shown' = <<2, FALSE>> /\ Unchanged
     \/ program = "Q6_C_SQ" /\ (\E i \in Item : shown' = <<2>> \o Answer(i)) /\ Unchanged
     \/ program = "Q2_E_BT" /\ shown' = <<2>> \o Answer(0) /\ UNCHANGED program
                            /\ phase' = IF Answer(0) = <<0>> THEN "quit" ELSE phase

(* The question is answered and its data is removed.                       *)
Ask ==
  /\ program \notin {"Q1_A_LL", "Q7_C_SQ"} \cup TestPrograms
  /\ Announced \/ Instead
  /\ lists' = NoLists /\ trees' = NoTrees

Quit ==
  /\ lists' = NoLists /\ trees' = NoTrees
  /\ shown' = <<0>> /\ phase' = "quit"
  /\ UNCHANGED <<program, local>>

(* The tests of Binary_Search_Tree print one traversal of the values they  *)
(* announce; Q2_F_BST announces 1, and as it deviates has 10 in its place. *)
TestValues ==
  [k \in {<<>>, <<1>>, <<2>>, <<1, 1>>, <<1, 2>>, <<2, 1>>, <<2, 2>>} |->
     CASE k = <<>> -> 20 [] k = <<1>> -> 15 [] k = <<2>> -> 50
       [] k = <<1, 1>> -> 10 [] k = <<1, 2>> -> 18
       [] k = <<2, 1>> -> 25 [] k = <<2, 2>> -> 80]
InOrderTest(first) ==
  ListedOf([TestValues EXCEPT ![<<1, 1>>] = first],
           DOMAIN TestValues \ {<<2, 1>>, <<2, 2>>}, InBefore)

Test ==
  /\ program \in TestPrograms
  /\ \/ program = "Q1_F_BST" /\ shown' = <<3, Listed(TestValues, LevelBefore)>>
     \/ program = "Q2_F_BST" /\ shown' = <<3, InOrderTest(IF program \in Deviating THEN 10 ELSE 1)>>
     \/ program = "Q3_F_BST" /\ shown' = <<3, Listed(TestValues, PreBefore)>>
     \/ program \in {"Q4_F_BST", "Q5_F_BST"} /\ shown' = <<3, Listed(TestValues, PostBefore)>>
  /\ phase' = "quit"
  /\ UNCHANGED <<program, lists, trees, local>>

Init ==
  /\ lists = NoLists /\ trees = NoTrees
  /\ shown = <<>> /\ phase = "prompt"

Next ==
  /\ phase = "prompt"
  /\ \/ Enter \/ EnterSorted \/ Show \/ EnterString \/ Check \/ Copy
     \/ Plant \/ Grow \/ Ask \/ Quit \/ Die \/ Test

Spec == Init /\ [][Next]_vars
=============================================================================
