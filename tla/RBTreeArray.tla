----------------------------- MODULE RBTreeArray -----------------------------
(***************************************************************************)
(* rbtree_to_array: the recursive copy of the keys in order into the       *)
(* caller's array, which may be smaller than the tree.  It reads the tree  *)
(* only, so it is evaluated in every state of RBTree between two calls.    *)
(***************************************************************************)
EXTENDS RBTree, FiniteSets

(* What the caller had in the array is NULL here, and no key.              *)
ASSUME ArrayAssumption == NULL \notin Key

(* The array has a slot more than the caller tells: nothing may be stored  *)
(* there.                                                                  *)
Arrays(nslots) == [0 .. nslots -> Int \cup {NULL}]

(* The arguments of a call, and what it leaves: the array and the index of *)
(* the next free slot.                                                     *)
Arguments(nslots) == [n : Ref, arr : Arrays(nslots), idx : Nat]
Copied(nslots) == [arr : Arrays(nslots), idx : Nat]

(* Mutant: the index the left subtree reached is dropped.                  *)
in_order_copy_restarts(nslots) ==
  LET copy[a \in Arguments(nslots)] ==
        IF a.n = nil \/ a.idx >= nslots THEN [arr |-> a.arr, idx |-> a.idx]
        ELSE LET l == copy[[a EXCEPT !.n = t.child["left"][a.n]]]
             IN  copy[[n |-> t.child["right"][a.n], arr |-> [l.arr EXCEPT ![a.idx] = t.key[a.n]],
                       idx |-> a.idx + 1]]
  IN  copy

in_order_copy(nslots) ==
  LET copy[a \in Arguments(nslots)] ==
        IF a.n = nil \/ a.idx >= nslots THEN [arr |-> a.arr, idx |-> a.idx]
        ELSE LET l == copy[[a EXCEPT !.n = t.child["left"][a.n]]]
                 stored == IF l.idx < nslots THEN [l.arr EXCEPT ![l.idx] = t.key[a.n]] ELSE l.arr
             IN  copy[[n |-> t.child["right"][a.n], arr |-> stored, idx |-> l.idx + 1]]
  IN  copy

rbtree_to_array(nslots) ==
  LET given == [i \in 0 .. nslots |-> NULL]
  IN  IF nslots = 0 THEN given
      ELSE in_order_copy(nslots)[[n |-> t.root, arr |-> given, idx |-> 0]].arr

(* rbtree_to_array stores the smallest keys in order, each as often as the *)
(* tree holds it, and stops at the array's end or the tree's (README of    *)
(* the lab: "in key order, only the first n when the tree is larger").     *)
ToArraySorted ==
  call = Idle =>
    LET count == Cardinality(live)
    IN  \A n \in 0 .. count + 1 :
          LET arr == rbtree_to_array(n)
              stored == {i \in 0 .. n : arr[i] # NULL}
          IN  /\ stored = 0 .. (IF n < count THEN n ELSE count) - 1
              /\ \A i \in stored :
                   \* as many nodes hold a smaller key as the order demands
                   /\ Cardinality({m \in live : t.key[m] < arr[i]}) <= i
                   /\ Cardinality({m \in live : t.key[m] <= arr[i]}) > i
=============================================================================
