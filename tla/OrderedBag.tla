----------------------------- MODULE OrderedBag -----------------------------
(***************************************************************************)
(* What the README of the red-black tree lab promises of the tree: an      *)
(* ordered multiset of keys.  Every key in it is held by a node, and a     *)
(* node pointer names the same key until that very node is erased.         *)
(* The detailed module RBTree implements this one.                         *)
(***************************************************************************)
EXTENDS Integers

CONSTANTS Node, Key, nil, NULL

VARIABLES keys,            \* node -> key, for the nodes in the multiset
          ret              \* what the last call returned

vars == <<keys, ret>>

Members == DOMAIN keys

Returned(op, value) == ret' = [op |-> op, value |-> value]

Init == keys = [n \in {} |-> 0] /\ ret = [op |-> "new", value |-> NULL]

(* A call is in progress; the multiset is as before it.                    *)
Begin == ret' = [op |-> "none"] /\ UNCHANGED keys

Insert(n, k) == /\ n \notin Members
                /\ keys' = [m \in Members \cup {n} |-> IF m = n THEN k ELSE keys[m]]
                /\ Returned("insert", n)

Erase(n) == /\ keys' = [m \in Members \ {n} |-> keys[m]]
            /\ Returned("erase", 1)

EraseNothing == Returned("erase", 0) /\ UNCHANGED keys

(* Any node with the key will do; NULL is returned only when there is none.*)
Find(k) ==
  LET found == {n \in Members : keys[n] = k}
  IN  /\ \E n \in IF found = {} THEN {NULL} ELSE found :
            Returned("find", [key |-> k, node |-> n])
      /\ UNCHANGED keys

(* The sentinel stands for the minimum and the maximum of nothing.         *)
Min == /\ \E n \in IF Members = {} THEN {nil}
                   ELSE {m \in Members : \A o \in Members : keys[m] <= keys[o]} :
             Returned("min", n)
       /\ UNCHANGED keys

Max == /\ \E n \in IF Members = {} THEN {nil}
                   ELSE {m \in Members : \A o \in Members : keys[o] <= keys[m]} :
             Returned("max", n)
       /\ UNCHANGED keys

Clear == keys' = [n \in {} |-> 0] /\ Returned("new", NULL)

Next == \/ Begin
        \/ \E n \in Node, k \in Key : Insert(n, k)
        \/ \E n \in Members : Erase(n)
        \/ EraseNothing
        \/ \E k \in Key : Find(k)
        \/ Min \/ Max \/ Clear

Spec == Init /\ [][Next]_vars
=============================================================================
