------------------------------- MODULE RBTree -------------------------------
(***************************************************************************)
(* The red-black tree of rbtree.c: nodes linked by pointers, with one      *)
(* sentinel node nil for all missing children and for the parent of the    *)
(* root.                                                                   *)
(*                                                                         *)
(* Every round of a loop is one action, so that the invariants speak of    *)
(* the tree in the middle of a rebuild as well as between two calls.  The  *)
(* halves of the code that mirror each other are one definition with the   *)
(* side d as a parameter.                                                  *)
(***************************************************************************)
EXTENDS Integers

CONSTANTS Node,            \* addresses calloc can return
          Key,             \* keys the client uses
          AddressFor,      \* AddressFor[k]: addresses the node of a k may get
          nil,             \* the sentinel
          NULL             \* C's NULL

ASSUME NodeAssumption == nil \notin Node /\ NULL \notin Node \cup {nil}
ASSUME KeyAssumption == Key \subseteq Int
ASSUME AddressAssumption == AddressFor \in [Key -> SUBSET Node]

VARIABLES t,               \* the root and the fields of every node
          live,            \* nodes that are allocated
          call,            \* the call in progress
          ret              \* what the last call returned

vars == <<t, live, call, ret>>

Ref == Node \cup {nil}

RED == "RBTREE_RED"
BLACK == "RBTREE_BLACK"

Sides == {"left", "right"}
Other(d) == IF d = "left" THEN "right" ELSE "left"

(* The side of its parent that n hangs on; the code asks for one side and  *)
(* takes the other for granted.                                            *)
SideOf(s, n) == IF n = s.child["left"][s.parent[n]] THEN "left" ELSE "right"

Idle == [op |-> "none"]
Returned(op, value) == [op |-> op, value |-> value]
Pending == [op |-> "none"]

----------------------------------------------------------------------------
(* Pointer surgery *)

(* The assignments of the code: to a child, to the parent, to the colour.  *)
set_child(s, d, n, c) == [s EXCEPT !.child[d][n] = c]
set_parent(s, n, p) == [s EXCEPT !.parent[n] = p]
recolor(s, n, c) == [s EXCEPT !.color[n] = c]

(* Mutant: v is always hung on the left.                                   *)
replace_child_left(s, u, v) ==
  IF s.parent[u] = nil THEN [s EXCEPT !.root = v]
  ELSE set_child(s, "left", s.parent[u], v)

(* The three-way branch that transplant and both rotations share: v takes  *)
(* the place of u below u's parent.                                        *)
replace_child(s, u, v) ==
  IF s.parent[u] = nil THEN [s EXCEPT !.root = v]
  ELSE set_child(s, SideOf(s, u), s.parent[u], v)

(* v's parent is set even when v is the sentinel.                          *)
transplant(s, u, v) == set_parent(replace_child(s, u, v), v, s.parent[u])

(* Mutant: the subtree that changes sides keeps its old parent.            *)
rotate_stale_parent(s, x, d) ==
  LET y == s.child[Other(d)][x]
      s1 == set_child(s, Other(d), x, s.child[d][y])
      s2 == set_parent(replace_child(s1, x, y), y, s.parent[x])
  IN  set_parent(set_child(s2, d, y, x), x, y)

(* rotate_left and rotate_right: x goes down on side d.                    *)
rotate(s, x, d) ==
  LET y == s.child[Other(d)][x]
      inner == s.child[d][y]
      s1 == set_child(s, Other(d), x, inner)
      s2 == IF inner # nil THEN set_parent(s1, inner, x) ELSE s1
      s3 == set_parent(replace_child(s2, x, y), y, s.parent[x])
  IN  set_parent(set_child(s3, d, y, x), x, y)

----------------------------------------------------------------------------
(* new_rbtree, and what a node that is not allocated holds: nothing reads  *)
(* it, so these fields stand for any.                                      *)

Empty == [root |-> nil,
          color |-> [n \in Ref |-> IF n = nil THEN BLACK ELSE RED],
          key |-> [n \in Ref |-> 0],
          parent |-> [n \in Ref |-> nil],
          child |-> [d \in Sides |-> [n \in Ref |-> nil]]]

free(s, n) == [s EXCEPT !.color[n] = RED, !.key[n] = 0, !.parent[n] = nil,
                        !.child = [d \in Sides |-> [@[d] EXCEPT ![n] = nil]]]

Init == /\ t = Empty
        /\ live = {}
        /\ call = Idle
        /\ ret = Returned("new", NULL)

----------------------------------------------------------------------------
(* rbtree_insert *)

BeginInsert(z, k) ==
  /\ call = Idle
  /\ z \in AddressFor[k] \ live
  /\ t' = [t EXCEPT !.key[z] = k, !.color[z] = RED]
  /\ live' = live \cup {z}
  /\ call' = [op |-> "descend", z |-> z, y |-> nil, x |-> t.root]
  /\ ret' = Pending

(* Equal keys go right.                                                    *)
side_for(z, y) == IF t.key[z] < t.key[y] THEN "left" ELSE "right"

(* Mutant: the key is compared with the node above the one walked from.    *)
DescendStale ==
  /\ call.op = "descend" /\ call.x # nil
  /\ call' = [call EXCEPT !.y = call.x,
                          !.x = t.child[side_for(call.z, call.y)][call.x]]
  /\ UNCHANGED <<t, live, ret>>

Descend ==
  /\ call.op = "descend" /\ call.x # nil
  /\ call' = [call EXCEPT !.y = call.x,
                          !.x = t.child[side_for(call.z, call.x)][call.x]]
  /\ UNCHANGED <<t, live, ret>>

Attach ==
  LET z == call.z
      y == call.y
      linked == IF y = nil THEN [t EXCEPT !.root = z]
                ELSE [t EXCEPT !.child[side_for(z, y)][y] = z]
  IN  /\ call.op = "descend" /\ call.x = nil
      /\ t' = [linked EXCEPT !.parent[z] = y]
      /\ call' = [op |-> "insert_fix", new |-> z, z |-> z]
      /\ UNCHANGED <<live, ret>>

(* Mutant: case 3 is missing, the loop waits for a parent that stays red.  *)
InsertFixRoundNoCase3 ==
  LET z == call.z
      p == t.parent[z]
      g == t.parent[p]
      d == SideOf(t, p)
      uncle == t.child[Other(d)][g]
      recolored == recolor(recolor(recolor(t, p, BLACK), uncle, BLACK), g, RED)
      inner == z = t.child[Other(d)][p]
  IN  /\ call.op = "insert_fix"
      /\ t.color[p] = RED
      /\ IF t.color[uncle] = RED
         THEN t' = recolored /\ call' = [call EXCEPT !.z = g]
         ELSE /\ t' = IF inner THEN rotate(t, p, d) ELSE t
              /\ call' = [call EXCEPT !.z = IF inner THEN p ELSE z]
      /\ UNCHANGED <<live, ret>>

(* One round of rebuild_after_insert: the parent of z is red.              *)
InsertFixRound ==
  LET z == call.z
      p == t.parent[z]
      g == t.parent[p]
      d == SideOf(t, p)
      uncle == t.child[Other(d)][g]
      recolored == recolor(recolor(recolor(t, p, BLACK), uncle, BLACK), g, RED)
      inner == z = t.child[Other(d)][p]                          \* case 2
      z3 == IF inner THEN p ELSE z
      s3 == IF inner THEN rotate(t, p, d) ELSE t
      p3 == s3.parent[z3]                                        \* case 3
      s4 == recolor(recolor(s3, p3, BLACK), s3.parent[p3], RED)
  IN  /\ call.op = "insert_fix"
      /\ t.color[p] = RED
      /\ IF t.color[uncle] = RED
         THEN t' = recolored /\ call' = [call EXCEPT !.z = g]    \* case 1
         ELSE /\ t' = rotate(s4, s4.parent[p3], Other(d))
              /\ call' = [call EXCEPT !.z = z3]
      /\ UNCHANGED <<live, ret>>

(* Mutant: the root is left red.                                           *)
EndInsertRootRed ==
  /\ call.op = "insert_fix"
  /\ t.color[t.parent[call.z]] # RED
  /\ call' = Idle
  /\ ret' = Returned("insert", call.new)
  /\ UNCHANGED <<t, live>>

EndInsert ==
  /\ call.op = "insert_fix"
  /\ t.color[t.parent[call.z]] # RED
  /\ t' = recolor(t, t.root, BLACK)
  /\ call' = Idle
  /\ ret' = Returned("insert", call.new)
  /\ UNCHANGED live

----------------------------------------------------------------------------
(* rbtree_erase *)

EndErase(s, z) ==
  /\ t' = free(s, z)
  /\ live' = live \ {z}
  /\ call' = Idle
  /\ ret' = Returned("erase", 1)

(* Mutant: the gap a black node leaves is not made up for.                 *)
SplicedNoRebuild(s, z, x, y_original_color) == EndErase(s, z)

(* z is out of the tree, in s, and x in the place of the node that left a  *)
(* gap; only a black gap must be made up for.                              *)
Spliced(s, z, x, y_original_color) ==
  IF y_original_color = BLACK
  THEN /\ t' = s
       /\ call' = [op |-> "erase_fix", z |-> z, x |-> x]
       /\ ret' = Pending
       /\ UNCHANGED live
  ELSE EndErase(s, z)

EraseNothing(p) ==
  /\ call = Idle /\ p \in {NULL, nil}
  /\ ret' = Returned("erase", 0)
  /\ UNCHANGED <<t, live, call>>

(* A node with a missing child is replaced by its other child.             *)
EraseNear(z) ==
  LET x == IF t.child["left"][z] = nil THEN t.child["right"][z]
                                       ELSE t.child["left"][z]
  IN  /\ call = Idle /\ z \in live
      /\ \E d \in Sides : t.child[d][z] = nil
      /\ Spliced(transplant(t, z, x), z, x, t.color[z])

(* A node with two children: the walk of subtree_min to its successor.     *)
BeginEraseFar(z) ==
  /\ call = Idle /\ z \in live
  /\ \A d \in Sides : t.child[d][z] # nil
  /\ call' = [op |-> "successor", z |-> z, y |-> t.child["right"][z]]
  /\ ret' = Pending
  /\ UNCHANGED <<t, live>>

WalkToSuccessor ==
  /\ call.op = "successor" /\ t.child["left"][call.y] # nil
  /\ call' = [call EXCEPT !.y = t.child["left"][call.y]]
  /\ UNCHANGED <<t, live, ret>>

(* Mutant: the successor keeps its own colour.                             *)
relink_keeps_color(s, z, y) ==
  LET x == s.child["right"][y]
      right == s.child["right"][z]
      s1 == IF s.parent[y] = z THEN set_parent(s, x, y)
            ELSE set_parent(set_child(transplant(s, y, x), "right", y, right), right, y)
      s2 == transplant(s1, z, y)
      left == s2.child["left"][z]
  IN  set_parent(set_child(s2, "left", y, left), left, y)

(* The successor y itself, not a copy of its key, takes the place of z, so *)
(* that pointers the client holds stay good.                               *)
relink_successor(s, z, y) ==
  LET x == s.child["right"][y]
      right == s.child["right"][z]
      s1 == IF s.parent[y] = z THEN set_parent(s, x, y)
            ELSE set_parent(set_child(transplant(s, y, x), "right", y, right), right, y)
      s2 == transplant(s1, z, y)
      left == s2.child["left"][z]
  IN  recolor(set_parent(set_child(s2, "left", y, left), left, y), y, s2.color[z])

(* Mutant: the key of the successor is copied and its node is freed.       *)
EraseFarByCopy ==
  LET y == call.y
      x == t.child["right"][y]
  IN  /\ call.op = "successor" /\ t.child["left"][y] = nil
      /\ Spliced([transplant(t, y, x) EXCEPT !.key[call.z] = t.key[y]],
                 y, x, t.color[y])

(* Mutant: the colour that decides is that of the erased node.             *)
EraseFarWrongColor ==
  LET y == call.y
  IN  /\ call.op = "successor" /\ t.child["left"][y] = nil
      /\ Spliced(relink_successor(t, call.z, y), call.z,
                 t.child["right"][y], t.color[call.z])

EraseFar ==
  LET y == call.y
  IN  /\ call.op = "successor" /\ t.child["left"][y] = nil
      /\ Spliced(relink_successor(t, call.z, y), call.z,
                 t.child["right"][y], t.color[y])

(* Case 1: a red sibling goes above the parent, a black one takes its      *)
(* place.                                                                  *)
raise_red_sibling(s, x, d) ==
  LET p == s.parent[x]
      w == s.child[Other(d)][p]
  IN  IF s.color[w] = RED
      THEN rotate(recolor(recolor(s, w, BLACK), p, RED), p, d)
      ELSE s

(* Case 3: the red nephew is on the near side, it becomes the sibling.     *)
raise_near_nephew(s, x, d) ==
  LET e == Other(d)
      w == s.child[e][s.parent[x]]
  IN  IF s.color[s.child[e][w]] = BLACK
      THEN rotate(recolor(recolor(s, s.child[d][w], BLACK), w, RED), w, e)
      ELSE s

(* Case 4: the sibling goes above the parent, whose colour it takes.       *)
close_gap(s, x, d) ==
  LET p == s.parent[x]
      w == s.child[Other(d)][p]
      s1 == recolor(recolor(s, w, s.color[p]), p, BLACK)
  IN  rotate(recolor(s1, s1.child[Other(d)][w], BLACK), p, d)

(* One round of rebuild_after_delete: x is black, with an extra black.     *)
EraseFixRound ==
  LET x == call.x
      d == SideOf(t, x)
      s1 == raise_red_sibling(t, x, d)
      w == s1.child[Other(d)][s1.parent[x]]
      black_nephews == \A side \in Sides :
                          s1.color[s1.child[side][w]] = BLACK
      s4 == close_gap(raise_near_nephew(s1, x, d), x, d)
  IN  /\ call.op = "erase_fix"
      /\ x # t.root /\ t.color[x] = BLACK
      /\ IF black_nephews
         THEN /\ t' = recolor(s1, w, RED)                        \* case 2
              /\ call' = [call EXCEPT !.x = s1.parent[x]]
         ELSE /\ t' = s4
              /\ call' = [call EXCEPT !.x = s4.root]
      /\ UNCHANGED <<live, ret>>

EndEraseFix ==
  /\ call.op = "erase_fix"
  /\ call.x = t.root \/ t.color[call.x] # BLACK
  /\ EndErase(recolor(t, call.x, BLACK), call.z)

----------------------------------------------------------------------------
(* rbtree_find, rbtree_min and rbtree_max: walks from the root. *)

BeginFind(k) ==
  /\ call = Idle
  /\ call' = [op |-> "find", key |-> k, x |-> t.root]
  /\ ret' = Pending
  /\ UNCHANGED <<t, live>>

FindStep ==
  /\ call.op = "find" /\ call.x # nil /\ call.key # t.key[call.x]
  /\ call' = [call EXCEPT !.x =
                IF call.key < t.key[call.x] THEN t.child["left"][call.x]
                                            ELSE t.child["right"][call.x]]
  /\ UNCHANGED <<t, live, ret>>

EndFind ==
  /\ call.op = "find"
  /\ call.x = nil \/ call.key = t.key[call.x]
  /\ call' = Idle
  /\ ret' = Returned("find", [key |-> call.key,
                              node |-> IF call.x = nil THEN NULL ELSE call.x])
  /\ UNCHANGED <<t, live>>

(* The minimum is the last node on the left side, the maximum on the right.*)
EndOf == [min |-> "left", max |-> "right"]

BeginWalk(op) ==
  /\ call = Idle
  /\ call' = [op |-> op, x |-> t.root]
  /\ ret' = Pending
  /\ UNCHANGED <<t, live>>

Walking == call.op \in DOMAIN EndOf

AtEnd == call.x = nil \/ t.child[EndOf[call.op]][call.x] = nil

WalkStep ==
  /\ Walking /\ ~AtEnd
  /\ call' = [call EXCEPT !.x = t.child[EndOf[call.op]][call.x]]
  /\ UNCHANGED <<t, live, ret>>

EndWalk ==
  /\ Walking /\ AtEnd
  /\ call' = Idle
  /\ ret' = Returned(call.op, call.x)
  /\ UNCHANGED <<t, live>>

----------------------------------------------------------------------------
(* delete_rbtree, whose free_subtree visits what the root reaches, and a   *)
(* new tree in its place.                                                  *)

(* Mutant: free_subtree forgets the right subtrees.                        *)
Subtree_left_only(s) ==
  LET under[n \in Ref] ==
        IF n = nil THEN {} ELSE under[s.child["left"][n]] \cup {n}
  IN  under

Subtree(s) ==
  LET under[n \in Ref] ==
        IF n = nil THEN {}
        ELSE under[s.child["left"][n]] \cup {n} \cup under[s.child["right"][n]]
  IN  under

Recreate ==
  /\ call = Idle
  /\ t' = Empty
  /\ live' = live \ Subtree(t)[t.root]
  /\ ret' = Returned("new", NULL)
  /\ UNCHANGED call

----------------------------------------------------------------------------
Round == \/ Descend \/ Attach \/ InsertFixRound \/ EndInsert
         \/ WalkToSuccessor \/ EraseFar \/ EraseFixRound \/ EndEraseFix
         \/ FindStep \/ EndFind \/ WalkStep \/ EndWalk

Next == \/ \E k \in Key : BeginFind(k) \/ \E z \in Node : BeginInsert(z, k)
        \/ \E z \in Node : EraseNear(z) \/ BeginEraseFar(z)
        \/ \E p \in {NULL, nil} : EraseNothing(p)
        \/ \E op \in DOMAIN EndOf : BeginWalk(op)
        \/ Recreate
        \/ Round

Spec == Init /\ [][Next]_vars

(* A call that has begun goes on: there is one thread and nothing blocks.  *)
FairSpec == Spec /\ WF_vars(Round)

----------------------------------------------------------------------------
(* Properties *)

(* The node a call is about to link, or has unlinked and not yet freed.    *)
Detached == IF call.op \in {"descend", "erase_fix"} THEN {call.z} ELSE {}

Linked == live \ Detached

(* Every variable has its type; a call in progress stands on nodes that    *)
(* are allocated.                                                          *)
TypeOK ==
  /\ t \in [root : Ref, color : [Ref -> {RED, BLACK}], key : [Ref -> Key \cup {0}],
            parent : [Ref -> Ref], child : [Sides -> [Ref -> Ref]]]
  /\ live \subseteq Node
  /\ \/ call = Idle
     \/ call \in [op : {"descend"}, z : live, y : live \cup {nil}, x : live \cup {nil}]
     \/ call \in [op : {"insert_fix"}, new : live, z : live]
     \/ call \in [op : {"successor"}, z : live, y : live]
     \/ call \in [op : {"erase_fix"}, z : live, x : live \cup {nil}]
     \/ call \in [op : {"find"}, key : Key, x : live \cup {nil}]
     \/ call \in [op : {"min", "max"}, x : live \cup {nil}]

(* Parent and child pointers agree, and none of them leads to a node that  *)
(* was freed or is not yet linked.                                         *)
ParentLinks ==
  /\ t.root = nil \/ (t.root \in Linked /\ t.parent[t.root] = nil)
  /\ \A n \in Linked, d \in Sides :
       LET c == t.child[d][n]
       IN  c # nil => c \in Linked /\ t.parent[c] = n /\ c # t.child[Other(d)][n]

(* rebuild_after_delete recolours siblings and nephews without asking      *)
(* whether they are the sentinel: the sentinel stays black and childless,  *)
(* and below the root the rebuild always finds a real sibling.             *)
SentinelIntact ==
  /\ t.color[nil] = BLACK /\ \A d \in Sides : t.child[d][nil] = nil
  /\ call.op = "erase_fix" /\ call.x # t.root =>
       t.child[Other(SideOf(t, call.x))][t.parent[call.x]] \in Linked

(* No rotation and no relinking loses a node or keeps a freed one: what    *)
(* the root reaches is what is linked.                                     *)
AllReachable == Subtree(t)[t.root] = Linked

(* delete_rbtree gives every node back.                                    *)
DeleteFreesAll == ret.op = "new" => live = {}

(* The keys are in order, in the middle of a rebuild too: on the left of a *)
(* node none is larger, on its right none is smaller.                      *)
SearchOrder ==
  LET under == Subtree(t)
  IN  \A n \in Linked :
        /\ \A m \in under[t.child["left"][n]] : t.key[m] <= t.key[n]
        /\ \A m \in under[t.child["right"][n]] : t.key[n] <= t.key[m]

(* rebuild_after_delete ends by making the node black at which it stands.  *)
ColorOf(n) ==
  IF call.op = "erase_fix" /\ n = call.x THEN BLACK ELSE t.color[n]

(* A red node has a black parent, and the root is black; during an insert  *)
(* the node at which rebuild_after_insert stands is the only exception.    *)
NoRedRed ==
  \A n \in Linked :
    ColorOf(n) = RED /\ ~(call.op = "insert_fix" /\ n = call.z) =>
       n # t.root /\ ColorOf(t.parent[n]) = BLACK

(* Every path down from a node passes the same number of black nodes; the  *)
(* node at which rebuild_after_delete stands counts one more.              *)
BlackBalanced ==
  LET weight(p, n) == (IF t.color[n] = BLACK THEN 1 ELSE 0)
                        + (IF call.op = "erase_fix" /\ n = call.x /\ p = t.parent[n]
                           THEN 1 ELSE 0)
      below[n \in Ref] ==
        IF n = nil THEN 0
        ELSE weight(n, t.child["left"][n]) + below[t.child["left"][n]]
  IN  \A n \in Linked :
        LET c == t.child["right"][n] IN below[n] = weight(n, c) + below[c]

(* The tree is the ordered multiset its README promises, and node pointers *)
(* stay good until their own node is erased.                               *)
Inserting == IF call.op = "descend" THEN {call.z}
             ELSE IF call.op = "insert_fix" THEN {call.new} ELSE {}

Bag == INSTANCE OrderedBag WITH keys <- [n \in live \ Inserting |-> t.key[n]]
ImplementsBag == Bag!Spec

(* Every rebuild and every walk comes to an end.                           *)
CallReturns == call # Idle ~> call = Idle
=============================================================================
