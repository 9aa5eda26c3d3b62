---------------------------- MODULE RBTreeProof ----------------------------
(***************************************************************************)
(* The safety properties of RBTree and RBTreeArray, and that the tree is an*)
(* ordered bag, for any number of nodes and any keys.                      *)
(*                                                                         *)
(* The invariant is about the tree together with two things the code does  *)
(* not keep: U[n], the set of nodes under n, and B[n], the number of black *)
(* nodes on the paths down from n.  Every step of the code is shown to     *)
(* keep some U and some B that fit the pointers.                           *)
(***************************************************************************)
EXTENDS RBTreeArray, FiniteSetTheorems, TLAPS

Tree == [root : Ref, color : [Ref -> {RED, BLACK}], key : [Ref -> Key \cup {0}],
         parent : [Ref -> Ref], child : [Sides -> [Ref -> Ref]]]

(* L are the nodes that are linked: the pointers stay among them, and each *)
(* child points back.                                                      *)
Links(s, L) ==
  /\ s \in Tree
  /\ L \subseteq Node
  /\ IsFiniteSet(L)
  /\ s.root \in L \cup {nil}
  /\ s.root # nil => s.parent[s.root] = nil
  /\ \A d \in Sides : s.child[d][nil] = nil
  /\ \A d \in Sides : \A n \in L :
       /\ s.child[d][n] \in L \cup {nil}
       /\ s.child[d][n] # nil => s.parent[s.child[d][n]] = n

(* U[n] are the nodes under n, n included: no node is under itself or under*)
(* both children of another, and all are under the root.                   *)
Under(s, L, U) ==
  /\ U \in [Ref -> SUBSET L]
  /\ U[nil] = {}
  /\ U[s.root] = L
  /\ \A d \in Sides : \A n \in L :
       /\ U[n] = {n} \cup U[s.child[d][n]] \cup U[s.child[Other(d)][n]]
       /\ n \notin U[s.child[d][n]]
       /\ U[s.child[d][n]] \cap U[s.child[Other(d)][n]] = {}

(* j may stand on side d of k.                                             *)
Before(d, j, k) == IF d = "left" THEN j <= k ELSE k <= j

Ordered(s, L, U) ==
  \A d \in Sides : \A n \in L : \A m \in U[s.child[d][n]] :
    Before(d, s.key[m], s.key[n])

Shape(s, L, U) == Links(s, L) /\ Under(s, L, U) /\ Ordered(s, L, U)

(* A gap is a place, side d of node n, below which one black node too few  *)
(* is passed; there is none if n is the sentinel.                          *)
Gap == [n : Ref, d : Sides]
NoGap == [n |-> nil, d |-> "left"]
Extra(gap, n, d) == IF n = gap.n /\ d = gap.d THEN 1 ELSE 0
Weight(s, n) == IF s.color[n] = BLACK THEN 1 ELSE 0

(* All paths down from n pass B[n] black nodes, the sentinel included.     *)
Heights(s, L, B, gap) ==
  /\ B \in [Ref -> Nat \ {0}]
  /\ B[nil] = 1
  /\ s.color[nil] = BLACK
  /\ \A d \in Sides : \A n \in L :
       B[n] = Weight(s, n) + B[s.child[d][n]] + Extra(gap, n, d)

(* A red node has a black parent; skip may be red below any, and so may    *)
(* what is below mid.                                                      *)
Reds(s, L, skip, mid) ==
  \A n \in L : s.color[n] = RED /\ n # skip /\ n # mid =>
    n # s.root /\ (s.color[s.parent[n]] = BLACK \/ s.parent[n] = mid)

----------------------------------------------------------------------------
(* The call in progress *)

Skip == IF call.op = "insert_fix" THEN call.z ELSE nil
Mid == IF call.op = "erase_fix" THEN call.x ELSE nil

(* The gap at which rebuild_after_delete stands.                           *)
GapAt(s, L, x, gap) ==
  IF x = s.root THEN gap = NoGap
  ELSE /\ gap.n = s.parent[x] /\ gap.n \in L
       /\ gap.d \in Sides
       /\ s.child[gap.d][gap.n] = x

Descending(U) ==
  /\ call.x = IF call.y = nil THEN t.root
              ELSE t.child[side_for(call.z, call.y)][call.y]
  /\ call.y = nil \/ call.y \in Linked
  /\ t.color[call.z] = RED
  /\ t.key[call.z] \in Key
  /\ \A d \in Sides : \A n \in Linked :
       call.y \in U[t.child[d][n]] => Before(d, t.key[call.z], t.key[n])

ToSuccessor(U) ==
  /\ \A d \in Sides : t.child[d][call.z] # nil
  /\ call.y \in U[t.child["right"][call.z]]
  /\ \A m \in U[t.child["right"][call.z]] \ U[call.y] : t.key[call.y] <= t.key[m]

Finding(U) == \A m \in live : t.key[m] = call.key => m \in U[call.x]

ToEnd(U) ==
  /\ call.x = nil => live = {}
  /\ \A m \in live \ U[call.x] : Before(EndOf[call.op], t.key[call.x], t.key[m])

CallInv(U, gap) ==
  /\ call.op = "descend" => Descending(U)
  /\ call.op = "insert_fix" => t.color[call.z] = RED
  /\ call.op = "successor" => ToSuccessor(U)
  /\ call.op = "erase_fix" => GapAt(t, Linked, call.x, gap)
  /\ call.op # "erase_fix" => gap = NoGap
  /\ call.op = "find" => Finding(U)
  /\ call.op \in {"min", "max"} => ToEnd(U)

(* What is not linked has no children, but for the node that is being      *)
(* erased, whose children are linked.                                      *)
Strays ==
  \A d \in Sides : \A n \in Ref \ Linked :
    IF call.op = "erase_fix" /\ n = call.z THEN t.child[d][n] \in Linked \cup {nil}
    ELSE t.child[d][n] = nil

CallOK ==
  \/ call = Idle
  \/ call \in [op : {"descend"}, z : live, y : Linked \cup {nil}, x : Linked \cup {nil}]
  \/ call \in [op : {"insert_fix"}, new : live, z : live]
  \/ call \in [op : {"successor"}, z : live, y : live]
  \/ call \in [op : {"erase_fix"}, z : live, x : Linked \cup {nil}]
  \/ call \in [op : {"find"}, key : Key, x : live \cup {nil}]
  \/ call \in [op : {"min", "max"}, x : live \cup {nil}]

IInvAt(U, B, gap) ==
  /\ CallOK
  /\ live \subseteq Node /\ IsFiniteSet(live)
  /\ Shape(t, Linked, U)
  /\ gap \in Gap
  /\ Heights(t, Linked, B, gap)
  /\ Reds(t, Linked, Skip, Mid)
  /\ Strays
  /\ CallInv(U, gap)
  /\ DeleteFreesAll
  /\ \A n \in live : t.key[n] \in Key

IInv == \E U, B, gap : IInvAt(U, B, gap)

----------------------------------------------------------------------------
(* Sides and colours *)

(* There are two sides, and Other leads from each to the other.            *)
LEMMA TwoSides ==
  /\ "left" \in Sides /\ "right" \in Sides
  /\ Other("left") = "right" /\ Other("right") = "left"
  /\ \A d \in Sides : Other(d) \in Sides /\ Other(d) # d /\ Other(Other(d)) = d
  /\ \A d, e \in Sides : e = d \/ e = Other(d)
  BY DEF Sides, Other

(* The two colours differ.                                                 *)
LEMMA TwoColors == RED # BLACK
  BY DEF RED, BLACK

(* The sentinel is no node.                                                *)
LEMMA NilIsNoNode == nil \notin Node /\ nil \in Ref /\ Node \subseteq Ref
  BY NodeAssumption DEF Ref

(* Keys are integers, and so is the order on them.                         *)
LEMMA KeysAreIntegers == \A s \in Tree : \A n \in Ref : s.key[n] \in Int
<1>1. Key \cup {0} \subseteq Int
  BY KeyAssumption
<1>2. ASSUME NEW s \in Tree, NEW n \in Ref PROVE s.key[n] \in Int
  <2>1. s.key \in [Ref -> Key \cup {0}]
    BY DEF Tree
  <2> HIDE DEF Ref
  <2> QED BY <1>1, <2>1
<1> QED BY <1>2

(* Before is transitive, and turns around with the side.                   *)
LEMMA BeforeOrders ==
  \A d \in Sides : \A i, j, k \in Int :
    /\ Before(d, i, i)
    /\ Before(d, i, j) /\ Before(d, j, k) => Before(d, i, k)
    /\ Before(d, i, j) <=> Before(Other(d), j, i)
  BY DEF Sides, Other, Before

----------------------------------------------------------------------------
(* What is under a node *)

(* v is below m, and not only under it.                                    *)
ParentIn(s, U, v, m) ==
  s.parent[v] \in U[m] /\ \E d \in Sides : s.child[d][s.parent[v]] = v

(* Induction over the tree: if some linked node is in T, then one is below *)
(* which there is none.                                                    *)
LEMMA Lowest ==
  ASSUME NEW s, NEW L, NEW U, Links(s, L), Under(s, L, U),
         NEW T, T \subseteq L, T # {}
  PROVE  \E n \in T : \A d \in Sides : s.child[d][n] \notin T
<1> DEFINE Sets == {U[n] : n \in T}
           R == StrictSubsetOrdering(L)
<1>1. IsWellFoundedOn(R, FiniteSubsetsOf(L))
  BY FS_StrictSubsetOrderingWellFounded
<1>2. FiniteSubsetsOf(L) = SUBSET L
  BY FS_FiniteSubsetsOfFinite DEF Links
<1>3. /\ \A n \in L : U[n] \subseteq L
      /\ \A d \in Sides : \A n \in L :
           U[s.child[d][n]] \subseteq U[n] /\ n \in U[n] /\ n \notin U[s.child[d][n]]
  BY TwoSides, NilIsNoNode DEF Links, Under
<1>4. Sets \subseteq SUBSET L /\ Sets # {}
  BY <1>3
<1>5. \E S \in Sets : \A Q \in Sets : <<Q, S>> \notin R
  <2> HIDE DEF Sets, R
  <2> QED BY <1>1, <1>2, <1>4, WFMin
<1>6. PICK n \in T : \A Q \in Sets : <<Q, U[n]>> \notin R
  BY <1>5
<1>7. ASSUME NEW d \in Sides, s.child[d][n] \in T PROVE FALSE
  <2>1. U[s.child[d][n]] \in Sets
    BY <1>7
  <2>2. U[s.child[d][n]] \in SUBSET L /\ U[n] \in SUBSET L
    BY <1>3, <1>7
  <2>3. U[s.child[d][n]] \subseteq U[n] /\ U[s.child[d][n]] # U[n]
    BY <1>3, <1>7
  <2>4. <<U[s.child[d][n]], U[n]>> \in R
    BY <2>2, <2>3 DEF StrictSubsetOrdering
  <2> QED BY <1>6, <2>1, <2>4
<1> QED BY <1>7

(* The sets of U are closed: what is under a node that is under m is under *)
(* m, and so is the parent of each but m itself.                           *)
LEMMA UnderIsClosed ==
  ASSUME NEW s, NEW L, NEW U, Links(s, L), Under(s, L, U),
         NEW m \in L, NEW v \in U[m]
  PROVE  U[v] \subseteq U[m] /\ (v = m \/ ParentIn(s, U, v, m))
<1> DEFINE Good(n) == U[v] \subseteq U[n] /\ (v = n \/ ParentIn(s, U, v, n))
           T == {n \in L : v \in U[n] /\ ~Good(n)}
<1> HIDE DEF Good
<1>1. SUFFICES ASSUME T # {} PROVE FALSE
  BY DEF Good
<1>2. T \subseteq L
  OBVIOUS
<1>3. PICK n \in T : \A d \in Sides : s.child[d][n] \notin T
  <2> HIDE DEF T
  <2> QED BY <1>1, <1>2, Lowest
<1>4. n # v
  BY <1>3 DEF Good
<1>5. PICK d \in Sides : v \in U[s.child[d][n]]
  BY <1>3, <1>4, TwoSides DEF Under
<1>6. s.child[d][n] \in L
  BY <1>5 DEF Links, Under
<1>7. Good(s.child[d][n])
  BY <1>3, <1>5, <1>6
<1>8. U[s.child[d][n]] \subseteq U[n] /\ n \in U[n]
  BY <1>3, <1>5, TwoSides DEF Under
<1>9. s.parent[s.child[d][n]] = n
  BY <1>3, <1>6, NilIsNoNode DEF Links
<1>10. ParentIn(s, U, v, n)
  BY <1>5, <1>7, <1>8, <1>9 DEF Good, ParentIn
<1> QED BY <1>3, <1>7, <1>8, <1>10 DEF Good

(* The parent of a linked node that is not the root is linked, and the     *)
(* node is one of its children, on one side only.                          *)
LEMMA ParentOf ==
  ASSUME NEW s, NEW L, NEW U, Links(s, L), Under(s, L, U), NEW v \in L
  PROVE  /\ v = s.root <=> s.parent[v] = nil
         /\ v # s.root => /\ s.parent[v] \in L
                          /\ \E d \in Sides : s.child[d][s.parent[v]] = v
<1>1. s.root \in L
  BY DEF Links, Under
<1>2. v \in U[s.root]
  BY DEF Under
<1>3. v # s.root => ParentIn(s, U, v, s.root)
  BY <1>1, <1>2, UnderIsClosed
<1>4. v # s.root => s.parent[v] \in L
  BY <1>3 DEF ParentIn, Under
<1> QED BY <1>1, <1>3, <1>4, NilIsNoNode DEF ParentIn, Links

(* The children of a node are two, and neither is the node or its parent.  *)
LEMMA Children ==
  ASSUME NEW s, NEW L, NEW U, Links(s, L), Under(s, L, U), NEW n \in L, NEW d \in Sides
  PROVE  LET c == s.child[d][n]
         IN  /\ n \in U[n]
             /\ c # n
             /\ c # nil => /\ c \in L /\ c \in U[c]
                           /\ c # s.child[Other(d)][n]
                           /\ c # s.parent[n]
                           /\ c # s.root
                           /\ s.parent[c] = n
<1> DEFINE c == s.child[d][n]
<1>1. \A m \in L : m \in U[m]
  BY TwoSides DEF Under
<1>2. c \in L \cup {nil} /\ (c # nil => s.parent[c] = n)
  BY DEF Links
<1>3. c # n
  BY <1>1 DEF Under
<1>4. c # nil => c # s.child[Other(d)][n]
  BY <1>1, <1>2 DEF Under
<1>5. c # nil => c # s.root
  BY <1>2, NilIsNoNode DEF Links
<1>6. ASSUME c # nil, c = s.parent[n] PROVE FALSE
  <2>1. n # s.root
    BY <1>6, ParentOf
  <2>2. PICK e \in Sides : s.child[e][c] = n
    BY <1>6, <2>1, ParentOf
  <2>3. c \in L /\ n \in U[c]
    BY <1>1, <1>2, <1>6, <2>2, TwoSides DEF Under
  <2>4. c \in U[n]
    BY <1>1, <2>3, TwoSides DEF Under
  <2>5. U[n] \subseteq U[c]
    BY <2>3, UnderIsClosed
  <2>6. c \notin U[n]
    BY <2>2, <2>3, TwoSides DEF Under
  <2> QED BY <2>4, <2>6
<1> QED BY <1>1, <1>2, <1>3, <1>4, <1>5, <1>6

----------------------------------------------------------------------------
(* Pointer surgery *)

(* u hangs in one place: at the root, or on one side of its parent.        *)
Placed(s, L, u) ==
  /\ u = s.root <=> s.parent[u] = nil
  /\ \A e \in Sides : \A n \in L : s.child[e][n] = u => n = s.parent[u]
  /\ s.parent[u] # nil =>
       /\ s.parent[u] \in L
       /\ \E e \in Sides : /\ s.child[e][s.parent[u]] = u
                           /\ s.child[Other(e)][s.parent[u]] # u

(* r is s with v in the place of u.                                        *)
Replaced(s, r, L, u, v) ==
  /\ r \in Tree
  /\ r.root = IF s.root = u THEN v ELSE s.root
  /\ r.color = s.color /\ r.key = s.key /\ r.parent = s.parent
  /\ \A e \in Sides : \A n \in L :
       r.child[e][n] = IF s.child[e][n] = u THEN v ELSE s.child[e][n]
  /\ \A e \in Sides : \A n \in Ref \ L : r.child[e][n] = s.child[e][n]

(* r is s but for one field: a child, a parent, a colour.                  *)
ChildSet(s, r, d, n, v) ==
  /\ r \in Tree /\ r.root = s.root /\ r.color = s.color /\ r.key = s.key
  /\ r.parent = s.parent
  /\ \A e \in Sides : \A m \in Ref :
       r.child[e][m] = IF e = d /\ m = n THEN v ELSE s.child[e][m]

ParentSet(s, r, n, v) ==
  /\ r \in Tree /\ r.root = s.root /\ r.color = s.color /\ r.key = s.key
  /\ r.child = s.child
  /\ \A m \in Ref : r.parent[m] = IF m = n THEN v ELSE s.parent[m]

ColorSet(s, r, n, c) ==
  /\ r \in Tree /\ r.root = s.root /\ r.key = s.key
  /\ r.parent = s.parent /\ r.child = s.child
  /\ \A m \in Ref : r.color[m] = IF m = n THEN c ELSE s.color[m]

(* A new root.                                                             *)
LEMMA SetRoot ==
  ASSUME NEW s \in Tree, NEW v \in Ref
  PROVE  LET r == [s EXCEPT !.root = v]
         IN  /\ r \in Tree /\ r.root = v /\ r.color = s.color /\ r.key = s.key
             /\ r.parent = s.parent /\ r.child = s.child
<1> HIDE DEF Ref, Sides
<1> QED BY DEF Tree

(* An assignment to a child changes this field only.                       *)
LEMMA SetChild ==
  ASSUME NEW s \in Tree, NEW d \in Sides, NEW n \in Ref, NEW v \in Ref
  PROVE  ChildSet(s, set_child(s, d, n, v), d, n, v)
<1> HIDE DEF Ref, Sides
<1> QED BY DEF Tree, set_child, ChildSet

(* An assignment to a parent.                                              *)
LEMMA SetParent ==
  ASSUME NEW s \in Tree, NEW n \in Ref, NEW v \in Ref
  PROVE  ParentSet(s, set_parent(s, n, v), n, v)
<1> HIDE DEF Ref, Sides
<1> QED BY DEF Tree, set_parent, ParentSet

(* An assignment to a colour.                                              *)
LEMMA SetColor ==
  ASSUME NEW s \in Tree, NEW n \in Ref, NEW c \in {RED, BLACK}
  PROVE  ColorSet(s, recolor(s, n, c), n, c)
<1> HIDE DEF Ref, Sides, RED, BLACK
<1> QED BY DEF Tree, recolor, ColorSet

(* replace_child does what its name says.                                  *)
LEMMA ReplaceChildEffect ==
  ASSUME NEW s \in Tree, NEW L, L \subseteq Node, NEW u \in Ref, NEW v \in Ref,
         Placed(s, L, u)
  PROVE  Replaced(s, replace_child(s, u, v), L, u, v)
<1> USE TwoSides, NilIsNoNode
<1>1. CASE s.parent[u] = nil
  <2>1. replace_child(s, u, v) = [s EXCEPT !.root = v]
    BY <1>1 DEF replace_child
  <2>2. s.root = u
    BY <1>1 DEF Placed
  <2>3. \A e \in Sides : \A n \in L : s.child[e][n] # u
    BY <1>1 DEF Placed
  <2> QED BY <2>1, <2>2, <2>3, SetRoot DEF Replaced
<1>2. CASE s.parent[u] # nil
  <2> DEFINE p == s.parent[u]
  <2>1. p \in L /\ s.root # u
    BY <1>2 DEF Placed
  <2>2. PICK e \in Sides : s.child[e][p] = u /\ s.child[Other(e)][p] # u
    BY <1>2 DEF Placed
  <2>3. SideOf(s, u) = e
    BY <2>2 DEF SideOf, Sides, Other
  <2>4. replace_child(s, u, v) = set_child(s, e, p, v)
    BY <1>2, <2>3 DEF replace_child
  <2>5. \A f \in Sides : \A n \in L : s.child[f][n] = u <=> (f = e /\ n = p)
    BY <2>2 DEF Placed
  <2>6. p \in Ref /\ Other(e) \in Sides
    BY <2>1, <2>2
  <2> HIDE DEF p
  <2>7. PICK r : r = set_child(s, e, p, v)
    OBVIOUS
  <2>8. /\ r \in Tree /\ r.root = s.root /\ r.color = s.color /\ r.key = s.key
        /\ r.parent = s.parent
        /\ \A f \in Sides : \A m \in Ref :
             r.child[f][m] = IF f = e /\ m = p THEN v ELSE s.child[f][m]
    <3>1. ChildSet(s, r, e, p, v)
      <4>1. ChildSet(s, set_child(s, e, p, v), e, p, v)
        BY <2>6, SetChild
      <4> QED BY <2>7, <4>1
    <3> QED BY <3>1 DEF ChildSet
  <2> QED BY <2>1, <2>4, <2>5, <2>7, <2>8 DEF Replaced
<1> QED BY <1>1, <1>2

(* Every linked node hangs in one place.                                   *)
LEMMA LinkedIsPlaced ==
  ASSUME NEW s, NEW L, NEW U, Links(s, L), Under(s, L, U), NEW u \in L
  PROVE  Placed(s, L, u)
<1> USE TwoSides, NilIsNoNode
<1>1. u # nil
  BY DEF Links
<1>2. \A e \in Sides : \A n \in L : s.child[e][n] = u => n = s.parent[u]
  BY <1>1 DEF Links
<1>3. ASSUME s.parent[u] # nil
      PROVE  /\ s.parent[u] \in L
             /\ \E e \in Sides : s.child[e][s.parent[u]] = u /\ s.child[Other(e)][s.parent[u]] # u
  <2>1. s.parent[u] \in L /\ \E e \in Sides : s.child[e][s.parent[u]] = u
    BY <1>3, ParentOf
  <2> QED BY <1>1, <2>1, Children
<1>4. u = s.root <=> s.parent[u] = nil
  BY ParentOf
<1> QED BY <1>2, <1>3, <1>4 DEF Placed

(* r is s with v in the place of u, below the parent of u.                 *)
Transplanted(s, r, L, u, v) ==
  /\ r \in Tree
  /\ r.root = IF s.root = u THEN v ELSE s.root
  /\ r.color = s.color /\ r.key = s.key
  /\ \A n \in Ref : r.parent[n] = IF n = v THEN s.parent[u] ELSE s.parent[n]
  /\ \A e \in Sides : \A n \in L :
       r.child[e][n] = IF s.child[e][n] = u THEN v ELSE s.child[e][n]
  /\ \A e \in Sides : \A n \in Ref \ L : r.child[e][n] = s.child[e][n]

(* transplant does that.                                                   *)
LEMMA TransplantEffect ==
  ASSUME NEW s \in Tree, NEW L, L \subseteq Node, NEW u \in Ref, NEW v \in Ref,
         Placed(s, L, u)
  PROVE  Transplanted(s, transplant(s, u, v), L, u, v)
<1> DEFINE q == replace_child(s, u, v)
<1>1. Replaced(s, q, L, u, v)
  BY ReplaceChildEffect
<1>2. s.parent[u] \in Ref /\ q \in Tree
  BY <1>1 DEF Tree, Replaced
<1>3. transplant(s, u, v) = set_parent(q, v, s.parent[u])
  BY DEF transplant
<1> HIDE DEF q
<1>4. ParentSet(q, set_parent(q, v, s.parent[u]), v, s.parent[u])
  BY <1>2, SetParent
<1>5. ParentSet(q, transplant(s, u, v), v, s.parent[u])
  BY <1>3, <1>4
<1> QED BY <1>1, <1>5 DEF Replaced, ParentSet, Transplanted

(* r is s after x went down on side d and its other child came up.         *)
Rotated(s, r, L, x, d) ==
  LET y == s.child[Other(d)][x]
      inner == s.child[d][y]
  IN  /\ r \in Tree
      /\ r.root = IF s.root = x THEN y ELSE s.root
      /\ r.color = s.color /\ r.key = s.key
      /\ \A n \in Ref : r.parent[n] = IF n = x THEN y
                                      ELSE IF n = y THEN s.parent[x]
                                      ELSE IF n = inner /\ n # nil THEN x
                                      ELSE s.parent[n]
      /\ r.child[d][x] = s.child[d][x] /\ r.child[Other(d)][x] = inner
      /\ r.child[d][y] = x /\ r.child[Other(d)][y] = s.child[Other(d)][y]
      /\ \A e \in Sides : \A n \in L \ {x, y} :
           r.child[e][n] = IF s.child[e][n] = x THEN y ELSE s.child[e][n]
      /\ \A e \in Sides : \A n \in Ref \ L : r.child[e][n] = s.child[e][n]

(* The node that goes down has a child that comes up.                      *)
CanRotate(s, L, U, x, d) ==
  /\ Links(s, L) /\ Under(s, L, U)
  /\ x \in L /\ d \in Sides /\ s.child[Other(d)][x] # nil

(* rotate does what Rotated says.                                          *)
LEMMA RotateEffect ==
  ASSUME NEW s, NEW L, NEW U, NEW x, NEW d, CanRotate(s, L, U, x, d)
  PROVE  Rotated(s, rotate(s, x, d), L, x, d)
<1> USE TwoSides, NilIsNoNode
<1>0. PICK o, y : o = Other(d) /\ y = s.child[o][x]
  OBVIOUS
<1>a. PICK inner : inner = s.child[d][y]
  OBVIOUS
<1>1. /\ s \in Tree /\ L \subseteq Node /\ Links(s, L) /\ Under(s, L, U)
      /\ x \in L /\ x \in Ref /\ d \in Sides /\ o \in Sides /\ o # d
  BY <1>0 DEF CanRotate, Links
<1>2. y \in L /\ y \in Ref /\ y # x /\ y # nil /\ s.parent[y] = x
  BY <1>0, <1>1, Children DEF CanRotate
<1>3. inner \in Ref /\ inner # y /\ inner # x
  <2>1. inner \in L \cup {nil}
    BY <1>1, <1>2, <1>a DEF Links
  <2>2. inner # y /\ (inner # nil => inner # s.parent[y])
    BY <1>1, <1>2, <1>a, Children
  <2>3. x # nil
    BY <1>1
  <2> QED BY <1>1, <1>2, <2>1, <2>2, <2>3
<1>4. Placed(s, L, x)
  BY <1>1, LinkedIsPlaced
<1>5. s.parent[x] \in Ref /\ s.parent[x] # x
  <2>1. s.parent[x] \in Ref
    BY <1>1 DEF Tree
  <2>2. ASSUME s.parent[x] = x PROVE FALSE
    <3>1. PICK e \in Sides : s.child[e][x] = x
      BY <1>1, <2>2 , <1>4 DEF Placed
    <3> QED BY <1>1, <3>1, Children
  <2> QED BY <2>1, <2>2
<1>b. PICK a : a = set_child(s, o, x, inner)
  OBVIOUS
<1>6. ChildSet(s, a, o, x, inner)
  <2>1. ChildSet(s, set_child(s, o, x, inner), o, x, inner)
    BY <1>1, <1>3, SetChild
  <2> QED BY <1>b, <2>1
<1>c. PICK s1 : s1 = IF inner # nil THEN set_parent(a, inner, x) ELSE a
  OBVIOUS
<1>7. ParentSet(a, set_parent(a, inner, x), inner, x) /\ a \in Tree
  BY <1>1, <1>3, <1>6, SetParent DEF ChildSet
<1>8. /\ s1 \in Tree /\ s1.root = s.root /\ s1.color = s.color /\ s1.key = s.key
      /\ s1.child = a.child
  BY <1>6, <1>7, <1>c DEF ParentSet, ChildSet
<1>9. \A m \in Ref : s1.parent[m] = IF m = inner /\ m # nil THEN x ELSE s.parent[m]
  BY <1>6, <1>7, <1>c DEF ParentSet, ChildSet
<1>10. s1.parent[x] = s.parent[x]
  BY <1>1, <1>3, <1>9
<1>11. \A e \in Sides : \A n \in L : s1.child[e][n] = x <=> s.child[e][n] = x
  <2>1. y # x /\ inner # x
    BY <1>2, <1>3
  <2> QED BY <1>0, <1>1, <1>6, <1>8, <2>1 DEF ChildSet
<1>12. Placed(s1, L, x)
  BY <1>1, <1>4, <1>8, <1>10, <1>11 DEF Placed
<1>e. PICK q : q = replace_child(s1, x, y)
  OBVIOUS
<1>13. Replaced(s1, q, L, x, y)
  BY <1>1, <1>2, <1>8, <1>12, <1>e, ReplaceChildEffect
<1>f. PICK s2 : s2 = set_parent(q, y, s.parent[x])
  OBVIOUS
<1>g. q \in Tree
  BY <1>13 DEF Replaced
<1>14. ParentSet(q, s2, y, s.parent[x]) /\ s2 \in Tree
  <2>1. ParentSet(q, set_parent(q, y, s.parent[x]), y, s.parent[x])
    BY <1>2, <1>5, <1>g, SetParent
  <2> QED BY <1>f, <2>1 DEF ParentSet
<1>h. PICK b : b = set_child(s2, d, y, x)
  OBVIOUS
<1>15. ChildSet(s2, b, d, y, x) /\ b \in Tree
  <2>1. ChildSet(s2, set_child(s2, d, y, x), d, y, x)
    BY <1>1, <1>2, <1>14, SetChild
  <2> QED BY <1>h, <2>1 DEF ChildSet
<1>i. PICK r : r = set_parent(b, x, y)
  OBVIOUS
<1>16. ParentSet(b, r, x, y)
  <2>1. ParentSet(b, set_parent(b, x, y), x, y)
    BY <1>1, <1>2, <1>15, SetParent
  <2> QED BY <1>i, <2>1
<1>17. rotate(s, x, d) = r
  BY <1>0, <1>a, <1>b, <1>c, <1>e, <1>f, <1>h, <1>i DEF rotate
<1>18. r.root = (IF s.root = x THEN y ELSE s.root) /\ r.color = s.color /\ r.key = s.key
  BY <1>8, <1>13, <1>14, <1>15, <1>16 DEF Replaced, ParentSet, ChildSet
<1>19. \A n \in Ref : r.parent[n] = IF n = x THEN y
                                    ELSE IF n = y THEN s.parent[x]
                                    ELSE IF n = inner /\ n # nil THEN x
                                    ELSE s.parent[n]
  BY <1>9, <1>13, <1>14, <1>15, <1>16 DEF Replaced, ParentSet, ChildSet
<1>20. \A e \in Sides : \A n \in L :
         r.child[e][n] = IF e = d /\ n = y THEN x
                         ELSE IF s1.child[e][n] = x THEN y ELSE s1.child[e][n]
  BY <1>1, <1>13, <1>14, <1>15, <1>16 DEF Replaced, ParentSet, ChildSet
<1>21. /\ r.child[d][x] = s.child[d][x] /\ r.child[o][x] = inner
       /\ r.child[d][y] = x /\ r.child[o][y] = s.child[o][y]
  <2>1. s.child[d][x] # x /\ s.child[o][y] # x
    <3>1. s.child[o][y] # nil => s.child[o][y] # s.parent[y]
      BY <1>1, <1>2, Children
    <3> QED BY <1>1, <1>2, <3>1, Children
  <2>2. s1.child[d][x] = s.child[d][x] /\ s1.child[o][x] = inner /\ s1.child[o][y] = s.child[o][y]
    BY <1>1, <1>2, <1>6, <1>8 DEF ChildSet
  <2> QED BY <1>1, <1>2, <1>3, <1>20, <2>1, <2>2
<1>22. \A e \in Sides : \A n \in L \ {x, y} :
         r.child[e][n] = IF s.child[e][n] = x THEN y ELSE s.child[e][n]
  BY <1>1, <1>6, <1>8, <1>20 DEF ChildSet
<1>23. \A e \in Sides : \A n \in Ref \ L : r.child[e][n] = s.child[e][n]
  <2>1. ASSUME NEW e \in Sides, NEW n \in Ref \ L PROVE r.child[e][n] = s.child[e][n]
    <3>1. n # x /\ n # y
      BY <1>1, <1>2
    <3>2. q.child[e][n] = s1.child[e][n]
      BY <1>13 DEF Replaced
    <3> QED BY <1>6, <1>8, <1>14, <1>15, <1>16, <3>1, <3>2 DEF ParentSet, ChildSet
  <2> QED BY <2>1
<1> QED BY <1>0, <1>a, <1>16, <1>17, <1>18, <1>19, <1>21, <1>22, <1>23 DEF Rotated, ParentSet

----------------------------------------------------------------------------
(* Rotations keep the shape *)

(* What is under each node after a rotation.                               *)
Turned(s, U, x, d) ==
  LET y == s.child[Other(d)][x]
  IN  [n \in Ref |-> IF n = x THEN {x} \cup U[s.child[d][x]] \cup U[s.child[d][y]]
                     ELSE IF n = y THEN U[x] ELSE U[n]]

(* The three nodes that a rotation is about, and the subtrees it moves.    *)
LEMMA AroundRotation ==
  ASSUME NEW s, NEW L, NEW U, NEW x, NEW d, CanRotate(s, L, U, x, d)
  PROVE  LET y == s.child[Other(d)][x]
             outer == s.child[Other(d)][y]
             inner == s.child[d][y]
             near == s.child[d][x]
         IN  /\ x \in L /\ y \in L /\ x # y /\ x # nil /\ y # nil /\ y # s.root
             /\ d \in Sides /\ Other(d) \in Sides /\ Other(Other(d)) = d
             /\ \A e \in Sides : e = d \/ e = Other(d)
             /\ \A c \in {near, inner, outer} :
                  c \in L \cup {nil} /\ c # x /\ c # y /\ U[c] \subseteq L
             /\ U[x] = {x, y} \cup U[near] \cup U[inner] \cup U[outer]
             /\ U[y] = {y} \cup U[inner] \cup U[outer]
             /\ \A c \in {near, inner, outer} : x \notin U[c] /\ y \notin U[c]
             /\ U[near] \cap U[inner] = {} /\ U[near] \cap U[outer] = {}
             /\ U[inner] \cap U[outer] = {}
             /\ s.parent[y] = x
             /\ near # nil => s.parent[near] = x
             /\ inner # nil => s.parent[inner] = y
             /\ outer # nil => s.parent[outer] = y
<1> USE TwoSides, NilIsNoNode
<1> DEFINE y == s.child[Other(d)][x]
           outer == s.child[Other(d)][y]
           inner == s.child[d][y]
           near == s.child[d][x]
<1>1. /\ x \in L /\ d \in Sides /\ Other(d) \in Sides /\ y # nil /\ x # nil
      /\ Links(s, L) /\ Under(s, L, U)
  BY DEF CanRotate, Links
<1>2. y \in L /\ y # x /\ y # s.root /\ s.parent[y] = x
  BY <1>1, Children
<1>3. /\ \A c \in {near, inner, outer} : c \in L \cup {nil}
      /\ near # nil => s.parent[near] = x
      /\ inner # nil => s.parent[inner] = y
      /\ outer # nil => s.parent[outer] = y
  BY <1>1, <1>2 DEF Links
<1>4. /\ U[x] = {x} \cup U[near] \cup U[y] /\ x \notin U[near] /\ x \notin U[y]
      /\ U[near] \cap U[y] = {}
  BY <1>1 DEF Under
<1>5. /\ U[y] = {y} \cup U[inner] \cup U[outer] /\ y \notin U[inner] /\ y \notin U[outer]
      /\ U[inner] \cap U[outer] = {}
  BY <1>1, <1>2 DEF Under
<1>6. \A c \in {near, inner, outer} : U[c] \subseteq L
  BY <1>1, <1>3 DEF Under, Links
<1>7. \A c \in {near, inner, outer} : c = nil \/ c \in U[c]
  BY <1>1, <1>3, Children
<1>8. \A c \in {near, inner, outer} : c # x /\ c # y
  BY <1>1, <1>2, <1>4, <1>5, <1>7
<1> QED BY <1>1, <1>2, <1>3, <1>4, <1>5, <1>6, <1>8

(* After a rotation the pointers agree.                                    *)
LEMMA RotateLinks ==
  ASSUME NEW s, NEW L, NEW U, NEW x, NEW d, CanRotate(s, L, U, x, d),
         NEW r, Rotated(s, r, L, x, d)
  PROVE  Links(r, L)
<1> USE TwoSides, NilIsNoNode
<1> DEFINE y == s.child[Other(d)][x]
           outer == s.child[Other(d)][y]
           inner == s.child[d][y]
           near == s.child[d][x]
<1>1. /\ x \in L /\ y \in L /\ x # y /\ x # nil /\ y # nil /\ y # s.root
      /\ d \in Sides /\ Other(d) \in Sides
      /\ \A e \in Sides : e = d \/ e = Other(d)
      /\ \A c \in {near, inner, outer} : c \in L \cup {nil} /\ c # x /\ c # y
      /\ s.parent[y] = x
      /\ near # nil => s.parent[near] = x
      /\ inner # nil => s.parent[inner] = y
      /\ outer # nil => s.parent[outer] = y
  BY AroundRotation
<1>2. Links(s, L) /\ Under(s, L, U) /\ L \subseteq Ref /\ nil \notin L
  BY DEF CanRotate, Links
<1>3. r.root \in L \cup {nil} /\ (r.root # nil => r.parent[r.root] = nil)
  <2>1. CASE s.root = x
    <3>1. s.parent[x] = nil
      BY <1>1, <1>2, <2>1 DEF Links
    <3> QED BY <1>1, <1>2, <2>1, <3>1 DEF Rotated
  <2>2. CASE s.root # x
    <3>1. r.root = s.root
      BY <2>2 DEF Rotated
    <3>2. s.root \in L \cup {nil} /\ (s.root # nil => s.parent[s.root] = nil)
      BY <1>2 DEF Links
    <3>3. s.root # nil => s.root # inner
      BY <1>1, <1>2, <3>2
    <3> QED BY <1>1, <1>2, <2>2, <3>1, <3>2, <3>3 DEF Rotated
  <2> QED BY <2>1, <2>2
<1>4. \A e \in Sides : r.child[e][nil] = nil
  BY <1>2 DEF Rotated, Links
<1>5. ASSUME NEW e \in Sides, NEW n \in L
      PROVE  /\ r.child[e][n] \in L \cup {nil}
             /\ r.child[e][n] # nil => r.parent[r.child[e][n]] = n
  <2>1. CASE n = x
    <3>1. near # inner \/ near = nil
      BY <1>1
    <3>2. /\ r.child[d][x] = near /\ r.child[Other(d)][x] = inner
          /\ near # nil => r.parent[near] = x
          /\ inner # nil => r.parent[inner] = x
      BY <1>1, <1>2, <3>1 DEF Rotated
    <3> QED BY <1>1, <2>1, <3>2
  <2>2. CASE n = y
    <3>1. outer # inner \/ outer = nil
      BY <1>1, <1>2, Children
    <3>2. /\ r.child[d][y] = x /\ r.child[Other(d)][y] = outer
          /\ r.parent[x] = y
          /\ outer # nil => r.parent[outer] = y
      BY <1>1, <1>2, <3>1 DEF Rotated
    <3> QED BY <1>1, <2>2, <3>2
  <2>3. CASE n \notin {x, y}
    <3> DEFINE c == s.child[e][n]
    <3>1. c \in L \cup {nil} /\ (c # nil => s.parent[c] = n)
      BY <1>2 DEF Links
    <3>2. r.child[e][n] = IF c = x THEN y ELSE c
      BY <2>3 DEF Rotated
    <3>3. CASE c = x
      BY <1>1, <1>2, <3>1, <3>2, <3>3 DEF Rotated
    <3>4. CASE c # x
      <4>1. c # nil => c # y /\ c # inner
        BY <1>1, <2>3, <3>1
      <4>2. c # nil => r.parent[c] = s.parent[c]
        BY <1>1, <1>2, <3>1, <3>4, <4>1 DEF Rotated
      <4> QED BY <3>1, <3>2, <3>4, <4>2
    <3> QED BY <3>3, <3>4
  <2> QED BY <2>1, <2>2, <2>3
<1> QED BY <1>2, <1>3, <1>4, <1>5 DEF Links, Rotated

(* After a rotation there is the same under every place of the tree.       *)
LEMMA RotateUnder ==
  ASSUME NEW s, NEW L, NEW U, NEW x, NEW d, CanRotate(s, L, U, x, d),
         NEW r, Rotated(s, r, L, x, d)
  PROVE  Under(r, L, Turned(s, U, x, d))
<1> USE TwoSides, NilIsNoNode
<1> DEFINE y == s.child[Other(d)][x]
           outer == s.child[Other(d)][y]
           inner == s.child[d][y]
           near == s.child[d][x]
           V == Turned(s, U, x, d)
<1>1. /\ x \in L /\ y \in L /\ x # y /\ x # nil /\ y # nil /\ y # s.root
      /\ d \in Sides /\ Other(d) \in Sides /\ Other(Other(d)) = d
      /\ \A e \in Sides : e = d \/ e = Other(d)
      /\ \A c \in {near, inner, outer} : c \in L \cup {nil} /\ c # x /\ c # y /\ U[c] \subseteq L
      /\ U[x] = {x, y} \cup U[near] \cup U[inner] \cup U[outer]
      /\ U[y] = {y} \cup U[inner] \cup U[outer]
      /\ \A c \in {near, inner, outer} : x \notin U[c] /\ y \notin U[c]
      /\ U[near] \cap U[inner] = {} /\ U[near] \cap U[outer] = {}
      /\ U[inner] \cap U[outer] = {}
      /\ s.parent[y] = x
  BY AroundRotation
<1>2. Links(s, L) /\ Under(s, L, U) /\ L \subseteq Ref /\ nil \notin L
  BY DEF CanRotate, Links
<1>3. /\ V[x] = {x} \cup U[near] \cup U[inner]
      /\ V[y] = U[x]
      /\ \A n \in Ref : n # x /\ n # y => V[n] = U[n]
  BY <1>1, <1>2 DEF Turned
<1>4. \A n \in Ref : V[n] \subseteq L
  <2>1. ASSUME NEW n \in Ref PROVE V[n] \subseteq L
    <3>1. U[n] \subseteq L /\ U[x] \subseteq L
      BY <1>1, <1>2 DEF Under
    <3>2. V[x] \subseteq L
      BY <1>1, <1>3
    <3> QED BY <1>3, <3>1, <3>2
  <2> QED BY <2>1
<1>5. V \in [Ref -> SUBSET L]
  BY <1>4 DEF Turned
<1> HIDE DEF V
<1>6. V[nil] = {} /\ V[r.root] = L
  <2>1. U[nil] = {} /\ U[s.root] = L /\ s.root \in Ref
    BY <1>2 DEF Under, Links
  <2>2. r.root = IF s.root = x THEN y ELSE s.root
    BY DEF Rotated
  <2> QED BY <1>1, <1>3, <2>1, <2>2
<1>7. ASSUME NEW e \in Sides, NEW n \in L
      PROVE  /\ V[n] = {n} \cup V[r.child[e][n]] \cup V[r.child[Other(e)][n]]
             /\ n \notin V[r.child[e][n]]
             /\ V[r.child[e][n]] \cap V[r.child[Other(e)][n]] = {}
  <2>1. CASE n = x
    <3>1. r.child[d][x] = near /\ r.child[Other(d)][x] = inner
      BY DEF Rotated
    <3>2. V[near] = U[near] /\ V[inner] = U[inner]
      BY <1>1, <1>2, <1>3
    <3>3. /\ V[x] = {x} \cup V[near] \cup V[inner]
          /\ x \notin V[near] /\ x \notin V[inner] /\ V[near] \cap V[inner] = {}
      BY <1>1, <1>3, <3>2
    <3>4. CASE e = d
      BY <2>1, <3>1, <3>3, <3>4
    <3>5. CASE e = Other(d)
      <4>1. Other(e) = d
        BY <1>1, <3>5
      <4>2. r.child[e][n] = inner /\ r.child[Other(e)][n] = near
        BY <2>1, <3>1, <3>5, <4>1
      <4> QED BY <2>1, <3>3, <4>2
    <3> QED BY <1>1, <3>4, <3>5
  <2>2. CASE n = y
    <3>1. r.child[d][y] = x /\ r.child[Other(d)][y] = outer
      BY DEF Rotated
    <3>2. V[outer] = U[outer]
      BY <1>1, <1>2, <1>3
    <3>3. /\ V[y] = {y} \cup V[x] \cup V[outer]
          /\ y \notin V[x] /\ y \notin V[outer] /\ V[x] \cap V[outer] = {}
      <4>1. V[y] = {y} \cup ({x} \cup U[near] \cup U[inner]) \cup U[outer]
        BY <1>1, <1>3
      <4>2. V[y] = {y} \cup V[x] \cup V[outer]
        BY <1>3, <3>2, <4>1
      <4>3. y \notin V[x] /\ y \notin V[outer]
        BY <1>1, <1>3, <3>2
      <4>4. V[x] \cap V[outer] = {}
        <5>1. ASSUME NEW v \in V[x], v \in V[outer] PROVE FALSE
          <6>1. v = x \/ v \in U[near] \/ v \in U[inner]
            BY <1>3
          <6>2. v \in U[outer]
            BY <3>2, <5>1
          <6>3. x \notin U[outer]
            BY <1>1
          <6>4. U[near] \cap U[outer] = {} /\ U[inner] \cap U[outer] = {}
            BY <1>1
          <6> QED BY <6>1, <6>2, <6>3, <6>4
        <5> QED BY <5>1
      <4> QED BY <4>2, <4>3, <4>4
    <3>4. CASE e = d
      BY <2>2, <3>1, <3>3, <3>4
    <3>5. CASE e = Other(d)
      <4>1. Other(e) = d
        BY <1>1, <3>5
      <4>2. r.child[e][n] = outer /\ r.child[Other(e)][n] = x
        BY <2>2, <3>1, <3>5, <4>1
      <4> QED BY <2>2, <3>3, <4>2
    <3> QED BY <1>1, <3>4, <3>5
  <2>3. CASE n \notin {x, y}
    <3>1. \A f \in Sides : r.child[f][n] = IF s.child[f][n] = x THEN y ELSE s.child[f][n]
      BY <2>3 DEF Rotated
    <3>2. \A f \in Sides : s.child[f][n] \in Ref /\ s.child[f][n] # y
      <4>1. \A f \in Sides : /\ s.child[f][n] \in L \cup {nil}
                             /\ s.child[f][n] # nil => s.parent[s.child[f][n]] = n
        BY <1>2 DEF Links
      <4> QED BY <1>1, <1>2, <2>3, <4>1
    <3>3. \A f \in Sides : V[r.child[f][n]] = U[s.child[f][n]]
      BY <1>1, <1>3, <3>1, <3>2
    <3>4. V[n] = U[n]
      BY <1>2, <1>3, <2>3
    <3>5. /\ U[n] = {n} \cup U[s.child[e][n]] \cup U[s.child[Other(e)][n]]
          /\ n \notin U[s.child[e][n]]
          /\ U[s.child[e][n]] \cap U[s.child[Other(e)][n]] = {}
      BY <1>2 DEF Under
    <3> QED BY <3>3, <3>4, <3>5
  <2> QED BY <2>1, <2>2, <2>3
<1> QED BY <1>5, <1>6, <1>7 DEF Under, V

(* After a rotation the keys are in the same order.                        *)
LEMMA RotateOrdered ==
  ASSUME NEW s, NEW L, NEW U, NEW x, NEW d, CanRotate(s, L, U, x, d), Ordered(s, L, U),
         NEW r, Rotated(s, r, L, x, d)
  PROVE  Ordered(r, L, Turned(s, U, x, d))
<1> USE TwoSides, NilIsNoNode
<1> DEFINE y == s.child[Other(d)][x]
           outer == s.child[Other(d)][y]
           inner == s.child[d][y]
           near == s.child[d][x]
           V == Turned(s, U, x, d)
<1>1. /\ x \in L /\ y \in L /\ x # y /\ x # nil /\ y # nil
      /\ d \in Sides /\ Other(d) \in Sides /\ Other(Other(d)) = d
      /\ \A e \in Sides : e = d \/ e = Other(d)
      /\ \A c \in {near, inner, outer} : c \in L \cup {nil} /\ c # x /\ c # y /\ U[c] \subseteq L
      /\ U[x] = {x, y} \cup U[near] \cup U[inner] \cup U[outer]
      /\ U[y] = {y} \cup U[inner] \cup U[outer]
      /\ s.parent[y] = x
  BY AroundRotation
<1>2. Links(s, L) /\ Under(s, L, U) /\ L \subseteq Ref /\ nil \notin L
  BY DEF CanRotate, Links
<1>3. /\ V[x] = {x} \cup U[near] \cup U[inner]
      /\ V[y] = U[x]
      /\ \A n \in Ref : n # x /\ n # y => V[n] = U[n]
  BY <1>1, <1>2 DEF Turned
<1> HIDE DEF V
<1>4. \A n \in L : s.key[n] \in Int
  BY <1>2, KeysAreIntegers DEF Links
<1>5. r.key = s.key
  BY DEF Rotated
<1>6. \A e \in Sides : \A n \in L : \A m \in U[s.child[e][n]] :
        Before(e, s.key[m], s.key[n])
  BY DEF Ordered
<1>7. ASSUME NEW e \in Sides, NEW n \in L, NEW m \in V[r.child[e][n]]
      PROVE  Before(e, s.key[m], s.key[n])
  <2>1. CASE n = x
    <3>1. r.child[d][x] = near /\ r.child[Other(d)][x] = inner
      BY DEF Rotated
    <3>2. V[near] = U[near] /\ V[inner] = U[inner]
      BY <1>1, <1>2, <1>3
    <3>3. U[inner] \subseteq U[y]
      BY <1>1
    <3> QED BY <1>1, <1>6, <2>1, <3>1, <3>2, <3>3
  <2>2. CASE n = y
    <3>1. r.child[d][y] = x /\ r.child[Other(d)][y] = outer
      BY DEF Rotated
    <3>2. V[outer] = U[outer]
      BY <1>1, <1>2, <1>3
    <3>3. CASE e = Other(d)
      BY <1>1, <1>6, <2>2, <3>1, <3>2, <3>3
    <3>4. CASE e = d
      <4>1. Before(Other(d), s.key[y], s.key[x])
        BY <1>1, <1>6
      <4>2. Before(d, s.key[x], s.key[y])
        BY <1>1, <1>4, <4>1, BeforeOrders
      <4>3. m = x \/ m \in U[near] \/ m \in U[inner]
        BY <1>3, <2>2, <3>1, <3>4
      <4>4. m \in U[near] => Before(d, s.key[m], s.key[x]) /\ m \in L
        BY <1>1, <1>6
      <4>5. m \in U[inner] => Before(d, s.key[m], s.key[y])
        BY <1>1, <1>6
      <4>6. m \in U[near] => Before(d, s.key[m], s.key[y])
        BY <1>1, <1>4, <4>2, <4>4, BeforeOrders
      <4> QED BY <2>2, <3>4, <4>2, <4>3, <4>5, <4>6
    <3> QED BY <1>1, <3>3, <3>4
  <2>3. CASE n \notin {x, y}
    <3>1. r.child[e][n] = IF s.child[e][n] = x THEN y ELSE s.child[e][n]
      BY <2>3 DEF Rotated
    <3>2. s.child[e][n] \in Ref /\ s.child[e][n] # y
      BY <1>1, <1>2, <2>3 DEF Links
    <3>3. V[r.child[e][n]] = U[s.child[e][n]]
      BY <1>1, <1>3, <3>1, <3>2
    <3> QED BY <1>6, <3>3
  <2> QED BY <2>1, <2>2, <2>3
<1>8. \A e \in Sides : \A n \in L : \A m \in V[r.child[e][n]] : Before(e, r.key[m], r.key[n])
  BY <1>5, <1>7
<1> QED BY <1>8 DEF Ordered, V

----------------------------------------------------------------------------
(* Rotations and colours *)

(* r is s but for the colours of nodes.                                    *)
Recolored(s, r) ==
  /\ s \in Tree /\ r \in Tree /\ r.color[nil] = s.color[nil]
  /\ r.root = s.root /\ r.key = s.key /\ r.parent = s.parent /\ r.child = s.child

(* Colours are no part of the shape.                                       *)
LEMMA RecoloredShape ==
  ASSUME NEW s, NEW r, Recolored(s, r)
  PROVE  /\ \A L : Links(s, L) => Links(r, L)
         /\ \A L, U : Under(s, L, U) => Under(r, L, U)
         /\ \A L, U : Ordered(s, L, U) => Ordered(r, L, U)
         /\ \A L, U : Shape(s, L, U) => Shape(r, L, U)
         /\ \A L, U, x, d : CanRotate(s, L, U, x, d) => CanRotate(r, L, U, x, d)
<1>1. \A L : Links(s, L) => Links(r, L)
  BY DEF Recolored, Links
<1>2. \A L, U : Under(s, L, U) => Under(r, L, U)
  BY DEF Recolored, Under
<1>3. \A L, U : Ordered(s, L, U) => Ordered(r, L, U)
  BY DEF Recolored, Ordered
<1>4. \A L, U, x, d : CanRotate(s, L, U, x, d) => CanRotate(r, L, U, x, d)
  <2>1. r.child = s.child
    BY DEF Recolored
  <2> QED BY <1>1, <1>2, <2>1 DEF CanRotate
<1> QED BY <1>1, <1>2, <1>3, <1>4 DEF Shape

(* Recolouring a node, as one change of colours, or two.                   *)
LEMMA RecolorNode ==
  ASSUME NEW s \in Tree, NEW n \in Ref, NEW c \in {RED, BLACK}, n # nil \/ c = s.color[nil]
  PROVE  /\ Recolored(s, recolor(s, n, c))
         /\ ColorSet(s, recolor(s, n, c), n, c)
<1>1. ColorSet(s, recolor(s, n, c), n, c)
  BY SetColor
<1> QED BY <1>1, NilIsNoNode DEF ColorSet, Recolored

(* Recolouring twice is recolouring.                                       *)
LEMMA RecoloredTwice ==
  ASSUME NEW s, NEW p, NEW r, Recolored(s, p), Recolored(p, r)
  PROVE  Recolored(s, r)
  BY DEF Recolored

(* A tree that some U and some B fit.                                      *)
Fits(s, L, gap, skip, mid) ==
  \E U, B : /\ Shape(s, L, U)
            /\ Heights(s, L, B, gap)
            /\ Reds(s, L, skip, mid)

(* A rotation that hands the colour of the node that goes down, x, to the  *)
(* red node that comes up: r is p after the rotation, p is s with these    *)
(* colours.                                                                *)
Pivoted(s, p, r, L, x, d) ==
  LET y == s.child[Other(d)][x]
  IN  /\ Recolored(s, p)
      /\ s.color[y] = RED
      /\ p.color[x] = RED /\ p.color[y] = s.color[x]
      /\ \A n \in Ref \ {x, y} : p.color[n] = s.color[n]
      /\ Rotated(p, r, L, x, d)

(* It keeps the shape.                                                     *)
LEMMA PivotShape ==
  ASSUME NEW s, NEW L, NEW U, NEW x, NEW d, CanRotate(s, L, U, x, d), Shape(s, L, U),
         NEW p, Recolored(s, p), NEW r, Rotated(p, r, L, x, d)
  PROVE  Shape(r, L, Turned(p, U, x, d))
<1>1. CanRotate(p, L, U, x, d) /\ Shape(p, L, U)
  BY RecoloredShape
<1>2. Ordered(p, L, U)
  BY <1>1 DEF Shape
<1>3. Links(r, L)
  BY <1>1, RotateLinks
<1>4. Under(r, L, Turned(p, U, x, d))
  BY <1>1, RotateUnder
<1>5. Ordered(r, L, Turned(p, U, x, d))
  BY <1>1, <1>2, RotateOrdered
<1> QED BY <1>3, <1>4, <1>5 DEF Shape

(* It keeps the number of black nodes on every path.                       *)
LEMMA PivotHeights ==
  ASSUME NEW s, NEW L, NEW U, NEW x, NEW d, CanRotate(s, L, U, x, d),
         NEW B, NEW gap, Heights(s, L, B, gap),
         NEW p, NEW r, Pivoted(s, p, r, L, x, d),
         gap.n # s.child[Other(d)][x], ~(gap.n = x /\ gap.d = Other(d))
  PROVE  \E B2 : Heights(r, L, B2, gap)
<1> USE TwoSides, TwoColors, NilIsNoNode
<1> DEFINE y == s.child[Other(d)][x]
           outer == s.child[Other(d)][y]
           inner == s.child[d][y]
           near == s.child[d][x]
           C == [n \in Ref |-> IF n = x THEN B[y] ELSE IF n = y THEN B[x] ELSE B[n]]
<1>1. /\ x \in L /\ y \in L /\ x # y /\ x # nil /\ y # nil
      /\ d \in Sides /\ Other(d) \in Sides
      /\ \A e \in Sides : e = d \/ e = Other(d)
      /\ \A c \in {near, inner, outer} : c \in L \cup {nil} /\ c # x /\ c # y
      /\ s.parent[y] = x
  BY AroundRotation
<1>2. Links(s, L) /\ L \subseteq Ref /\ nil \notin L /\ s \in Tree
  BY DEF CanRotate, Links
<1>3. /\ Recolored(s, p) /\ Rotated(p, r, L, x, d) /\ s.color[y] = RED
      /\ r.color[x] = RED /\ r.color[y] = s.color[x]
      /\ \A n \in Ref \ {x, y} : r.color[n] = s.color[n]
  BY DEF Pivoted, Rotated
<1>4. p.child = s.child
  BY <1>3 DEF Recolored
<1>5. /\ r.child[d][x] = near /\ r.child[Other(d)][x] = inner
      /\ r.child[d][y] = x /\ r.child[Other(d)][y] = outer
      /\ \A e \in Sides : \A n \in L \ {x, y} :
           r.child[e][n] = IF s.child[e][n] = x THEN y ELSE s.child[e][n]
  BY <1>3, <1>4 DEF Rotated
<1>6. /\ \A n \in Ref : B[n] \in Nat /\ B[n] # 0
      /\ B[nil] = 1 /\ s.color[nil] = BLACK
      /\ \A e \in Sides : \A n \in L :
           B[n] = Weight(s, n) + B[s.child[e][n]] + Extra(gap, n, e)
  BY DEF Heights
<1>7. C \in [Ref -> Nat \ {0}] /\ C[nil] = 1 /\ r.color[nil] = BLACK
  BY <1>1, <1>2, <1>3, <1>6
<1>8. C[x] = B[y] /\ C[y] = B[x] /\ \A n \in Ref : n # x /\ n # y => C[n] = B[n]
  BY <1>1, <1>2
<1> HIDE DEF C
<1>9. /\ Weight(s, y) = 0 /\ Weight(r, x) = 0 /\ Weight(r, y) = Weight(s, x)
      /\ \A n \in L : n # x /\ n # y => Weight(r, n) = Weight(s, n)
      /\ Weight(s, x) \in Nat
  BY <1>1, <1>2, <1>3 DEF Weight
<1>10. /\ Extra(gap, x, Other(d)) = 0 /\ \A e \in Sides : Extra(gap, y, e) = 0
       /\ \A e \in Sides : \A n \in L : Extra(gap, n, e) \in Nat
  BY DEF Extra
<1>11. /\ B[x] = Weight(s, x) + B[y]
       /\ B[x] = Weight(s, x) + B[near] + Extra(gap, x, d)
       /\ B[y] = B[inner] /\ B[y] = B[outer]
  BY <1>1, <1>2, <1>6, <1>9, <1>10
<1>12. near \in Ref /\ inner \in Ref /\ outer \in Ref
  BY <1>1, <1>2
<1>13. C[near] = B[near] /\ C[inner] = B[inner] /\ C[outer] = B[outer]
  BY <1>1, <1>8, <1>12
<1>14. ASSUME NEW e \in Sides, NEW n \in L
       PROVE  C[n] = Weight(r, n) + C[r.child[e][n]] + Extra(gap, n, e)
  <2>1. CASE n = x
    <3>1. CASE e = d
      <4>1. r.child[e][n] = near
        BY <1>5, <2>1, <3>1
      <4>2. Extra(gap, x, d) \in Nat /\ B[near] \in Nat /\ B[y] \in Nat
        BY <1>1, <1>2, <1>6, <1>10, <1>12
      <4>3. B[y] = B[near] + Extra(gap, x, d)
        BY <1>9, <1>11, <4>2
      <4> QED BY <1>8, <1>9, <1>13, <2>1, <3>1, <4>1, <4>2, <4>3
    <3>2. CASE e = Other(d)
      BY <1>5, <1>6, <1>8, <1>9, <1>10, <1>11, <1>12, <1>13, <2>1, <3>2
    <3> QED BY <1>1, <3>1, <3>2
  <2>2. CASE n = y
    <3>1. CASE e = d
      BY <1>1, <1>2, <1>5, <1>6, <1>8, <1>9, <1>10, <1>11, <2>2, <3>1
    <3>2. CASE e = Other(d)
      BY <1>1, <1>2, <1>5, <1>6, <1>8, <1>9, <1>10, <1>11, <1>13, <2>2, <3>2
    <3> QED BY <1>1, <3>1, <3>2
  <2>3. CASE n # x /\ n # y
    <3>1. r.child[e][n] = IF s.child[e][n] = x THEN y ELSE s.child[e][n]
      BY <1>5, <2>3
    <3>2. s.child[e][n] \in Ref /\ s.child[e][n] # y
      <4>1. /\ s.child[e][n] \in L \cup {nil}
            /\ s.child[e][n] # nil => s.parent[s.child[e][n]] = n
        BY <1>2 DEF Links
      <4> QED BY <1>1, <1>2, <2>3, <4>1
    <3>3. C[r.child[e][n]] = B[s.child[e][n]]
      BY <1>8, <3>1, <3>2
    <3>4. C[n] = B[n] /\ Weight(r, n) = Weight(s, n)
      BY <1>2, <1>8, <1>9, <2>3
    <3> QED BY <1>6, <3>3, <3>4
  <2> QED BY <2>1, <2>2, <2>3
<1>15. Heights(r, L, C, gap)
  BY <1>7, <1>14 DEF Heights
<1> QED BY <1>15

(* Where the parents are after a rotation of recoloured nodes.             *)
LEMMA RotatedParents ==
  ASSUME NEW s, NEW L, NEW U, NEW x, NEW d, CanRotate(s, L, U, x, d),
         NEW p, Recolored(s, p), NEW r, Rotated(p, r, L, x, d)
  PROVE  LET y == s.child[Other(d)][x]
             outer == s.child[Other(d)][y]
             inner == s.child[d][y]
             near == s.child[d][x]
         IN  /\ r.parent[x] = y /\ r.parent[y] = s.parent[x] /\ s.parent[x] \notin {x, y}
             /\ s.parent[x] \in Ref
             /\ outer # nil => r.parent[outer] = y
             /\ x # r.root /\ (y = r.root <=> x = s.root)
             /\ \A n \in L \ {x, y} : n # r.root <=> n # s.root
             /\ \A n \in L \ {x, y, near, inner, outer} :
                  /\ r.parent[n] = s.parent[n]
                  /\ s.parent[n] \in Ref \ {x, y}
<1> USE TwoSides, NilIsNoNode
<1> DEFINE y == s.child[Other(d)][x]
           outer == s.child[Other(d)][y]
           inner == s.child[d][y]
           near == s.child[d][x]
<1>1. /\ x \in L /\ y \in L /\ x # y /\ x # nil /\ y # nil /\ y # s.root
      /\ d \in Sides /\ Other(d) \in Sides
      /\ \A e \in Sides : e = d \/ e = Other(d)
      /\ \A c \in {near, inner, outer} : c \in L \cup {nil} /\ c # x /\ c # y
      /\ s.parent[y] = x
      /\ outer # nil => s.parent[outer] = y
  BY AroundRotation
<1>2. Links(s, L) /\ Under(s, L, U) /\ L \subseteq Ref /\ nil \notin L /\ s \in Tree
  BY DEF CanRotate, Links
<1>3. /\ p.child = s.child /\ p.parent = s.parent /\ p.root = s.root
      /\ Rotated(p, r, L, x, d)
  BY DEF Recolored
<1>4. /\ r.root = IF s.root = x THEN y ELSE s.root
      /\ \A n \in Ref : r.parent[n] = IF n = x THEN y
                                      ELSE IF n = y THEN s.parent[x]
                                      ELSE IF n = inner /\ n # nil THEN x
                                      ELSE s.parent[n]
  BY <1>3 DEF Rotated
<1>5. \A n \in L : /\ n = s.root <=> s.parent[n] = nil
                   /\ n # s.root => /\ s.parent[n] \in L
                                    /\ \E e \in Sides : s.child[e][s.parent[n]] = n
  BY <1>2, ParentOf
<1>6. s.parent[x] \notin {x, y}
  <2>1. s.parent[x] # x
    BY <1>1, <1>2, <1>5, Children
  <2>2. s.parent[x] # y
    <3>1. y # s.parent[x]
      BY <1>1, <1>2, Children
    <3> QED BY <3>1
  <2> QED BY <2>1, <2>2
<1>7. s.parent[x] \in Ref
  BY <1>1, <1>2, <1>5
<1>8. outer # nil => r.parent[outer] = y
  <2>1. outer # nil => outer # inner
    BY <1>1, <1>2, Children
  <2> QED BY <1>1, <1>2, <1>4, <2>1
<1>9. ASSUME NEW n \in L \ {x, y, near, inner, outer}
      PROVE  r.parent[n] = s.parent[n] /\ s.parent[n] \in Ref \ {x, y}
  <2>1. s.parent[n] \notin {x, y}
    BY <1>1, <1>2, <1>5
  <2> QED BY <1>2, <1>4, <1>5, <2>1
<1>10. r.parent[x] = y /\ r.parent[y] = s.parent[x]
  BY <1>1, <1>2, <1>4
<1>11. x # r.root /\ (y = r.root <=> x = s.root)
  BY <1>1, <1>4
<1>12. \A n \in L \ {x, y} : n # r.root <=> n # s.root
  BY <1>1, <1>4
<1> QED BY <1>6, <1>7, <1>8, <1>9, <1>10, <1>11, <1>12

(* A rotation of a black node below a red one leaves no new red node below *)
(* a red one.                                                              *)
LEMMA PivotBlack ==
  ASSUME NEW s, NEW L, NEW U, NEW x, NEW d, CanRotate(s, L, U, x, d),
         NEW skip, Reds(s, L, skip, nil),
         NEW p, NEW r, Pivoted(s, p, r, L, x, d),
         s.color[x] = BLACK, s.color[s.child[d][x]] = BLACK,
         s.color[s.child[d][s.child[Other(d)][x]]] = BLACK
  PROVE  Reds(r, L, skip, nil)
<1> USE TwoColors, NilIsNoNode
<1> DEFINE y == s.child[Other(d)][x]
           outer == s.child[Other(d)][y]
           inner == s.child[d][y]
           near == s.child[d][x]
<1>1. /\ x \in L /\ y \in L /\ x # y /\ x # nil /\ y # nil /\ y # s.root
      /\ \A c \in {near, inner, outer} : c \in L \cup {nil} /\ c # x /\ c # y
      /\ outer # nil => s.parent[outer] = y
  BY AroundRotation
<1>2. /\ r.parent[x] = y
      /\ outer # nil => r.parent[outer] = y
      /\ x # r.root
      /\ \A n \in L \ {x, y} : n # r.root <=> n # s.root
      /\ \A n \in L \ {x, y, near, inner, outer} :
           r.parent[n] = s.parent[n] /\ s.parent[n] \in Ref \ {x, y}
  <2>1. Recolored(s, p) /\ Rotated(p, r, L, x, d)
    BY DEF Pivoted
  <2> QED BY <2>1, RotatedParents
<1>3. /\ r.color[x] = RED /\ r.color[y] = BLACK
      /\ \A n \in Ref \ {x, y} : r.color[n] = s.color[n]
  BY DEF Pivoted, Rotated
<1>4. Links(s, L) /\ L \subseteq Ref /\ nil \notin L
  BY DEF CanRotate, Links
<1>5. ASSUME NEW n \in L, r.color[n] = RED, n # skip, n # nil
      PROVE  n # r.root /\ r.color[r.parent[n]] = BLACK
  <2>1. CASE n = x
    BY <1>2, <1>3, <2>1
  <2>2. n # y
    BY <1>3, <1>5
  <2>3. n \notin {x, y} => n # near /\ n # inner
    BY <1>3, <1>4, <1>5
  <2>4. CASE n = outer
    <3>1. n # s.root
      BY <1>1, <1>4, <1>5, <2>4 DEF Links
    <3> QED BY <1>1, <1>2, <1>3, <1>5, <2>4, <3>1
  <2>5. CASE n \in L \ {x, y, near, inner, outer}
    <3>1. s.color[n] = RED
      BY <1>3, <1>4, <1>5, <2>5
    <3>2. n # s.root /\ (s.color[s.parent[n]] = BLACK \/ s.parent[n] = nil)
      BY <1>5, <3>1 DEF Reds
    <3>3. s.parent[n] # nil
      BY <1>4, <3>2, ParentOf DEF CanRotate
    <3> QED BY <1>2, <1>3, <2>5, <3>2, <3>3
  <2> QED BY <1>5, <2>1, <2>2, <2>3, <2>4, <2>5
<1> QED BY <1>5 DEF Reds

(* A rotation of two red nodes, the lower of which was excused, leaves the *)
(* lower of them excused.                                                  *)
LEMMA PivotRed ==
  ASSUME NEW s, NEW L, NEW U, NEW x, NEW d, CanRotate(s, L, U, x, d),
         Reds(s, L, s.child[Other(d)][x], nil),
         NEW p, NEW r, Pivoted(s, p, r, L, x, d), s.color[x] = RED
  PROVE  Reds(r, L, x, nil)
<1> USE TwoSides, TwoColors, NilIsNoNode
<1> DEFINE y == s.child[Other(d)][x]
           outer == s.child[Other(d)][y]
           inner == s.child[d][y]
           near == s.child[d][x]
<1>1. /\ x \in L /\ y \in L /\ x # y /\ x # nil /\ y # nil /\ y # s.root
      /\ \A c \in {near, inner, outer} : c \in L \cup {nil} /\ c # x /\ c # y
      /\ near # nil => s.parent[near] = x
      /\ inner # nil => s.parent[inner] = y
      /\ outer # nil => s.parent[outer] = y
  BY AroundRotation
<1>2. /\ r.parent[y] = s.parent[x] /\ s.parent[x] \in Ref \ {x, y}
      /\ (y = r.root <=> x = s.root)
      /\ \A n \in L \ {x, y} : n # r.root <=> n # s.root
      /\ \A n \in L \ {x, y, near, inner, outer} :
           r.parent[n] = s.parent[n] /\ s.parent[n] \in Ref \ {x, y}
  <2>1. Recolored(s, p) /\ Rotated(p, r, L, x, d)
    BY DEF Pivoted
  <2> QED BY <2>1, RotatedParents
<1>3. /\ s.color[y] = RED
      /\ \A n \in Ref \ {x, y} : r.color[n] = s.color[n]
  BY DEF Pivoted, Rotated
<1>4. Links(s, L) /\ Under(s, L, U) /\ L \subseteq Ref /\ nil \notin L
  BY DEF CanRotate, Links
<1>5. \A n \in L : s.color[n] = RED /\ n # y => n # s.root /\ s.color[s.parent[n]] = BLACK
  <2>1. \A n \in L : n # s.root => s.parent[n] # nil
    BY <1>4, ParentOf
  <2> QED BY <1>4, <2>1 DEF Reds
<1>6. ASSUME NEW n \in L, r.color[n] = RED, n # x
      PROVE  n # r.root /\ r.color[r.parent[n]] = BLACK
  <2>1. CASE n = y
    <3>1. x # s.root /\ s.color[s.parent[x]] = BLACK
      BY <1>1, <1>5
    <3> QED BY <1>2, <1>3, <2>1, <3>1
  <2>2. CASE n \in {near, inner, outer}
    <3>1. s.color[n] = RED /\ n # nil /\ n # y
      BY <1>1, <1>3, <1>4, <1>6, <2>2
    <3>2. s.color[s.parent[n]] = RED
      BY <1>1, <1>3, <2>2, <3>1
    <3> QED BY <1>5, <3>1, <3>2
  <2>3. CASE n \in L \ {x, y, near, inner, outer}
    <3>1. s.color[n] = RED
      BY <1>3, <1>4, <1>6, <2>3
    <3>2. n # s.root /\ s.color[s.parent[n]] = BLACK
      BY <1>5, <2>3, <3>1
    <3> QED BY <1>2, <1>3, <2>3, <3>2
  <2> QED BY <1>6, <2>1, <2>2, <2>3
<1> QED BY <1>6 DEF Reds

----------------------------------------------------------------------------
(* rebuild_after_insert *)

(* What a rebuild leaves alone: the keys, and the nodes that are not       *)
(* linked.                                                                 *)
Kept(s, r, L) ==
  /\ r.key = s.key
  /\ \A e \in Sides : \A n \in Ref \ L : r.child[e][n] = s.child[e][n]

(* What two steps keep, both together keep.                                *)
LEMMA KeptTwice ==
  ASSUME NEW s, NEW p, NEW r, NEW L, Kept(s, p, L), Kept(p, r, L)
  PROVE  Kept(s, r, L)
  BY DEF Kept

(* A rotation of recoloured nodes keeps the rest.                          *)
LEMMA RotationKeeps ==
  ASSUME NEW s, NEW p, NEW r, NEW L, NEW x, NEW d, Recolored(s, p), Rotated(p, r, L, x, d)
  PROVE  Kept(s, r, L)
  BY DEF Recolored, Rotated, Kept

(* z is the red node that may have a red parent.                           *)
Rebuilding(s, L, z) ==
  /\ z \in L /\ s.color[z] = RED
  /\ Fits(s, L, NoGap, z, nil)

(* z, its parent and its grandparent on a line, the uncle black.           *)
OnALine(s, L, z, d) ==
  LET p == s.parent[z]
      g == s.parent[p]
  IN  /\ d \in Sides
      /\ p \in L /\ g \in L
      /\ s.color[p] = RED /\ s.color[g] = BLACK
      /\ s.child[d][p] = z /\ s.child[d][g] = p
      /\ s.color[s.child[Other(d)][g]] = BLACK

(* The same, but for z, which is on the inner side of its parent.          *)
Bent(s, L, z, d) ==
  LET p == s.parent[z]
      g == s.parent[p]
  IN  /\ d \in Sides
      /\ p \in L /\ g \in L
      /\ s.color[p] = RED /\ s.color[g] = BLACK
      /\ s.child[Other(d)][p] = z /\ s.child[d][g] = p
      /\ s.color[s.child[Other(d)][g]] = BLACK

(* Case 3: the grandparent goes down on the other side.                    *)
LEMMA InsertCase3 ==
  ASSUME NEW s, NEW L, NEW z, NEW d, Rebuilding(s, L, z), OnALine(s, L, z, d)
  PROVE  LET p == s.parent[z]
             s4 == recolor(recolor(s, p, BLACK), s.parent[p], RED)
             r == rotate(s4, s4.parent[p], Other(d))
         IN  Rebuilding(r, L, z) /\ Kept(s, r, L)
<1> USE TwoSides, TwoColors, NilIsNoNode
<1>1. PICK p : p = s.parent[z]
  OBVIOUS
<1>2. PICK g : g = s.parent[p]
  OBVIOUS
<1>3. PICK a : a = recolor(s, p, BLACK)
  OBVIOUS
<1>4. PICK b : b = recolor(a, g, RED)
  OBVIOUS
<1>5. PICK r : r = rotate(b, g, Other(d))
  OBVIOUS
<1>6. /\ d \in Sides /\ p \in L /\ g \in L /\ z \in L /\ s.color[z] = RED
      /\ s.color[p] = RED /\ s.color[g] = BLACK
      /\ s.child[d][p] = z /\ s.child[d][g] = p
      /\ s.color[s.child[Other(d)][g]] = BLACK
  BY <1>1, <1>2 DEF OnALine, Rebuilding
<1>7. PICK U, B : Shape(s, L, U) /\ Heights(s, L, B, NoGap) /\ Reds(s, L, z, nil)
  BY DEF Rebuilding, Fits
<1>8. Links(s, L) /\ Under(s, L, U) /\ s \in Tree /\ L \subseteq Ref /\ nil \notin L
  BY <1>7 DEF Shape, Links
<1>9. Recolored(s, a) /\ ColorSet(s, a, p, BLACK)
  BY <1>3, <1>6, <1>8, RecolorNode
<1>10. Recolored(a, b) /\ ColorSet(a, b, g, RED)
  BY <1>4, <1>6, <1>8, <1>9, RecolorNode DEF Recolored
<1>11. Recolored(s, b)
  BY <1>9, <1>10, RecoloredTwice
<1>12. p # g /\ z # g /\ z # p /\ p # nil /\ g # nil
  <2>1. p # g /\ z # p
    BY <1>6, <1>8, Children
  <2>2. z # g
    BY <1>6, <1>8, <2>1
  <2> QED BY <1>6, <1>8, <2>1, <2>2
<1> DEFINE o == Other(d)
<1>13. o \in Sides /\ Other(o) = d
  BY <1>6
<1>14. CanRotate(s, L, U, g, o) /\ s.child[Other(o)][g] = p
  BY <1>6, <1>8, <1>12, <1>13 DEF CanRotate
<1>15. Rotated(b, r, L, g, o)
  BY <1>5, <1>11, <1>14, RecoloredShape, RotateEffect
<1>16. b.color[g] = RED /\ b.color[p] = BLACK /\ \A n \in Ref \ {g, p} : b.color[n] = s.color[n]
  BY <1>6, <1>8, <1>9, <1>10, <1>12 DEF ColorSet
<1>17. Pivoted(s, b, r, L, g, o)
  BY <1>6, <1>11, <1>14, <1>15, <1>16 DEF Pivoted
<1>18. Shape(r, L, Turned(b, U, g, o))
  BY <1>7, <1>11, <1>14, <1>15, PivotShape
<1>19. PICK C : Heights(r, L, C, NoGap)
  <2>1. NoGap.n = nil
    BY DEF NoGap
  <2> QED BY <1>7, <1>12, <1>14, <1>17, <2>1, PivotHeights
<1>20. s.color[s.child[o][p]] = BLACK
  <2>1. s.child[o][p] # z /\ s.child[o][p] \in L \cup {nil}
    <3>1. z # nil
      BY <1>6, <1>8
    <3> QED BY <1>6, <1>8, <3>1, Children DEF Links
  <2>2. s.color[nil] = BLACK
    BY <1>7 DEF Heights
  <2>3. s.child[o][p] # nil => s.parent[s.child[o][p]] = p
    BY <1>6, <1>8, <1>13 DEF Links
  <2>4. s.child[o][p] # nil => s.color[s.child[o][p]] # RED
    BY <1>6, <1>7, <1>8, <1>12, <2>1, <2>3 DEF Reds
  <2>5. s.child[o][p] # nil => s.color[s.child[o][p]] \in {RED, BLACK}
    BY <1>8, <2>1 DEF Tree
  <2> QED BY <2>2, <2>4, <2>5
<1>21. Reds(r, L, z, nil)
  BY <1>6, <1>7, <1>14, <1>17, <1>20, PivotBlack
<1>22. r.color[z] = RED
  BY <1>6, <1>8, <1>12, <1>15, <1>16 DEF Rotated
<1>23. Rebuilding(r, L, z)
  BY <1>6, <1>18, <1>19, <1>21, <1>22 DEF Rebuilding, Fits
<1>24. Kept(s, r, L)
  BY <1>11, <1>15, RotationKeeps
<1>25. b.parent[p] = g
  BY <1>2, <1>11 DEF Recolored
<1> QED BY <1>1, <1>2, <1>3, <1>4, <1>5, <1>23, <1>24, <1>25

(* Case 2: z is on the inner side, its parent goes down and takes its      *)
(* place at the end of the line.                                           *)
LEMMA InsertCase2 ==
  ASSUME NEW s, NEW L, NEW z, NEW d, Rebuilding(s, L, z), Bent(s, L, z, d)
  PROVE  LET p == s.parent[z]
             r == rotate(s, p, d)
         IN  Rebuilding(r, L, p) /\ OnALine(r, L, p, d) /\ Kept(s, r, L)
<1> USE TwoSides, TwoColors, NilIsNoNode
<1>a. PICK p : p = s.parent[z]
  OBVIOUS
<1>b. PICK g : g = s.parent[p]
  OBVIOUS
<1>c. /\ d \in Sides /\ p \in L /\ g \in L
      /\ s.color[p] = RED /\ s.color[g] = BLACK
      /\ s.child[Other(d)][p] = z /\ s.child[d][g] = p
      /\ s.color[s.child[Other(d)][g]] = BLACK
  BY <1>a, <1>b DEF Bent
<1>1. PICK r : r = rotate(s, p, d)
  OBVIOUS
<1>2. PICK U, B : Shape(s, L, U) /\ Heights(s, L, B, NoGap) /\ Reds(s, L, z, nil)
  BY DEF Rebuilding, Fits
<1>3. /\ Links(s, L) /\ Under(s, L, U) /\ s \in Tree /\ L \subseteq Ref /\ nil \notin L
      /\ z \in L /\ s.color[z] = RED
  BY <1>2 DEF Shape, Links, Rebuilding
<1>4. Recolored(s, s)
  BY <1>3 DEF Recolored
<1>5. CanRotate(s, L, U, p, d)
  BY <1>3, <1>c DEF CanRotate
<1>6. Rotated(s, r, L, p, d)
  BY <1>1, <1>5, RotateEffect
<1>7. Pivoted(s, s, r, L, p, d)
  BY <1>3, <1>4, <1>6, <1>c DEF Pivoted
<1>8. Shape(r, L, Turned(s, U, p, d))
  BY <1>2, <1>4, <1>5, <1>6, PivotShape
<1>9. PICK C : Heights(r, L, C, NoGap)
  <2>1. NoGap.n = nil
    BY DEF NoGap
  <2> QED BY <1>2, <1>3, <1>5, <1>7, <1>c, <2>1, PivotHeights
<1>10. Reds(r, L, p, nil)
  BY <1>2, <1>5, <1>7, <1>c, PivotRed
<1>11. Rebuilding(r, L, p)
  BY <1>6, <1>8, <1>9, <1>10, <1>c DEF Rebuilding, Fits, Rotated
<1>12. Kept(s, r, L)
  BY <1>4, <1>6, RotationKeeps
<1>13. r.parent[p] = z /\ r.parent[z] = g
  BY <1>4, <1>5, <1>6, <1>b, <1>c, RotatedParents
<1>14. p # g /\ z # p /\ z # g
  <2>1. p # g /\ z # p
    BY <1>3, <1>c, Children
  <2>2. z # nil /\ g = s.parent[p]
    BY <1>3, <1>b
  <2>3. z # g
    BY <1>3, <1>c, <2>2, Children
  <2> QED BY <2>1, <2>3
<1>15. r.child[d][z] = p
  BY <1>6, <1>c DEF Rotated
<1>16. r.child[d][g] = z /\ r.child[Other(d)][g] = s.child[Other(d)][g]
  <2>1. s.child[Other(d)][g] # p
    BY <1>3, <1>c, Children
  <2> QED BY <1>6, <1>14, <1>c, <2>1 DEF Rotated
<1>17. r.color = s.color
  BY <1>6 DEF Rotated
<1>18. OnALine(r, L, p, d)
  BY <1>3, <1>13, <1>15, <1>16, <1>17, <1>c DEF OnALine
<1> QED BY <1>1, <1>11, <1>12, <1>18, <1>a

(* Case 1: parent and uncle become black, the grandparent red.             *)
LEMMA InsertCase1 ==
  ASSUME NEW s, NEW L, NEW z, Rebuilding(s, L, z), NEW d \in Sides,
         NEW p, p = s.parent[z], NEW g, g = s.parent[p], p \in L, g \in L,
         s.color[p] = RED, s.color[g] = BLACK, s.child[d][g] = p,
         NEW u, u = s.child[Other(d)][g], s.color[u] = RED
  PROVE  LET r == recolor(recolor(recolor(s, p, BLACK), u, BLACK), g, RED)
         IN  Rebuilding(r, L, g) /\ Kept(s, r, L)
<1> USE TwoSides, TwoColors, NilIsNoNode
<1>1. PICK a : a = recolor(s, p, BLACK)
  OBVIOUS
<1>2. PICK b : b = recolor(a, u, BLACK)
  OBVIOUS
<1>3. PICK r : r = recolor(b, g, RED)
  OBVIOUS
<1>4. PICK U, B : Shape(s, L, U) /\ Heights(s, L, B, NoGap) /\ Reds(s, L, z, nil)
  BY DEF Rebuilding, Fits
<1>5. /\ Links(s, L) /\ Under(s, L, U) /\ s \in Tree /\ L \subseteq Ref /\ nil \notin L
      /\ z \in L /\ s.color[z] = RED
  BY <1>4 DEF Shape, Links, Rebuilding
<1>6. /\ B \in [Ref -> Nat \ {0}] /\ B[nil] = 1 /\ s.color[nil] = BLACK
      /\ \A e \in Sides : \A n \in L :
           B[n] = Weight(s, n) + B[s.child[e][n]] + Extra(NoGap, n, e)
  BY <1>4 DEF Heights
<1>7. u \in L /\ p # nil /\ g # nil
  BY <1>5, <1>6 DEF Links
<1>8. p # g /\ u # g /\ u # p /\ s.parent[u] = g
  BY <1>5, <1>7, Children
<1>9. Recolored(s, a) /\ ColorSet(s, a, p, BLACK)
  BY <1>1, <1>5, <1>7, RecolorNode
<1>a. a \in Tree
  BY <1>9 DEF Recolored
<1>10. Recolored(a, b) /\ ColorSet(a, b, u, BLACK)
  BY <1>2, <1>5, <1>7, <1>a, RecolorNode
<1>b. b \in Tree
  BY <1>10 DEF Recolored
<1>11. Recolored(b, r) /\ ColorSet(b, r, g, RED)
  BY <1>3, <1>5, <1>7, <1>b, RecolorNode
<1>12. Recolored(s, r)
  BY <1>9, <1>10, <1>11, RecoloredTwice
<1>13. /\ r.color[g] = RED /\ r.color[p] = BLACK /\ r.color[u] = BLACK
       /\ \A n \in Ref \ {g, p, u} : r.color[n] = s.color[n]
       /\ r.child = s.child /\ r.parent = s.parent /\ r.root = s.root
  <2>1. r.child = s.child /\ r.parent = s.parent /\ r.root = s.root
    BY <1>12 DEF Recolored
  <2>2. \A n \in Ref : r.color[n] = IF n = g THEN RED
                                    ELSE IF n = u \/ n = p THEN BLACK
                                    ELSE s.color[n]
    BY <1>9, <1>10, <1>11 DEF ColorSet
  <2>3. g \in Ref /\ p \in Ref /\ u \in Ref
    BY <1>5, <1>7
  <2> QED BY <1>8, <2>1, <2>2, <2>3
<1>14. Shape(r, L, U)
  BY <1>4, <1>12, RecoloredShape
<1> DEFINE C == [n \in Ref |-> IF n = p \/ n = u THEN B[n] + 1 ELSE B[n]]
<1>15. \A n \in Ref : B[n] \in Nat /\ B[n] # 0
  BY <1>6
<1>16. C \in [Ref -> Nat \ {0}] /\ C[nil] = 1 /\ r.color[nil] = BLACK
  <2>1. \A n \in Ref : B[n] + 1 \in Nat \ {0} /\ B[n] \in Nat \ {0}
    BY <1>15
  <2>2. C \in [Ref -> Nat \ {0}]
    BY <2>1
  <2>3. nil # p /\ nil # u /\ nil # g
    BY <1>5, <1>7
  <2>4. C[nil] = 1
    BY <1>6, <2>3
  <2> HIDE DEF C
  <2> QED BY <1>6, <1>13, <2>2, <2>3, <2>4
<1>17. \A n \in Ref : C[n] = IF n = p \/ n = u THEN B[n] + 1 ELSE B[n]
  OBVIOUS
<1> HIDE DEF C
<1>18. \A e \in Sides : \A n \in L :
         /\ s.child[e][n] \in Ref
         /\ n # g => s.child[e][n] # p /\ s.child[e][n] # u
  BY <1>5, <1>7, <1>8 DEF Links
<1>19. \A e \in Sides : s.child[e][g] = p \/ s.child[e][g] = u
  OBVIOUS
<1>20. ASSUME NEW e \in Sides, NEW n \in L
       PROVE  C[n] = Weight(r, n) + C[r.child[e][n]] + Extra(NoGap, n, e)
  <2>1. Extra(NoGap, n, e) = 0
    BY <1>5 DEF Extra, NoGap
  <2>2. CASE n = g
    <3>1. Weight(s, g) = 1 /\ Weight(r, g) = 0
      BY <1>13 DEF Weight
    <3>2. C[r.child[e][g]] = B[s.child[e][g]] + 1 /\ B[s.child[e][g]] \in Nat
      BY <1>13, <1>15, <1>17, <1>18, <1>19
    <3>3. C[g] = B[g]
      BY <1>5, <1>8, <1>17
    <3>4. B[g] = 1 + B[s.child[e][g]] + 0
      BY <1>6, <2>1, <2>2, <3>1
    <3> QED BY <2>1, <2>2, <3>1, <3>2, <3>3, <3>4
  <2>3. CASE n = p \/ n = u
    <3>1. Weight(s, n) = 0 /\ Weight(r, n) = 1
      BY <1>13, <2>3 DEF Weight
    <3>2. C[r.child[e][n]] = B[s.child[e][n]] /\ B[s.child[e][n]] \in Nat
      <4>1. s.child[e][n] \in Ref /\ s.child[e][n] # p /\ s.child[e][n] # u
        BY <1>8, <1>18, <2>3
      <4> QED BY <1>13, <1>15, <1>17, <4>1
    <3>3. C[n] = B[n] + 1
      BY <1>5, <1>17, <2>3
    <3>4. B[n] = 0 + B[s.child[e][n]] + 0
      BY <1>6, <2>1, <3>1
    <3> QED BY <2>1, <3>1, <3>2, <3>3, <3>4
  <2>4. CASE n \notin {g, p, u}
    <3>1. Weight(s, n) = Weight(r, n)
      BY <1>5, <1>13, <2>4 DEF Weight
    <3>2. C[r.child[e][n]] = B[s.child[e][n]]
      BY <1>13, <1>17, <1>18, <2>4
    <3>3. C[n] = B[n]
      BY <1>5, <1>17, <2>4
    <3>4. B[n] = Weight(s, n) + B[s.child[e][n]] + Extra(NoGap, n, e)
      BY <1>6
    <3> QED BY <3>1, <3>2, <3>3, <3>4
  <2> QED BY <2>2, <2>3, <2>4
<1>21. Heights(r, L, C, NoGap)
  BY <1>16, <1>20 DEF Heights
<1>22. Reds(r, L, g, nil)
  <2>1. ASSUME NEW n \in L, r.color[n] = RED, n # g, n # nil
        PROVE  n # r.root /\ (r.color[r.parent[n]] = BLACK \/ r.parent[n] = nil)
    <3>1. n \notin {p, u} /\ s.color[n] = RED
      BY <1>5, <1>13, <2>1
    <3>2. CASE n = z
      <4>1. s.parent[z] # nil
        BY <1>7
      <4>2. z # s.root
        BY <1>5, <4>1, ParentOf
      <4> QED BY <1>13, <3>2, <4>2
    <3>3. CASE n # z
      <4>1. n # s.root /\ (s.color[s.parent[n]] = BLACK \/ s.parent[n] = nil)
        BY <1>4, <2>1, <3>1, <3>3 DEF Reds
      <4>2. s.parent[n] \in L
        BY <1>5, <4>1, ParentOf
      <4>3. s.parent[n] # g
        <5>1. \E e \in Sides : s.child[e][s.parent[n]] = n
          BY <1>5, <4>1, ParentOf
        <5> QED BY <1>19, <3>1, <5>1
      <4> QED BY <1>5, <1>13, <4>1, <4>2, <4>3
    <3> QED BY <3>2, <3>3
  <2> QED BY <2>1 DEF Reds
<1>23. Rebuilding(r, L, g)
  BY <1>13, <1>14, <1>21, <1>22 DEF Rebuilding, Fits
<1>24. Kept(s, r, L)
  BY <1>12 DEF Recolored, Kept
<1> QED BY <1>1, <1>2, <1>3, <1>23, <1>24

(* The nodes above a red node whose parent is red.                         *)
LEMMA RedBelowRed ==
  ASSUME NEW s, NEW L, NEW z, Rebuilding(s, L, z), s.color[s.parent[z]] = RED
  PROVE  LET p == s.parent[z]
             g == s.parent[p]
             d == SideOf(s, p)
         IN  /\ p \in L /\ g \in L /\ p # nil /\ g # nil /\ d \in Sides
             /\ s.color[g] = BLACK /\ s.child[d][g] = p
             /\ s.child[d][p] = z \/ s.child[Other(d)][p] = z
             /\ s.color[s.child[Other(d)][g]] \in {RED, BLACK}
<1> USE TwoSides, TwoColors, NilIsNoNode
<1> DEFINE p == s.parent[z]
           g == s.parent[p]
           d == SideOf(s, p)
<1>1. PICK U, B : Shape(s, L, U) /\ Heights(s, L, B, NoGap) /\ Reds(s, L, z, nil)
  BY DEF Rebuilding, Fits
<1>2. /\ Links(s, L) /\ Under(s, L, U) /\ s \in Tree /\ L \subseteq Ref /\ nil \notin L
      /\ z \in L /\ s.color[z] = RED /\ s.color[nil] = BLACK
  BY <1>1 DEF Shape, Links, Rebuilding, Heights
<1>3. z # s.root
  BY <1>2, ParentOf
<1>4. p \in L /\ \E e \in Sides : s.child[e][p] = z
  BY <1>2, <1>3, ParentOf
<1>5. p # z
  BY <1>2, <1>4, Children
<1>6. p # nil /\ p # s.root /\ (s.color[g] = BLACK \/ g = nil)
  BY <1>1, <1>2, <1>4, <1>5 DEF Reds
<1>7. g \in L /\ \E e \in Sides : s.child[e][g] = p
  BY <1>2, <1>4, <1>6, ParentOf
<1>8. d \in Sides /\ s.child[d][g] = p
  BY <1>7 DEF SideOf, Sides
<1>9. s.child[Other(d)][g] \in Ref
  BY <1>2, <1>7, <1>8 DEF Links
<1>10. s.color[s.child[Other(d)][g]] \in {RED, BLACK}
  BY <1>2, <1>9 DEF Tree
<1> QED BY <1>2, <1>4, <1>6, <1>7, <1>8, <1>10

(* A round of rebuild_after_insert.                                        *)
LEMMA InsertRound ==
  ASSUME InsertFixRound, Rebuilding(t, live, call.z)
  PROVE  /\ Kept(t, t', live)
         /\ \E z \in live : Rebuilding(t', live, z) /\ call' = [call EXCEPT !.z = z]
<1> USE TwoSides, TwoColors, NilIsNoNode
<1>1. PICK z : z = call.z
  OBVIOUS
<1>2. PICK p : p = t.parent[z]
  OBVIOUS
<1>3. PICK g : g = t.parent[p]
  OBVIOUS
<1>4. PICK d : d = SideOf(t, p)
  OBVIOUS
<1>5. PICK u : u = t.child[Other(d)][g]
  OBVIOUS
<1>6. t.color[p] = RED
  BY <1>1, <1>2 DEF InsertFixRound
<1>7. /\ p \in live /\ g \in live /\ p # nil /\ g # nil /\ d \in Sides
      /\ t.color[g] = BLACK /\ t.child[d][g] = p
      /\ t.child[d][p] = z \/ t.child[Other(d)][p] = z
      /\ t.color[u] \in {RED, BLACK}
  BY <1>1, <1>2, <1>3, <1>4, <1>5, <1>6, RedBelowRed
<1>8. CASE t.color[u] = RED
  <2>1. /\ t' = recolor(recolor(recolor(t, p, BLACK), u, BLACK), g, RED)
        /\ call' = [call EXCEPT !.z = g]
    BY <1>1, <1>2, <1>3, <1>4, <1>5, <1>8 DEF InsertFixRound
  <2>2. Rebuilding(t', live, g) /\ Kept(t, t', live)
    BY <1>1, <1>2, <1>3, <1>5, <1>6, <1>7, <1>8, <2>1, InsertCase1
  <2> QED BY <1>7, <2>1, <2>2
<1>9. CASE t.color[u] = BLACK
  <2>1. PICK inner : inner = (z = t.child[Other(d)][p])
    OBVIOUS
  <2>2. PICK z3 : z3 = IF inner THEN p ELSE z
    OBVIOUS
  <2>3. PICK s3 : s3 = IF inner THEN rotate(t, p, d) ELSE t
    OBVIOUS
  <2>4. PICK p3 : p3 = s3.parent[z3]
    OBVIOUS
  <2>5. PICK s4 : s4 = recolor(recolor(s3, p3, BLACK), s3.parent[p3], RED)
    OBVIOUS
  <2>6. t' = rotate(s4, s4.parent[p3], Other(d)) /\ call' = [call EXCEPT !.z = z3]
    BY <1>1, <1>2, <1>3, <1>4, <1>5, <1>9, <2>1, <2>2, <2>3, <2>4, <2>5 DEF InsertFixRound
  <2>7. Rebuilding(s3, live, z3) /\ OnALine(s3, live, z3, d) /\ Kept(t, s3, live)
    <3>1. CASE inner
      <4>1. Bent(t, live, z, d)
        BY <1>2, <1>3, <1>5, <1>6, <1>7, <1>9, <2>1, <3>1 DEF Bent
      <4>2. z3 = t.parent[z] /\ s3 = rotate(t, t.parent[z], d)
        BY <1>2, <2>2, <2>3, <3>1
      <4> QED BY <1>1, <4>1, <4>2, InsertCase2
    <3>2. CASE ~inner
      <4>1. t.child[d][p] = z
        BY <1>7, <2>1, <3>2
      <4>2. OnALine(t, live, z, d)
        BY <1>2, <1>3, <1>5, <1>6, <1>7, <1>9, <4>1 DEF OnALine
      <4>3. Kept(t, t, live)
        BY DEF Kept
      <4> QED BY <1>1, <2>2, <2>3, <3>2, <4>2, <4>3
    <3> QED BY <3>1, <3>2
  <2>8. Rebuilding(t', live, z3) /\ Kept(s3, t', live)
    BY <2>4, <2>5, <2>6, <2>7, InsertCase3
  <2>9. Kept(t, t', live)
    BY <2>7, <2>8, KeptTwice
  <2>10. z3 \in live
    BY <2>8 DEF Rebuilding
  <2> QED BY <2>6, <2>8, <2>9, <2>10
<1> QED BY <1>7, <1>8, <1>9

(* The root is made black at last.                                         *)
LEMMA InsertEnd ==
  ASSUME NEW s, NEW L, NEW z, Rebuilding(s, L, z), s.color[s.parent[z]] # RED
  PROVE  LET r == recolor(s, s.root, BLACK)
         IN  Fits(r, L, NoGap, nil, nil) /\ Kept(s, r, L)
<1> USE TwoSides, TwoColors, NilIsNoNode
<1>1. PICK r : r = recolor(s, s.root, BLACK)
  OBVIOUS
<1>2. PICK U, B : Shape(s, L, U) /\ Heights(s, L, B, NoGap) /\ Reds(s, L, z, nil)
  BY DEF Rebuilding, Fits
<1>3. /\ Links(s, L) /\ Under(s, L, U) /\ s \in Tree /\ L \subseteq Ref /\ nil \notin L
      /\ z \in L /\ s.color[z] = RED
  BY <1>2 DEF Shape, Links, Rebuilding
<1>4. /\ B \in [Ref -> Nat \ {0}] /\ B[nil] = 1 /\ s.color[nil] = BLACK
      /\ \A e \in Sides : \A n \in L :
           B[n] = Weight(s, n) + B[s.child[e][n]] + Extra(NoGap, n, e)
  BY <1>2 DEF Heights
<1> DEFINE root == s.root
<1>5. root \in L /\ root # nil
  BY <1>3 DEF Links, Under
<1>6. Recolored(s, r) /\ ColorSet(s, r, root, BLACK)
  BY <1>1, <1>3, <1>5, RecolorNode
<1>7. /\ r.color[root] = BLACK /\ \A n \in Ref \ {root} : r.color[n] = s.color[n]
      /\ r.child = s.child /\ r.parent = s.parent /\ r.root = root
  BY <1>3, <1>5, <1>6 DEF ColorSet, Recolored
<1>8. Shape(r, L, U)
  BY <1>2, <1>6, RecoloredShape
<1> DEFINE C == [n \in Ref |-> IF n = root THEN B[n] + 1 - Weight(s, n) ELSE B[n]]
<1>9. \A n \in Ref : B[n] \in Nat /\ B[n] # 0
  BY <1>4
<1>10. \A n \in Ref : Weight(s, n) \in {0, 1}
  BY DEF Weight
<1>11. \A n \in Ref : C[n] = IF n = root THEN B[n] + 1 - Weight(s, n) ELSE B[n]
  OBVIOUS
<1>12. C \in [Ref -> Nat \ {0}] /\ C[nil] = 1 /\ r.color[nil] = BLACK
  BY <1>4, <1>5, <1>7, <1>9, <1>10
<1> HIDE DEF C
<1>13. ASSUME NEW e \in Sides, NEW n \in L
       PROVE  C[n] = Weight(r, n) + C[r.child[e][n]] + Extra(NoGap, n, e)
  <2>1. Extra(NoGap, n, e) = 0
    BY <1>3 DEF Extra, NoGap
  <2>2. s.child[e][n] # root /\ s.child[e][n] \in Ref
    BY <1>3, <1>5, Children DEF Links
  <2>3. C[r.child[e][n]] = B[s.child[e][n]]
    BY <1>7, <1>11, <2>2
  <2>4. B[n] = Weight(s, n) + B[s.child[e][n]] + 0
    BY <1>4, <2>1
  <2>5. B[n] \in Nat /\ B[s.child[e][n]] \in Nat /\ Weight(s, n) \in {0, 1}
    BY <1>3, <1>9, <1>10, <2>2
  <2>6. CASE n = root
    <3>1. Weight(r, n) = 1 /\ C[n] = B[n] + 1 - Weight(s, n)
      BY <1>3, <1>7, <1>11, <2>6 DEF Weight
    <3> QED BY <2>1, <2>3, <2>4, <2>5, <3>1
  <2>7. CASE n # root
    <3>1. Weight(r, n) = Weight(s, n) /\ C[n] = B[n]
      BY <1>3, <1>7, <1>11, <2>7 DEF Weight
    <3> QED BY <2>1, <2>3, <2>4, <3>1
  <2> QED BY <2>6, <2>7
<1>14. Heights(r, L, C, NoGap)
  BY <1>12, <1>13 DEF Heights
<1>15. Reds(r, L, nil, nil)
  <2>1. ASSUME NEW n \in L, r.color[n] = RED
        PROVE  n # r.root /\ (r.color[r.parent[n]] = BLACK \/ r.parent[n] = nil)
    <3>1. n # root /\ s.color[n] = RED
      BY <1>3, <1>7, <2>1
    <3>2. s.parent[n] \in L
      BY <1>3, <3>1, ParentOf
    <3>3. s.color[s.parent[n]] = BLACK
      <4>1. CASE n = z
        <5>1. s.color[s.parent[z]] \in {RED, BLACK}
          BY <1>3, <3>2, <4>1 DEF Tree
        <5> QED BY <4>1, <5>1
      <4>2. CASE n # z
        BY <1>2, <1>3, <3>1, <3>2, <4>2 DEF Reds
      <4> QED BY <4>1, <4>2
    <3> QED BY <1>3, <1>7, <3>1, <3>2, <3>3
  <2> QED BY <2>1 DEF Reds
<1>16. Kept(s, r, L)
  BY <1>6 DEF Recolored, Kept
<1> QED BY <1>1, <1>8, <1>14, <1>15, <1>16 DEF Fits

----------------------------------------------------------------------------
(* rebuild_after_delete *)

(* The tree in the middle of rebuild_after_delete, which stands at x.      *)
Gapped(s, L, x) ==
  /\ x \in L \cup {nil}
  /\ \E gap \in Gap : GapAt(s, L, x, gap) /\ Fits(s, L, gap, nil, x)

(* x is black with an extra black, on side d of its parent.                *)
Doubly(s, L, x, d) ==
  /\ d \in Sides /\ x \in L \cup {nil} /\ x # s.root /\ s.color[x] = BLACK
  /\ s.parent[x] \in L /\ s.child[d][s.parent[x]] = x
  /\ Fits(s, L, [n |-> s.parent[x], d |-> d], nil, nil)

(* Such an x has a real sibling.                                           *)
LEMMA RealSibling ==
  ASSUME NEW s, NEW L, NEW p, NEW d \in Sides, p \in L,
         NEW gap, gap.n = p, gap.d = d,
         NEW skip, NEW mid, Fits(s, L, gap, skip, mid)
  PROVE  /\ s.child[Other(d)][p] \in L
         /\ s.child[d][p] # s.child[Other(d)][p]
<1> USE TwoSides, NilIsNoNode
<1>1. PICK U, B : Shape(s, L, U) /\ Heights(s, L, B, gap)
  BY DEF Fits
<1>2. Links(s, L) /\ Under(s, L, U)
  BY <1>1 DEF Shape
<1> DEFINE w == s.child[Other(d)][p]
           x == s.child[d][p]
<1>3. w \in L \cup {nil} /\ x \in L \cup {nil} /\ L \subseteq Ref
  BY <1>2 DEF Links
<1>4. /\ B[p] = Weight(s, p) + B[x] + 1
      /\ B[p] = Weight(s, p) + B[w] + 0
  <2>1. Extra(gap, p, d) = 1 /\ Extra(gap, p, Other(d)) = 0
    BY DEF Extra
  <2> QED BY <1>1, <2>1 DEF Heights
<1>5. B[x] \in Nat /\ B[x] # 0 /\ B[w] \in Nat /\ B[nil] = 1 /\ Weight(s, p) \in Nat
  BY <1>1, <1>3 DEF Heights, Weight
<1>6. B[w] = B[x] + 1
  BY <1>4, <1>5
<1>7. w # nil
  BY <1>5, <1>6
<1>8. x # w
  BY <1>5, <1>6
<1> QED BY <1>3, <1>7, <1>8

(* At the start of a round x is on the side the code takes it to be on.    *)
LEMMA GapSide ==
  ASSUME NEW s, NEW L, NEW x, Gapped(s, L, x), x # s.root, s.color[x] = BLACK
  PROVE  Doubly(s, L, x, SideOf(s, x))
<1> USE TwoSides, TwoColors, NilIsNoNode
<1>1. PICK gap \in Gap : GapAt(s, L, x, gap) /\ Fits(s, L, gap, nil, x)
  BY DEF Gapped
<1> DEFINE p == s.parent[x]
           d == gap.d
<1>2. gap.n = p /\ p \in L /\ d \in Sides /\ s.child[d][p] = x /\ x \in L \cup {nil}
  BY <1>1 DEF GapAt, Gapped
<1>3. s.child[Other(d)][p] # x
  BY <1>1, <1>2, RealSibling
<1>4. SideOf(s, x) = d
  BY <1>2, <1>3 DEF SideOf, Sides, Other
<1>5. gap = [n |-> p, d |-> d]
  BY <1>1, <1>2 DEF Gap
<1>6. Fits(s, L, gap, nil, nil)
  <2>1. PICK U, B : Shape(s, L, U) /\ Heights(s, L, B, gap) /\ Reds(s, L, nil, x)
    BY <1>1 DEF Fits
  <2>2. Reds(s, L, nil, nil)
    BY <2>1 DEF Reds
  <2> QED BY <2>1, <2>2 DEF Fits
<1> QED BY <1>2, <1>4, <1>5, <1>6 DEF Doubly

(* What a round knows of x, its parent p and its sibling w.                *)
Around(s, L, x, d, p, w, U, B) ==
  /\ p = s.parent[x] /\ p \in L /\ p # nil
  /\ w = s.child[Other(d)][p] /\ w \in L /\ w # nil /\ w # x /\ w # p
  /\ d \in Sides /\ Other(d) \in Sides /\ Other(Other(d)) = d
  /\ x \in L \cup {nil} /\ x # p /\ s.child[d][p] = x /\ s.parent[w] = p
  /\ x # s.root /\ s.color[x] = BLACK
  /\ Shape(s, L, U) /\ Links(s, L) /\ Under(s, L, U)
  /\ Heights(s, L, B, [n |-> p, d |-> d]) /\ Reds(s, L, nil, nil)
  /\ s \in Tree /\ L \subseteq Ref /\ nil \notin L
  /\ s.color[nil] = BLACK
  /\ \A n \in Ref : s.color[n] \in {RED, BLACK}
  /\ \A n \in L : s.color[n] = RED =>
       /\ n # s.root /\ s.color[s.parent[n]] = BLACK
       /\ \A e \in Sides : s.color[s.child[e][n]] = BLACK

(* These nodes are linked, and different.                                  *)
LEMMA AroundSibling ==
  ASSUME NEW s, NEW L, NEW x, NEW d, Doubly(s, L, x, d)
  PROVE  \E p, w, U, B : Around(s, L, x, d, p, w, U, B)
<1> USE TwoSides, TwoColors, NilIsNoNode
<1>1. PICK p : p = s.parent[x]
  OBVIOUS
<1>2. PICK w : w = s.child[Other(d)][p]
  OBVIOUS
<1>3. /\ d \in Sides /\ x \in L \cup {nil} /\ x # s.root /\ s.color[x] = BLACK
      /\ p \in L /\ s.child[d][p] = x
      /\ Fits(s, L, [n |-> p, d |-> d], nil, nil)
  BY <1>1 DEF Doubly
<1>4. PICK U, B : /\ Shape(s, L, U) /\ Heights(s, L, B, [n |-> p, d |-> d])
                  /\ Reds(s, L, nil, nil)
  BY <1>3 DEF Fits
<1>5. Links(s, L) /\ Under(s, L, U) /\ s \in Tree /\ L \subseteq Ref /\ nil \notin L
  BY <1>4 DEF Shape, Links
<1>6. w \in L /\ w # x
  <2> DEFINE gap == [n |-> p, d |-> d]
  <2>1. gap.n = p /\ gap.d = d
    OBVIOUS
  <2> HIDE DEF gap
  <2>2. Fits(s, L, gap, nil, nil)
    BY <1>3 DEF gap
  <2> QED BY <1>2, <1>3, <2>1, <2>2, RealSibling
<1>7. w # p /\ s.parent[w] = p /\ x # p
  BY <1>2, <1>3, <1>5, <1>6, Children
<1>8. s.color[nil] = BLACK
  BY <1>4 DEF Heights
<1>9. \A n \in Ref : s.color[n] \in {RED, BLACK}
  BY <1>5 DEF Tree
<1>10. ASSUME NEW n \in L, s.color[n] = RED
       PROVE  n # s.root /\ s.color[s.parent[n]] = BLACK
  <2>1. n # s.root /\ (s.color[s.parent[n]] = BLACK \/ s.parent[n] = nil)
    BY <1>4, <1>5, <1>10 DEF Reds
  <2> QED BY <1>8, <2>1
<1>11. ASSUME NEW n \in L, s.color[n] = RED, NEW e \in Sides
       PROVE  s.color[s.child[e][n]] = BLACK
  <2> DEFINE c == s.child[e][n]
  <2>1. c \in L \cup {nil} /\ (c # nil => s.parent[c] = n)
    BY <1>5 DEF Links
  <2>2. c # nil => s.color[c] # RED
    BY <1>10, <1>11, <2>1
  <2> QED BY <1>5, <1>8, <1>9, <2>1, <2>2
<1>12. Around(s, L, x, d, p, w, U, B)
  BY <1>1, <1>2, <1>3, <1>4, <1>5, <1>6, <1>7, <1>8, <1>9, <1>10, <1>11 DEF Around
<1> QED BY <1>12

(* Two nodes get a colour.                                                 *)
TwoColored(s, r, m, c, n, e) ==
  /\ Recolored(s, r)
  /\ \A k \in Ref : r.color[k] = IF k = n THEN e ELSE IF k = m THEN c ELSE s.color[k]

(* Two assignments to colours.                                             *)
LEMMA RecolorTwo ==
  ASSUME NEW s \in Tree, NEW m \in Ref \ {nil}, NEW n \in Ref \ {nil},
         NEW c \in {RED, BLACK}, NEW e \in {RED, BLACK}
  PROVE  TwoColored(s, recolor(recolor(s, m, c), n, e), m, c, n, e)
<1>1. PICK a : a = recolor(s, m, c)
  OBVIOUS
<1>2. PICK b : b = recolor(a, n, e)
  OBVIOUS
<1>3. Recolored(s, a) /\ ColorSet(s, a, m, c)
  BY <1>1, RecolorNode
<1>4. a \in Tree
  BY <1>3 DEF Recolored
<1>5. Recolored(a, b) /\ ColorSet(a, b, n, e)
  BY <1>2, <1>4, RecolorNode
<1>6. Recolored(s, b)
  BY <1>3, <1>5, RecoloredTwice
<1>7. \A k \in Ref : b.color[k] = IF k = n THEN e ELSE IF k = m THEN c ELSE s.color[k]
  BY <1>3, <1>5 DEF ColorSet
<1> QED BY <1>1, <1>2, <1>6, <1>7 DEF TwoColored

(* m is black and goes down on side e, its red child y comes up and takes  *)
(* its colour, with black below both; x keeps its parent.                  *)
MayPivot(s, L, x, d, m, e, y, p) ==
  /\ m \in L /\ e \in Sides /\ s.color[m] = BLACK
  /\ y = s.child[Other(e)][m] /\ y # nil /\ s.color[y] = RED
  /\ s.color[s.child[e][m]] = BLACK
  /\ TwoColored(s, p, y, BLACK, m, RED)
  /\ \/ m = s.parent[x] /\ e = d
     \/ m # s.parent[x] /\ y # s.parent[x] /\ m # x

(* Cases 1 and 3 are such rotations, and x stays doubly black.             *)
LEMMA PivotBelow ==
  ASSUME NEW s, NEW L, NEW x, NEW d, Doubly(s, L, x, d),
         NEW m, NEW e, NEW y, NEW p, MayPivot(s, L, x, d, m, e, y, p),
         NEW r, r = rotate(p, m, e)
  PROVE  /\ Doubly(r, L, x, d) /\ Kept(s, r, L) /\ Rotated(p, r, L, m, e)
         /\ r.parent[x] = s.parent[x]
<1> USE TwoSides, TwoColors, NilIsNoNode
<1> DEFINE inner == s.child[e][y]
<1>a. PICK q, w, U, B : Around(s, L, x, d, q, w, U, B)
  BY AroundSibling
<1>1. /\ q = s.parent[x] /\ q \in L /\ q # nil
      /\ d \in Sides /\ Other(d) \in Sides /\ Other(Other(d)) = d
      /\ x \in L \cup {nil} /\ x # q /\ s.child[d][q] = x
      /\ x # s.root /\ s.color[x] = BLACK
      /\ Shape(s, L, U) /\ Links(s, L) /\ Under(s, L, U)
      /\ Heights(s, L, B, [n |-> q, d |-> d]) /\ Reds(s, L, nil, nil)
      /\ s \in Tree /\ L \subseteq Ref /\ nil \notin L
      /\ \A n \in L : s.color[n] = RED => \A f \in Sides : s.color[s.child[f][n]] = BLACK
  BY <1>a DEF Around
<1>b. /\ m \in L /\ e \in Sides /\ s.color[m] = BLACK
      /\ y = s.child[Other(e)][m] /\ y # nil /\ s.color[y] = RED
      /\ s.color[s.child[e][m]] = BLACK
      /\ TwoColored(s, p, y, BLACK, m, RED)
      /\ \/ m = q /\ e = d
         \/ m # q /\ y # q /\ m # x
  BY <1>1 DEF MayPivot
<1>2. CanRotate(s, L, U, m, e)
  BY <1>1, <1>b DEF CanRotate
<1>3. y \in L /\ y # m /\ m # nil /\ s.parent[y] = m
      /\ inner \in L \cup {nil} /\ inner # m /\ inner # y /\ (inner # nil => s.parent[inner] = y)
      /\ s.child[e][m] \in L \cup {nil}
  BY <1>2, <1>b, AroundRotation
<1>4. Recolored(s, p) /\ p.color[m] = RED /\ p.color[y] = BLACK
      /\ \A n \in Ref \ {m, y} : p.color[n] = s.color[n]
  BY <1>1, <1>3, <1>b DEF TwoColored
<1>5. CanRotate(p, L, U, m, e)
  BY <1>2, <1>4, RecoloredShape
<1>6. Rotated(p, r, L, m, e)
  BY <1>5, RotateEffect
<1>7. p.child = s.child /\ p.parent = s.parent /\ p.root = s.root
  BY <1>4 DEF Recolored
<1>8. Pivoted(s, p, r, L, m, e)
  BY <1>4, <1>6, <1>b DEF Pivoted
<1>9. Shape(r, L, Turned(p, U, m, e))
  BY <1>1, <1>2, <1>4, <1>6, PivotShape
<1> DEFINE gap == [n |-> q, d |-> d]
<1>10. gap.n = q /\ gap.d = d
  OBVIOUS
<1>11. q # y /\ ~(q = m /\ d = Other(e))
  <2>1. CASE m = q /\ e = d
    BY <1>1, <1>3, <2>1
  <2>2. CASE m # q /\ y # q
    BY <2>2
  <2> QED BY <1>b, <2>1, <2>2
<1> HIDE DEF gap
<1>12. Heights(s, L, B, gap)
  BY <1>1 DEF gap
<1>13. PICK C : Heights(r, L, C, gap)
  BY <1>2, <1>8, <1>10, <1>11, <1>12, <1>b, PivotHeights
<1>14. s.color[inner] = BLACK
  BY <1>1, <1>3, <1>b
<1>15. Reds(r, L, nil, nil)
  BY <1>1, <1>2, <1>8, <1>14, <1>b, PivotBlack
<1>16. Fits(r, L, gap, nil, nil)
  BY <1>9, <1>13, <1>15 DEF Fits
<1>c. PICK f : f = Other(e)
  OBVIOUS
<1>d. /\ r.root = IF s.root = m THEN y ELSE s.root
      /\ r.color = p.color
      /\ \A n \in Ref : r.parent[n] = IF n = m THEN y
                                      ELSE IF n = y THEN s.parent[m]
                                      ELSE IF n = inner /\ n # nil THEN m
                                      ELSE s.parent[n]
      /\ r.child[e][m] = s.child[e][m] /\ r.child[f][m] = inner
      /\ \A h \in Sides : \A n \in L \ {m, y} :
           r.child[h][n] = IF s.child[h][n] = m THEN y ELSE s.child[h][n]
  BY <1>6, <1>7, <1>b, <1>c DEF Rotated
<1>17. r.child[d][q] = x
  <2>1. CASE m = q /\ e = d
    BY <1>1, <1>d, <2>1
  <2>2. CASE m # q /\ y # q /\ m # x
    BY <1>1, <1>d, <2>2
  <2> QED BY <1>b, <2>1, <2>2
<1>18. x # m /\ x # y /\ (x = inner => x = nil)
  <2>1. x # m
    BY <1>1, <1>b
  <2>2. x # y
    BY <1>1, <1>b
  <2>3. x = inner /\ x # nil => s.parent[x] = y
    BY <1>3
  <2> QED BY <1>1, <1>11, <2>1, <2>2, <2>3
<1>19. r.parent[x] = q
  BY <1>1, <1>18, <1>d
<1>20. x # r.root
  BY <1>1, <1>18, <1>d
<1>21. r.color[x] = BLACK
  BY <1>1, <1>4, <1>18, <1>d
<1>22. Doubly(r, L, x, d)
  BY <1>1, <1>16, <1>17, <1>19, <1>20, <1>21 DEF Doubly, gap
<1>23. Kept(s, r, L)
  BY <1>4, <1>6, RotationKeeps
<1> QED BY <1>1, <1>6, <1>19, <1>22, <1>23

(* The colours of the sibling of x, and of the nephews.                    *)
BlackSibling(s, x, d) == s.color[s.child[Other(d)][s.parent[x]]] = BLACK

BlackNephews(s, x, d) ==
  LET w == s.child[Other(d)][s.parent[x]]
  IN  \A side \in Sides : s.color[s.child[side][w]] = BLACK

RedFarNephew(s, x, d) ==
  LET w == s.child[Other(d)][s.parent[x]]
  IN  s.color[s.child[Other(d)][w]] = RED

(* Case 1: after it the sibling of x is black.                             *)
LEMMA SiblingRaised ==
  ASSUME NEW s, NEW L, NEW x, NEW d, Doubly(s, L, x, d)
  PROVE  LET r == raise_red_sibling(s, x, d)
         IN  Doubly(r, L, x, d) /\ BlackSibling(r, x, d) /\ Kept(s, r, L)
<1> USE TwoSides, TwoColors, NilIsNoNode
<1>a. PICK q, w, U, B : Around(s, L, x, d, q, w, U, B)
  BY AroundSibling
<1>b. PICK o : o = Other(d)
  OBVIOUS
<1>1. /\ q = s.parent[x] /\ q \in L /\ q # nil
      /\ w = s.child[o][q] /\ w \in L /\ w # nil /\ w # x /\ w # q
      /\ d \in Sides /\ o \in Sides
      /\ s.parent[w] = q /\ s.child[d][q] = x /\ s.color[x] = BLACK
      /\ Links(s, L) /\ Under(s, L, U) /\ s \in Tree /\ L \subseteq Ref /\ nil \notin L
      /\ \A n \in Ref : s.color[n] \in {RED, BLACK}
      /\ \A n \in L : s.color[n] = RED =>
           /\ s.color[s.parent[n]] = BLACK
           /\ \A f \in Sides : s.color[s.child[f][n]] = BLACK
  BY <1>a, <1>b DEF Around
<1>2. PICK r : r = raise_red_sibling(s, x, d)
  OBVIOUS
<1>3. CASE s.color[w] # RED
  <2>1. r = s
    BY <1>1, <1>2, <1>3, <1>b DEF raise_red_sibling
  <2>2. s.color[w] = BLACK
    BY <1>1, <1>3
  <2>3. Kept(s, s, L)
    BY DEF Kept
  <2>4. BlackSibling(s, x, d)
    BY <1>1, <1>b, <2>2 DEF BlackSibling
  <2> QED BY <1>2, <2>1, <2>3, <2>4
<1>4. CASE s.color[w] = RED
  <2>1. PICK p : p = recolor(recolor(s, w, BLACK), q, RED)
    OBVIOUS
  <2>2. r = rotate(p, q, d)
    BY <1>1, <1>2, <1>4, <1>b, <2>1 DEF raise_red_sibling
  <2>3. TwoColored(s, p, w, BLACK, q, RED)
    BY <1>1, <2>1, RecolorTwo
  <2>a. PICK inner : inner = s.child[d][w]
    OBVIOUS
  <2>4. s.color[q] = BLACK /\ s.color[inner] = BLACK
    BY <1>1, <1>4, <2>a
  <2>5. MayPivot(s, L, x, d, q, d, w, p)
    BY <1>1, <1>4, <1>b, <2>3, <2>4 DEF MayPivot
  <2>6. /\ Doubly(r, L, x, d) /\ Kept(s, r, L) /\ Rotated(p, r, L, q, d)
        /\ r.parent[x] = q
    BY <1>1, <2>2, <2>5, PivotBelow
  <2>7. p.child = s.child /\ p.parent = s.parent
    BY <2>3 DEF TwoColored, Recolored
  <2>8. r.child[o][q] = inner /\ r.color = p.color
    BY <1>1, <1>b, <2>6, <2>7, <2>a DEF Rotated
  <2>9. inner \in Ref /\ inner # w /\ inner # q
    <3>1. inner \in L \cup {nil}
      BY <1>1, <2>a DEF Links
    <3>2. inner # w /\ (inner # nil => inner # s.parent[w])
      BY <1>1, <2>a, Children
    <3> QED BY <1>1, <3>1, <3>2
  <2>10. r.color[inner] = BLACK
    BY <2>3, <2>4, <2>8, <2>9 DEF TwoColored
  <2>11. BlackSibling(r, x, d)
    BY <1>b, <2>6, <2>8, <2>10 DEF BlackSibling
  <2> QED BY <1>2, <2>6, <2>11
<1> QED BY <1>3, <1>4

(* Case 3: after it the far nephew of x is red.                            *)
LEMMA NephewRaised ==
  ASSUME NEW s, NEW L, NEW x, NEW d, Doubly(s, L, x, d),
         BlackSibling(s, x, d), ~BlackNephews(s, x, d)
  PROVE  LET r == raise_near_nephew(s, x, d)
         IN  /\ Doubly(r, L, x, d) /\ BlackSibling(r, x, d) /\ RedFarNephew(r, x, d)
             /\ Kept(s, r, L)
<1> USE TwoSides, TwoColors, NilIsNoNode
<1>a. PICK q, w, U, B : Around(s, L, x, d, q, w, U, B)
  BY AroundSibling
<1>b. PICK e : e = Other(d)
  OBVIOUS
<1>1. /\ q = s.parent[x] /\ q \in L /\ q # nil
      /\ w = s.child[e][q] /\ w \in L /\ w # nil /\ w # x /\ w # q
      /\ d \in Sides /\ e \in Sides /\ Other(e) = d
      /\ s.parent[w] = q /\ s.child[d][q] = x /\ s.color[x] = BLACK
      /\ Links(s, L) /\ Under(s, L, U) /\ s \in Tree /\ L \subseteq Ref /\ nil \notin L
      /\ \A n \in Ref : s.color[n] \in {RED, BLACK}
  BY <1>a, <1>b DEF Around
<1>c. s.color[w] = BLACK /\ ~ \A side \in Sides : s.color[s.child[side][w]] = BLACK
  BY <1>1, <1>b DEF BlackSibling, BlackNephews
<1>2. PICK r : r = raise_near_nephew(s, x, d)
  OBVIOUS
<1>d. PICK far, y : far = s.child[e][w] /\ y = s.child[d][w]
  OBVIOUS
<1>3. y \in L \cup {nil} /\ far \in L \cup {nil}
  BY <1>1, <1>d DEF Links
<1>4. CASE s.color[far] # BLACK
  <2>1. r = s
    BY <1>1, <1>2, <1>4, <1>b, <1>d DEF raise_near_nephew
  <2>2. s.color[far] = RED
    BY <1>1, <1>3, <1>4
  <2>3. Kept(s, s, L)
    BY DEF Kept
  <2>5. RedFarNephew(s, x, d)
    BY <1>1, <1>b, <1>d, <2>2 DEF RedFarNephew
  <2> QED BY <1>2, <2>1, <2>3, <2>5
<1>5. CASE s.color[far] = BLACK
  <2>1. s.color[y] = RED
    <3>1. \A side \in Sides : side = d \/ side = e
      BY <1>1, <1>b
    <3>2. s.color[y] # BLACK
      BY <1>5, <1>c, <1>d, <3>1
    <3> QED BY <1>1, <1>3, <3>2
  <2>2. y # nil /\ y \in L
    <3>1. s.color[nil] = BLACK
      BY <1>a DEF Around
    <3> QED BY <1>3, <2>1, <3>1
  <2>3. y # w /\ y # q
    <3>1. y # w /\ (y # nil => y # s.parent[w])
      <4>1. Links(s, L) /\ Under(s, L, U) /\ w \in L /\ d \in Sides /\ y = s.child[d][w]
        BY <1>1, <1>d
      <4> QED BY <4>1, Children
    <3> QED BY <1>1, <2>2, <3>1
  <2>4. PICK p : p = recolor(recolor(s, y, BLACK), w, RED)
    OBVIOUS
  <2>5. r = rotate(p, w, e)
    BY <1>1, <1>2, <1>5, <1>b, <1>d, <2>4 DEF raise_near_nephew
  <2>6. TwoColored(s, p, y, BLACK, w, RED)
    BY <1>1, <2>2, <2>4, RecolorTwo
  <2>7. MayPivot(s, L, x, d, w, e, y, p)
    BY <1>1, <1>5, <1>c, <1>d, <2>1, <2>2, <2>3, <2>6 DEF MayPivot
  <2>8. /\ Doubly(r, L, x, d) /\ Kept(s, r, L) /\ Rotated(p, r, L, w, e)
        /\ r.parent[x] = s.parent[x]
    BY <2>5, <2>7, PivotBelow
  <2>9. p.child = s.child
    BY <2>6 DEF TwoColored, Recolored
  <2>10. r.child[e][y] = w /\ r.child[e][q] = y /\ r.color = p.color
    <3>1. p.child[Other(e)][w] = y /\ p.child[e][q] = w /\ q \in L \ {w, y}
      BY <1>1, <1>d, <2>3, <2>9
    <3>2. /\ r.child[e][p.child[Other(e)][w]] = w /\ r.color = p.color
          /\ \A f \in Sides : \A n \in L \ {w, p.child[Other(e)][w]} :
               r.child[f][n] = IF p.child[f][n] = w THEN p.child[Other(e)][w] ELSE p.child[f][n]
      BY <2>8 DEF Rotated
    <3> QED BY <1>1, <3>1, <3>2
  <2>11. r.color[y] = BLACK /\ r.color[w] = RED
    BY <1>1, <2>2, <2>3, <2>6, <2>10 DEF TwoColored
  <2>12. r.child[e][r.parent[x]] = y
    BY <1>1, <2>8, <2>10
  <2>13. BlackSibling(r, x, d) /\ RedFarNephew(r, x, d)
    BY <1>b, <2>10, <2>11, <2>12 DEF BlackSibling, RedFarNephew
  <2> QED BY <1>2, <2>8, <2>13
<1> QED BY <1>4, <1>5

(* Every linked node has a place, where a gap may be.                      *)
LEMMA GapExists ==
  ASSUME NEW s, NEW L, NEW U, Links(s, L), Under(s, L, U), NEW x \in L
  PROVE  \E gap \in Gap : GapAt(s, L, x, gap)
<1> USE TwoSides, NilIsNoNode
<1>1. CASE x = s.root
  <2>1. NoGap \in Gap
    BY DEF NoGap, Gap
  <2> QED BY <1>1, <2>1 DEF GapAt
<1>2. CASE x # s.root
  <2>1. s.parent[x] \in L /\ \E e \in Sides : s.child[e][s.parent[x]] = x
    BY <1>2, ParentOf
  <2>2. PICK e \in Sides : s.child[e][s.parent[x]] = x
    BY <2>1
  <2>3. PICK gap : gap = [n |-> s.parent[x], d |-> e]
    OBVIOUS
  <2>4. L \subseteq Ref
    BY DEF Links
  <2>5. gap \in Gap /\ gap.n = s.parent[x] /\ gap.d = e
    BY <2>1, <2>3, <2>4 DEF Gap
  <2> QED BY <1>2, <2>1, <2>2, <2>5 DEF GapAt
<1> QED BY <1>1, <1>2

(* The gap at a node is the place at which it hangs.                       *)
LEMMA GapPlace ==
  ASSUME NEW s, NEW L, NEW U, Links(s, L), Under(s, L, U), NEW x \in L,
         NEW gap, GapAt(s, L, x, gap)
  PROVE  \A e \in Sides : \A n \in L :
           Extra(gap, n, e) = IF s.child[e][n] = x THEN 1 ELSE 0
<1> USE TwoSides, NilIsNoNode
<1>1. x # nil /\ nil \notin L
  BY DEF Links
<1>2. ASSUME NEW e \in Sides, NEW n \in L
      PROVE  (n = gap.n /\ e = gap.d) <=> s.child[e][n] = x
  <2>1. CASE x = s.root
    <3>1. s.child[e][n] # x
      BY <1>1, <2>1, Children
    <3>2. gap.n = nil
      BY <2>1 DEF GapAt, NoGap
    <3> QED BY <1>1, <3>1, <3>2
  <2>2. CASE x # s.root
    <3>1. /\ gap.n = s.parent[x] /\ gap.n \in L /\ gap.d \in Sides
          /\ s.child[gap.d][gap.n] = x
      BY <2>2 DEF GapAt
    <3>2. s.child[Other(gap.d)][gap.n] # x
      BY <1>1, <3>1, Children
    <3>3. s.child[e][n] = x => n = s.parent[x]
      BY <1>1 DEF Links
    <3> QED BY <3>1, <3>2, <3>3
  <2> QED BY <2>1, <2>2
<1> QED BY <1>2 DEF Extra

(* The heights in a round, in which only the parent of x has a gap.        *)
LEMMA GapHeights ==
  ASSUME NEW s, NEW L, NEW x, NEW d, NEW p, NEW w, NEW U, NEW B,
         Around(s, L, x, d, p, w, U, B)
  PROVE  /\ \A n \in Ref : B[n] \in Nat /\ B[n] # 0
         /\ B[nil] = 1
         /\ \A e \in Sides : \A n \in L : n # p =>
              B[n] = Weight(s, n) + B[s.child[e][n]]
         /\ B[p] = Weight(s, p) + B[x] + 1 /\ B[p] = Weight(s, p) + B[w]
<1> USE TwoSides, TwoColors, NilIsNoNode
<1>1. /\ p \in L /\ w = s.child[Other(d)][p] /\ s.child[d][p] = x
      /\ d \in Sides /\ Other(d) \in Sides /\ w \in L
      /\ Links(s, L) /\ L \subseteq Ref
      /\ Heights(s, L, B, [n |-> p, d |-> d])
  BY DEF Around
<1> DEFINE gap == [n |-> p, d |-> d]
<1>2. gap.n = p /\ gap.d = d
  OBVIOUS
<1>3. Heights(s, L, B, gap)
  BY <1>1 DEF gap
<1> HIDE DEF gap
<1>4. /\ B \in [Ref -> Nat \ {0}] /\ B[nil] = 1 /\ s.color[nil] = BLACK
      /\ \A e \in Sides : \A n \in L :
           B[n] = Weight(s, n) + B[s.child[e][n]] + Extra(gap, n, e)
  BY <1>3 DEF Heights
<1>5. \A n \in Ref : B[n] \in Nat /\ B[n] # 0
  BY <1>4
<1>6. \A n \in Ref : Weight(s, n) \in Nat
  BY DEF Weight
<1>7. ASSUME NEW e \in Sides, NEW n \in L, n # p
      PROVE  B[n] = Weight(s, n) + B[s.child[e][n]]
  <2>1. Extra(gap, n, e) = 0
    BY <1>2, <1>7 DEF Extra
  <2>2. s.child[e][n] \in Ref
    BY <1>1 DEF Links
  <2> QED BY <1>1, <1>4, <1>5, <1>6, <2>1, <2>2
<1>8. Extra(gap, p, d) = 1 /\ Extra(gap, p, Other(d)) = 0
  BY <1>1, <1>2 DEF Extra
<1>9. B[p] = Weight(s, p) + B[x] + 1 /\ B[p] = Weight(s, p) + B[w] + 0
  BY <1>1, <1>4, <1>8
<1>10. B[w] \in Nat /\ Weight(s, p) \in Nat
  BY <1>1, <1>5, <1>6
<1> QED BY <1>4, <1>5, <1>7, <1>9, <1>10

(* Case 2: the sibling becomes red, and the gap goes up to the parent.     *)
LEMMA GapGoesUp ==
  ASSUME NEW s, NEW L, NEW x, NEW d, Doubly(s, L, x, d),
         BlackSibling(s, x, d), BlackNephews(s, x, d)
  PROVE  LET r == recolor(s, s.child[Other(d)][s.parent[x]], RED)
         IN  Gapped(r, L, s.parent[x]) /\ Kept(s, r, L)
<1> USE TwoSides, TwoColors, NilIsNoNode
<1>a. PICK p, w, U, B : Around(s, L, x, d, p, w, U, B)
  BY AroundSibling
<1>1. /\ p = s.parent[x] /\ p \in L /\ p # nil
      /\ w = s.child[Other(d)][p] /\ w \in L /\ w # nil /\ w # x /\ w # p
      /\ d \in Sides /\ Other(d) \in Sides
      /\ s.parent[w] = p /\ s.child[d][p] = x /\ x # p /\ x \in L \cup {nil}
      /\ Shape(s, L, U) /\ Links(s, L) /\ Under(s, L, U)
      /\ s \in Tree /\ L \subseteq Ref /\ nil \notin L
      /\ s.color[nil] = BLACK
      /\ \A n \in Ref : s.color[n] \in {RED, BLACK}
  BY <1>a DEF Around
<1>2. s.color[w] = BLACK /\ \A e \in Sides : s.color[s.child[e][w]] = BLACK
  BY <1>1 DEF BlackSibling, BlackNephews
<1>3. /\ \A n \in Ref : B[n] \in Nat /\ B[n] # 0
      /\ B[nil] = 1
      /\ \A e \in Sides : \A n \in L : n # p =>
           B[n] = Weight(s, n) + B[s.child[e][n]]
      /\ B[p] = Weight(s, p) + B[x] + 1 /\ B[p] = Weight(s, p) + B[w]
  BY <1>a, GapHeights
<1>4. PICK r : r = recolor(s, w, RED)
  OBVIOUS
<1>5. Recolored(s, r) /\ ColorSet(s, r, w, RED)
  BY <1>1, <1>4, RecolorNode
<1>6. /\ r.color[w] = RED /\ \A n \in Ref \ {w} : r.color[n] = s.color[n]
      /\ r.child = s.child /\ r.parent = s.parent /\ r.root = s.root
  BY <1>1, <1>5 DEF ColorSet, Recolored
<1>7. Shape(r, L, U)
  BY <1>1, <1>5, RecoloredShape
<1>8. PICK gap \in Gap : GapAt(r, L, p, gap)
  <2>1. Links(r, L) /\ Under(r, L, U)
    BY <1>7 DEF Shape
  <2> QED BY <1>1, <2>1, GapExists
<1>9. \A e \in Sides : \A n \in L : Extra(gap, n, e) = IF s.child[e][n] = p THEN 1 ELSE 0
  <2>1. GapAt(s, L, p, gap)
    BY <1>6, <1>8 DEF GapAt
  <2> QED BY <1>1, <2>1, GapPlace
<1> DEFINE C == [n \in Ref |-> IF n = p \/ n = w THEN B[n] - 1 ELSE B[n]]
<1>10. \A n \in Ref : Weight(s, n) \in Nat
  BY DEF Weight
<1>11. B[w] = B[x] + 1 /\ B[p] \in Nat /\ B[w] \in Nat /\ B[x] \in Nat /\ B[x] # 0
  BY <1>1, <1>3, <1>10
<1>12. B[p] - 1 \in Nat \ {0} /\ B[w] - 1 \in Nat \ {0}
  BY <1>1, <1>3, <1>10, <1>11
<1>13. C \in [Ref -> Nat \ {0}]
  BY <1>3, <1>12
<1>14. \A n \in Ref : C[n] = IF n = p \/ n = w THEN B[n] - 1 ELSE B[n]
  OBVIOUS
<1> HIDE DEF C
<1>15. C[nil] = 1 /\ r.color[nil] = BLACK
  BY <1>1, <1>3, <1>6, <1>14
<1>16. ASSUME NEW e \in Sides, NEW n \in L
       PROVE  C[n] = Weight(r, n) + C[r.child[e][n]] + Extra(gap, n, e)
  <2> DEFINE c == s.child[e][n]
  <2>1. c \in Ref /\ c # n /\ (c # nil => s.parent[c] = n)
    BY <1>1, Children DEF Links
  <2>2. r.child[e][n] = c
    BY <1>6
  <2>3. Extra(gap, n, e) = IF c = p THEN 1 ELSE 0
    BY <1>9
  <2>4. CASE n = p
    <3>1. c = x \/ c = w
      BY <1>1, <2>4
    <3>2. C[n] = B[p] - 1 /\ Weight(r, n) = Weight(s, p) /\ Extra(gap, n, e) = 0
      BY <1>1, <1>6, <1>14, <2>1, <2>3, <2>4 DEF Weight
    <3>3. C[c] = B[x]
      BY <1>1, <1>11, <1>14, <2>1, <3>1
    <3> QED BY <1>1, <1>3, <1>10, <1>11, <2>2, <3>2, <3>3
  <2>5. CASE n = w
    <3>1. C[n] = B[w] - 1 /\ Weight(r, w) = 0 /\ Weight(s, w) = 1
      BY <1>1, <1>2, <1>6, <1>14, <2>5 DEF Weight
    <3>2. c # p
      <4>1. p = s.parent[w] /\ p # nil
        BY <1>1
      <4> QED BY <1>1, <2>5, <4>1, Children
    <3>3. C[c] = B[c]
      BY <1>14, <2>1, <2>5, <3>2
    <3>4. B[w] = 1 + B[c]
      BY <1>1, <1>3, <2>5, <3>1
    <3>5. B[c] \in Nat
      BY <1>3, <2>1
    <3> QED BY <2>2, <2>3, <2>5, <3>1, <3>2, <3>3, <3>4, <3>5
  <2>6. CASE n # p /\ n # w
    <3>1. C[n] = B[n] /\ Weight(r, n) = Weight(s, n)
      BY <1>1, <1>6, <1>14, <2>6 DEF Weight
    <3>2. c # w
      BY <1>1, <2>1, <2>6
    <3>3. C[c] + Extra(gap, n, e) = B[c] /\ C[c] \in Nat
      BY <1>3, <1>11, <1>12, <1>14, <2>1, <2>3, <3>2
    <3>4. B[n] = Weight(s, n) + B[c]
      BY <1>3, <2>6
    <3>5. Extra(gap, n, e) \in Nat /\ Weight(s, n) \in Nat
      BY <1>1, <1>10, <2>3
    <3> QED BY <2>2, <3>1, <3>3, <3>4, <3>5
  <2> QED BY <2>4, <2>5, <2>6
<1>17. Heights(r, L, C, gap)
  BY <1>13, <1>15, <1>16 DEF Heights
<1>18. Reds(r, L, nil, p)
  <2>1. ASSUME NEW n \in L, r.color[n] = RED, n # p
        PROVE  n # r.root /\ (r.color[r.parent[n]] = BLACK \/ r.parent[n] = p)
    <3>1. CASE n = w
      <4>1. w # s.root
        BY <1>1, Children
      <4> QED BY <1>1, <1>6, <3>1, <4>1
    <3>2. CASE n # w
      <4>1. s.color[n] = RED
        BY <1>1, <1>6, <2>1, <3>2
      <4>2. n # s.root /\ s.color[s.parent[n]] = BLACK
        BY <1>a, <4>1 DEF Around
      <4>3. s.parent[n] \in L /\ \E e \in Sides : s.child[e][s.parent[n]] = n
        BY <1>1, <4>2, ParentOf
      <4>4. s.parent[n] # w
        BY <1>2, <4>1, <4>3
      <4> QED BY <1>1, <1>6, <4>2, <4>3, <4>4
    <3> QED BY <3>1, <3>2
  <2> QED BY <2>1 DEF Reds
<1>19. Gapped(r, L, p)
  BY <1>1, <1>7, <1>8, <1>17, <1>18 DEF Gapped, Fits
<1>20. Kept(s, r, L)
  BY <1>5 DEF Recolored, Kept
<1> QED BY <1>1, <1>4, <1>19, <1>20

(* Case 4: the sibling goes above the parent, and the gap is closed.       *)
LEMMA GapCloses ==
  ASSUME NEW s, NEW L, NEW x, NEW d, Doubly(s, L, x, d),
         BlackSibling(s, x, d), RedFarNephew(s, x, d)
  PROVE  LET r == close_gap(s, x, d)
         IN  Fits(r, L, NoGap, nil, nil) /\ Kept(s, r, L)
<1> USE TwoSides, TwoColors, NilIsNoNode
<1>a. PICK p, w, U, B : Around(s, L, x, d, p, w, U, B)
  BY AroundSibling
<1>b. PICK o : o = Other(d)
  OBVIOUS
<1>1. /\ p = s.parent[x] /\ p \in L /\ p # nil
      /\ w = s.child[o][p] /\ w \in L /\ w # nil /\ w # x /\ w # p
      /\ d \in Sides /\ o \in Sides /\ o # d /\ \A e \in Sides : e = d \/ e = o
      /\ s.parent[w] = p /\ s.child[d][p] = x /\ x # p /\ x \in L \cup {nil}
      /\ s.color[x] = BLACK
      /\ Shape(s, L, U) /\ Links(s, L) /\ Under(s, L, U)
      /\ s \in Tree /\ L \subseteq Ref /\ nil \notin L
      /\ s.color[nil] = BLACK
      /\ \A n \in Ref : s.color[n] \in {RED, BLACK}
  BY <1>a, <1>b DEF Around
<1>c. PICK far, near : far = s.child[o][w] /\ near = s.child[d][w]
  OBVIOUS
<1>2. s.color[w] = BLACK /\ s.color[far] = RED
  BY <1>1, <1>b, <1>c DEF BlackSibling, RedFarNephew
<1>3. CanRotate(s, L, U, p, d)
  BY <1>1, <1>b DEF CanRotate
<1>4. /\ far \in L /\ far # nil /\ far # p /\ far # w /\ far # near /\ far # x
      /\ near \in L \cup {nil} /\ near # p /\ near # w
      /\ near # nil => s.parent[near] = w
      /\ s.parent[far] = w
  <2>1. \A c \in {near, far} : c \in L \cup {nil} /\ c # p /\ c # w /\ (c # nil => s.parent[c] = w)
    <3>1. ASSUME NEW e \in Sides, NEW c, c = s.child[e][w]
          PROVE  c \in L \cup {nil} /\ c # p /\ c # w /\ (c # nil => s.parent[c] = w)
      <4>1. c # w /\ (c # nil => c # s.parent[w])
        BY <1>1, <3>1, Children
      <4>2. c \in L \cup {nil} /\ (c # nil => s.parent[c] = w)
        BY <1>1, <3>1 DEF Links
      <4> QED BY <1>1, <4>1, <4>2
    <3> QED BY <1>1, <1>c, <3>1
  <2>2. far # nil
    BY <1>1, <1>2
  <2>3. far # near
    BY <1>1, <1>b, <1>c, <2>2, Children
  <2> QED BY <1>1, <1>2, <2>1, <2>2, <2>3
<1>5. PICK a : a = recolor(recolor(s, w, s.color[p]), p, BLACK)
  OBVIOUS
<1>6. TwoColored(s, a, w, s.color[p], p, BLACK)
  BY <1>1, <1>5, RecolorTwo
<1>7. a \in Tree /\ a.child = s.child /\ Recolored(s, a)
  BY <1>6 DEF TwoColored, Recolored
<1>8. PICK b : b = recolor(a, far, BLACK)
  OBVIOUS
<1>9. Recolored(a, b) /\ ColorSet(a, b, far, BLACK)
  BY <1>1, <1>4, <1>7, <1>8, RecolorNode
<1>10. Recolored(s, b)
  BY <1>7, <1>9, RecoloredTwice
<1>11. /\ b.color[w] = s.color[p] /\ b.color[p] = BLACK /\ b.color[far] = BLACK
       /\ \A n \in Ref \ {p, w, far} : b.color[n] = s.color[n]
  <2>1. \A n \in Ref : b.color[n] = IF n = far \/ n = p THEN BLACK
                                    ELSE IF n = w THEN s.color[p] ELSE s.color[n]
    BY <1>6, <1>9 DEF TwoColored, ColorSet
  <2>2. p \in Ref /\ w \in Ref /\ far \in Ref
    BY <1>1, <1>4
  <2> QED BY <1>1, <1>4, <2>1, <2>2
<1>12. PICK r : r = rotate(b, p, d)
  OBVIOUS
<1>13. r = close_gap(s, x, d)
  BY <1>1, <1>5, <1>7, <1>8, <1>12, <1>b, <1>c DEF close_gap
<1>14. CanRotate(b, L, U, p, d)
  BY <1>3, <1>10, RecoloredShape
<1>15. Rotated(b, r, L, p, d)
  BY <1>12, <1>14, RotateEffect
<1>16. Shape(r, L, Turned(b, U, p, d))
  BY <1>1, <1>3, <1>10, <1>15, PivotShape
<1>17. Kept(s, r, L)
  BY <1>10, <1>15, RotationKeeps
<1>18. b.child = s.child /\ r.color = b.color
  BY <1>10, <1>15 DEF Recolored, Rotated
<1>19. /\ r.child[d][p] = x /\ r.child[o][p] = near
       /\ r.child[d][w] = p /\ r.child[o][w] = far
       /\ \A e \in Sides : \A n \in L \ {p, w} :
            r.child[e][n] = IF s.child[e][n] = p THEN w ELSE s.child[e][n]
  <2>1. b.child[Other(d)][p] = w
    BY <1>1, <1>18, <1>b
  <2>2. /\ r.child[d][p] = b.child[d][p] /\ r.child[Other(d)][p] = b.child[d][w]
        /\ r.child[d][w] = p /\ r.child[Other(d)][w] = b.child[Other(d)][w]
        /\ \A e \in Sides : \A n \in L \ {p, w} :
             r.child[e][n] = IF b.child[e][n] = p THEN w ELSE b.child[e][n]
    BY <1>15, <2>1 DEF Rotated
  <2>3. r.child[d][p] = x /\ r.child[o][p] = near /\ r.child[d][w] = p /\ r.child[o][w] = far
    BY <1>1, <1>18, <1>b, <1>c, <2>2
  <2>4. \A e \in Sides : \A n \in L \ {p, w} :
          r.child[e][n] = IF s.child[e][n] = p THEN w ELSE s.child[e][n]
    BY <1>18, <2>2
  <2> QED BY <2>3, <2>4
<1>20. /\ \A n \in Ref : B[n] \in Nat /\ B[n] # 0
       /\ B[nil] = 1
       /\ \A e \in Sides : \A n \in L : n # p =>
            B[n] = Weight(s, n) + B[s.child[e][n]]
       /\ B[p] = Weight(s, p) + B[x] + 1 /\ B[p] = Weight(s, p) + B[w]
  BY <1>a, GapHeights
<1> DEFINE C == [n \in Ref |-> IF n = w THEN B[p] ELSE IF n = p THEN B[w]
                               ELSE IF n = far THEN B[far] + 1 ELSE B[n]]
<1>21. p \in Ref /\ w \in Ref /\ far \in Ref /\ near \in Ref /\ x \in Ref
  BY <1>1, <1>4
<1>22. B[p] \in Nat \ {0} /\ B[w] \in Nat \ {0} /\ B[far] + 1 \in Nat \ {0}
  BY <1>20, <1>21
<1>23. C \in [Ref -> Nat \ {0}]
  BY <1>20, <1>22
<1>24. \A n \in Ref : C[n] = IF n = w THEN B[p] ELSE IF n = p THEN B[w]
                             ELSE IF n = far THEN B[far] + 1 ELSE B[n]
  OBVIOUS
<1> HIDE DEF C
<1>25. C[nil] = 1 /\ r.color[nil] = BLACK
  BY <1>1, <1>4, <1>11, <1>18, <1>20, <1>24
<1>26. \A n \in Ref : Weight(s, n) \in {0, 1}
  BY DEF Weight
<1>27. /\ Weight(s, w) = 1 /\ Weight(s, far) = 0
       /\ Weight(r, w) = Weight(s, p) /\ Weight(r, p) = 1 /\ Weight(r, far) = 1
       /\ \A n \in Ref \ {p, w, far} : Weight(r, n) = Weight(s, n)
  BY <1>2, <1>11, <1>18 DEF Weight
<1>28. B[w] = 1 + B[near] /\ B[w] = 1 + B[far]
  BY <1>1, <1>20, <1>27, <1>c
<1>29. ASSUME NEW e \in Sides, NEW n \in L
       PROVE  C[n] = Weight(r, n) + C[r.child[e][n]]
  <2>1. CASE n = p
    <3>1. C[n] = B[w] /\ Weight(r, n) = 1
      BY <1>1, <1>21, <1>24, <1>27, <2>1
    <3>2. CASE e = d
      <4>1. C[x] = B[x]
        BY <1>1, <1>4, <1>21, <1>24
      <4>2. B[w] = 1 + B[x]
        BY <1>20, <1>21, <1>26
      <4> QED BY <1>19, <2>1, <3>1, <3>2, <4>1, <4>2
    <3>3. CASE e = o
      <4>1. C[near] = B[near]
        BY <1>4, <1>21, <1>24
      <4> QED BY <1>19, <1>28, <2>1, <3>1, <3>3, <4>1
    <3> QED BY <1>1, <3>2, <3>3
  <2>2. CASE n = w
    <3>1. C[n] = B[p] /\ Weight(r, n) = Weight(s, p)
      BY <1>1, <1>21, <1>24, <1>27, <2>2
    <3>2. CASE e = d
      <4>1. C[p] = B[w]
        BY <1>1, <1>21, <1>24
      <4> QED BY <1>19, <1>20, <2>2, <3>1, <3>2, <4>1
    <3>3. CASE e = o
      <4>1. C[far] = B[far] + 1
        BY <1>4, <1>21, <1>24
      <4>2. B[far] \in Nat /\ B[w] \in Nat
        BY <1>20, <1>21
      <4>3. C[far] = B[w]
        BY <1>28, <4>1, <4>2
      <4> QED BY <1>19, <1>20, <2>2, <3>1, <3>3, <4>3
    <3> QED BY <1>1, <3>2, <3>3
  <2>3. CASE n # p /\ n # w
    <3> DEFINE c == s.child[e][n]
    <3>1. (c \in Ref /\ c # n /\ c # w /\ c # far) \/ c = nil
      <4>1. c \in L \cup {nil} /\ (c # nil => s.parent[c] = n)
        BY <1>1 DEF Links
      <4>2. c # n
        BY <1>1, Children
      <4> QED BY <1>1, <1>4, <2>3, <4>1, <4>2
    <3>2. r.child[e][n] = IF c = p THEN w ELSE c
      BY <1>19, <2>3
    <3>3. C[r.child[e][n]] = B[c]
      BY <1>1, <1>4, <1>21, <1>24, <3>1, <3>2
    <3>4. B[n] = Weight(s, n) + B[c] /\ B[c] \in Nat
      <4>1. c \in Ref
        BY <1>21, <3>1, NilIsNoNode
      <4> QED BY <1>20, <2>3, <4>1
    <3>5. CASE n = far
      <4>1. C[n] = B[far] + 1 /\ Weight(r, n) = 1
        BY <1>4, <1>21, <1>24, <1>27, <3>5
      <4> QED BY <1>27, <3>3, <3>4, <3>5, <4>1
    <3>6. CASE n # far
      <4>1. C[n] = B[n] /\ Weight(r, n) = Weight(s, n)
        BY <1>1, <1>24, <1>27, <2>3, <3>6
      <4> QED BY <3>3, <3>4, <4>1
    <3> QED BY <3>5, <3>6
  <2> QED BY <2>1, <2>2, <2>3
<1>30. ASSUME NEW e \in Sides, NEW n \in L
       PROVE  C[n] = Weight(r, n) + C[r.child[e][n]] + Extra(NoGap, n, e)
  <2>1. Extra(NoGap, n, e) = 0
    BY <1>1 DEF Extra, NoGap
  <2>2. Links(r, L)
    BY <1>16 DEF Shape
  <2>3. r.child[e][n] \in Ref
    BY <1>1, <2>2 DEF Links
  <2>4. C[r.child[e][n]] \in Nat /\ Weight(r, n) \in Nat
    BY <1>23, <2>3 DEF Weight
  <2> QED BY <1>29, <2>1, <2>4
<1>31. Heights(r, L, C, NoGap)
  BY <1>23, <1>25, <1>30 DEF Heights
<1>32. Reds(r, L, nil, nil)
  <2>1. /\ r.parent[p] = w /\ r.parent[w] = s.parent[p] /\ s.parent[p] \notin {p, w}
        /\ s.parent[p] \in Ref
        /\ (w = r.root <=> p = s.root)
        /\ \A n \in L \ {p, w} : n # r.root <=> n # s.root
        /\ \A n \in L \ {p, w, x, near, far} :
             /\ r.parent[n] = s.parent[n]
             /\ s.parent[n] \in Ref \ {p, w}
    <3>1. /\ s.child[Other(d)][p] = w /\ s.child[d][p] = x
          /\ s.child[d][w] = near /\ s.child[Other(d)][w] = far
      BY <1>1, <1>b, <1>c
    <3>2. CanRotate(s, L, U, p, d) /\ Recolored(s, b) /\ Rotated(b, r, L, p, d)
      BY <1>3, <1>10, <1>15
    <3> QED BY <3>1, <3>2, RotatedParents
  <2>2. near # nil => r.parent[near] = p
    <3>1. b.child[Other(d)][p] = w /\ b.child[d][w] = near
      BY <1>1, <1>18, <1>b, <1>c
    <3>2. \A n \in Ref : n = b.child[d][b.child[Other(d)][p]] /\ n # nil /\ n # p
                          /\ n # b.child[Other(d)][p] => r.parent[n] = p
      BY <1>15 DEF Rotated
    <3> QED BY <1>4, <1>21, <3>1, <3>2
  <2>3. \A n \in L : s.color[n] = RED => n # s.root /\ s.color[s.parent[n]] = BLACK
    BY <1>a DEF Around
  <2>4. ASSUME NEW n \in L, r.color[n] = RED
        PROVE  n # r.root /\ r.color[r.parent[n]] = BLACK
    <3>1. n # p /\ n # far /\ n # x
      BY <1>1, <1>4, <1>11, <1>18, <2>4
    <3>2. CASE n = w
      <4>1. s.color[p] = RED
        BY <1>11, <1>18, <2>4, <3>2
      <4>2. p # s.root /\ s.color[s.parent[p]] = BLACK
        BY <1>1, <2>3, <4>1
      <4> QED BY <1>11, <1>18, <2>1, <3>2, <4>2
    <3>3. CASE n = near
      <4>1. n # s.root /\ n # nil
        BY <1>1, <1>4, <3>3 DEF Links
      <4> QED BY <1>4, <1>11, <1>18, <2>1, <2>2, <3>3, <4>1
    <3>4. CASE n \in L \ {p, w, x, near, far}
      <4>1. s.color[n] = RED
        BY <1>1, <1>11, <1>18, <2>4, <3>4
      <4> QED BY <1>11, <1>18, <2>1, <2>3, <3>4, <4>1
    <3> QED BY <3>1, <3>2, <3>3, <3>4
  <2> QED BY <2>4 DEF Reds
<1>33. Fits(r, L, NoGap, nil, nil)
  BY <1>16, <1>31, <1>32 DEF Fits
<1> QED BY <1>13, <1>17, <1>33

(* A round of rebuild_after_delete.                                        *)
LEMMA EraseRound ==
  ASSUME NEW L, EraseFixRound, Gapped(t, L, call.x)
  PROVE  /\ Kept(t, t', L)
         /\ \E x \in L \cup {nil} : Gapped(t', L, x) /\ call' = [call EXCEPT !.x = x]
<1> USE TwoSides, TwoColors, NilIsNoNode
<1>1. PICK x : x = call.x
  OBVIOUS
<1>2. PICK d : d = SideOf(t, x)
  OBVIOUS
<1>3. PICK s1 : s1 = raise_red_sibling(t, x, d)
  OBVIOUS
<1>4. PICK w : w = s1.child[Other(d)][s1.parent[x]]
  OBVIOUS
<1>5. x # t.root /\ t.color[x] = BLACK
  BY <1>1 DEF EraseFixRound
<1>6. Doubly(t, L, x, d)
  BY <1>1, <1>2, <1>5, GapSide
<1>7. Doubly(s1, L, x, d) /\ BlackSibling(s1, x, d) /\ Kept(t, s1, L)
  BY <1>3, <1>6, SiblingRaised
<1>8. CASE BlackNephews(s1, x, d)
  <2>1. t' = recolor(s1, w, RED) /\ call' = [call EXCEPT !.x = s1.parent[x]]
    BY <1>1, <1>2, <1>3, <1>4, <1>8 DEF EraseFixRound, BlackNephews
  <2>2. Gapped(t', L, s1.parent[x]) /\ Kept(s1, t', L)
    BY <1>4, <1>7, <1>8, <2>1, GapGoesUp
  <2>3. s1.parent[x] \in L \cup {nil}
    BY <2>2 DEF Gapped
  <2> QED BY <1>7, <2>1, <2>2, <2>3, KeptTwice
<1>9. CASE ~BlackNephews(s1, x, d)
  <2>1. PICK s3 : s3 = raise_near_nephew(s1, x, d)
    OBVIOUS
  <2>2. PICK s4 : s4 = close_gap(s3, x, d)
    OBVIOUS
  <2>3. t' = s4 /\ call' = [call EXCEPT !.x = s4.root]
    BY <1>1, <1>2, <1>3, <1>4, <1>9, <2>1, <2>2 DEF EraseFixRound, BlackNephews
  <2>4. /\ Doubly(s3, L, x, d) /\ BlackSibling(s3, x, d) /\ RedFarNephew(s3, x, d)
        /\ Kept(s1, s3, L)
    BY <1>7, <1>9, <2>1, NephewRaised
  <2>5. Fits(s4, L, NoGap, nil, nil) /\ Kept(s3, s4, L)
    BY <2>2, <2>4, GapCloses
  <2>6. Gapped(s4, L, s4.root)
    <3>1. PICK U, B : Shape(s4, L, U) /\ Heights(s4, L, B, NoGap) /\ Reds(s4, L, nil, nil)
      BY <2>5 DEF Fits
    <3>2. s4.root \in L \cup {nil}
      BY <3>1 DEF Shape, Links
    <3>3. Reds(s4, L, nil, s4.root)
      <4>1. ASSUME NEW n \in L, s4.color[n] = RED
            PROVE  n # s4.root /\ (s4.color[s4.parent[n]] = BLACK \/ s4.parent[n] = s4.root)
        <5>1. n # nil
          BY <3>1 DEF Shape, Links
        <5>2. n # s4.root /\ (s4.color[s4.parent[n]] = BLACK \/ s4.parent[n] = nil)
          BY <3>1, <4>1, <5>1 DEF Reds
        <5>3. s4.color[nil] = BLACK
          BY <3>1 DEF Heights
        <5> QED BY <5>2, <5>3
      <4> QED BY <4>1 DEF Reds
    <3>4. Fits(s4, L, NoGap, nil, s4.root)
      BY <3>1, <3>3 DEF Fits
    <3>5. NoGap \in Gap
      BY DEF NoGap, Gap
    <3> QED BY <3>2, <3>4, <3>5 DEF Gapped, GapAt
  <2>7. s4.root \in L \cup {nil}
    BY <2>6 DEF Gapped
  <2>8. Kept(t, s4, L)
    BY <1>7, <2>4, <2>5, KeptTwice
  <2> QED BY <2>3, <2>6, <2>7, <2>8
<1> QED BY <1>8, <1>9

(* rebuild_after_delete ends at the root or at a red node, which it makes  *)
(* black.                                                                  *)
LEMMA EraseEnd ==
  ASSUME NEW s, NEW L, NEW x, Gapped(s, L, x), x = s.root \/ s.color[x] # BLACK
  PROVE  LET r == recolor(s, x, BLACK)
         IN  Fits(r, L, NoGap, nil, nil) /\ Kept(s, r, L)
<1> USE TwoSides, TwoColors, NilIsNoNode
<1>1. PICK r : r = recolor(s, x, BLACK)
  OBVIOUS
<1>2. PICK gap \in Gap : GapAt(s, L, x, gap) /\ Fits(s, L, gap, nil, x)
  BY DEF Gapped
<1>3. PICK U, B : Shape(s, L, U) /\ Heights(s, L, B, gap) /\ Reds(s, L, nil, x)
  BY <1>2 DEF Fits
<1>4. /\ Links(s, L) /\ Under(s, L, U) /\ s \in Tree /\ L \subseteq Ref /\ nil \notin L
      /\ x \in L \cup {nil} /\ x \in Ref
  BY <1>3 DEF Shape, Links, Gapped
<1>5. /\ B \in [Ref -> Nat \ {0}] /\ B[nil] = 1 /\ s.color[nil] = BLACK
      /\ \A e \in Sides : \A n \in L :
           B[n] = Weight(s, n) + B[s.child[e][n]] + Extra(gap, n, e)
  BY <1>3 DEF Heights
<1>6. Recolored(s, r) /\ ColorSet(s, r, x, BLACK)
  BY <1>1, <1>4, <1>5, RecolorNode
<1>7. /\ \A n \in Ref : r.color[n] = IF n = x THEN BLACK ELSE s.color[n]
      /\ r.child = s.child /\ r.parent = s.parent /\ r.root = s.root
  BY <1>6 DEF ColorSet, Recolored
<1>8. Shape(r, L, U)
  BY <1>3, <1>6, RecoloredShape
<1>9. \A n \in Ref : /\ B[n] \in Nat /\ B[n] # 0
                     /\ Weight(s, n) \in {0, 1}
                     /\ Weight(r, n) = IF n = x THEN 1 ELSE Weight(s, n)
  BY <1>5, <1>7 DEF Weight
<1> DEFINE C == [n \in Ref |-> IF n = x THEN B[n] + 1 - Weight(s, n) ELSE B[n]]
<1>10. C \in [Ref -> Nat \ {0}]
  BY <1>9
<1>11. \A n \in Ref : C[n] = IF n = x THEN B[n] + 1 - Weight(s, n) ELSE B[n]
  OBVIOUS
<1> HIDE DEF C
<1>12. C[nil] = 1 /\ r.color[nil] = BLACK
  <2>1. Weight(s, nil) = 1
    BY <1>5 DEF Weight
  <2> QED BY <1>5, <1>7, <1>11, <2>1
<1>13. \A e \in Sides : \A n \in L : x \in L =>
         Extra(gap, n, e) = IF s.child[e][n] = x THEN 1 ELSE 0
  BY <1>2, <1>4, GapPlace
<1>14. ASSUME NEW e \in Sides, NEW n \in L
       PROVE  C[n] = Weight(r, n) + C[s.child[e][n]]
  <2> DEFINE c == s.child[e][n]
  <2>1. c \in Ref /\ c # n
    BY <1>4, Children DEF Links
  <2>2. B[n] = Weight(s, n) + B[c] + Extra(gap, n, e)
    BY <1>5
  <2>3. C[c] = B[c] + Extra(gap, n, e)
    <3>1. CASE c = x /\ x # nil
      <4>1. x # s.root
        BY <1>4, <3>1, Children
      <4>2. Weight(s, x) = 0
        BY <1>4, <4>1 DEF Weight
      <4>3. Extra(gap, n, e) = 1
        BY <1>4, <1>13, <3>1
      <4> QED BY <1>9, <1>11, <2>1, <3>1, <4>2, <4>3
    <3>2. CASE x = nil
      <4>1. gap = NoGap
        BY <1>2, <1>5, <3>2 DEF GapAt
      <4>2. Extra(gap, n, e) = 0
        BY <1>4, <4>1 DEF Extra, NoGap
      <4>3. Weight(s, nil) = 1
        BY <1>5 DEF Weight
      <4> QED BY <1>9, <1>11, <2>1, <3>2, <4>2, <4>3
    <3>3. CASE c # x /\ x # nil
      <4>1. Extra(gap, n, e) = 0
        BY <1>4, <1>13, <3>3
      <4> QED BY <1>9, <1>11, <2>1, <3>3, <4>1
    <3> QED BY <3>1, <3>2, <3>3
  <2>4. C[c] \in Nat
    BY <1>10, <2>1
  <2>5. n \in Ref
    BY <1>4
  <2>6. B[c] \in Nat /\ Extra(gap, n, e) \in Nat
    BY <1>9, <2>1 DEF Extra
  <2>7. CASE n = x
    <3>1. C[n] = B[n] + 1 - Weight(s, n) /\ Weight(r, n) = 1 /\ Weight(s, n) \in {0, 1}
      BY <1>9, <1>11, <2>5, <2>7
    <3> HIDE DEF c
    <3>2. C[n] = 1 + C[c]
      BY <2>2, <2>3, <2>6, <3>1
    <3> QED BY <3>1, <3>2 DEF c
  <2>8. CASE n # x
    BY <1>9, <1>11, <2>2, <2>3, <2>4, <2>5, <2>6, <2>8
  <2> QED BY <2>7, <2>8
<1>15. ASSUME NEW e \in Sides, NEW n \in L
       PROVE  C[n] = Weight(r, n) + C[r.child[e][n]] + Extra(NoGap, n, e)
  <2>1. Extra(NoGap, n, e) = 0
    BY <1>4 DEF Extra, NoGap
  <2>2. s.child[e][n] \in Ref
    BY <1>4 DEF Links
  <2>3. C[s.child[e][n]] \in Nat /\ Weight(r, n) \in Nat
    BY <1>10, <2>2 DEF Weight
  <2> QED BY <1>7, <1>14, <2>1, <2>3
<1>16. Heights(r, L, C, NoGap)
  BY <1>10, <1>12, <1>15 DEF Heights
<1>17. Reds(r, L, nil, nil)
  <2>1. ASSUME NEW n \in L, r.color[n] = RED
        PROVE  n # r.root /\ r.color[r.parent[n]] = BLACK
    <3>1. n # x /\ s.color[n] = RED
      BY <1>4, <1>7, <2>1
    <3>2. n # s.root /\ (s.color[s.parent[n]] = BLACK \/ s.parent[n] = x)
      BY <1>3, <1>4, <3>1 DEF Reds
    <3>3. s.parent[n] \in L
      BY <1>4, <3>2, ParentOf
    <3> QED BY <1>4, <1>7, <3>2, <3>3
  <2> QED BY <2>1 DEF Reds
<1>18. Kept(s, r, L)
  BY <1>6 DEF Recolored, Kept
<1> QED BY <1>1, <1>8, <1>16, <1>17, <1>18 DEF Fits

----------------------------------------------------------------------------
(* Taking a node out of the tree *)

(* z has no child on side d, x on the other, and x takes its place.        *)
Bypassed(s, r, L, z, d, x) ==
  /\ z \in L /\ d \in Sides /\ s.child[d][z] = nil /\ x = s.child[Other(d)][z]
  /\ Transplanted(s, r, L, z, x)

Without(U, z) == [n \in Ref |-> U[n] \ {z}]

(* The tree without z has the shape of a tree.                             *)
LEMMA BypassShape ==
  ASSUME NEW s, NEW L, NEW U, Shape(s, L, U),
         NEW z, NEW d, NEW x, NEW r, Bypassed(s, r, L, z, d, x)
  PROVE  /\ Shape(r, L \ {z}, Without(U, z))
         /\ x # z /\ x \in (L \ {z}) \cup {nil}
         /\ x = r.root <=> z = s.root
<1> USE TwoSides, NilIsNoNode
<1>1. Links(s, L) /\ Under(s, L, U) /\ Ordered(s, L, U)
  BY DEF Shape
<1>2. /\ s \in Tree /\ L \subseteq Node /\ L \subseteq Ref /\ IsFiniteSet(L) /\ nil \notin L
      /\ \A e \in Sides : s.child[e][nil] = nil
  BY <1>1 DEF Links
<1>3. /\ z \in L /\ d \in Sides /\ Other(d) \in Sides
      /\ s.child[d][z] = nil /\ x = s.child[Other(d)][z] /\ z # nil
  BY <1>2 DEF Bypassed
<1>4. /\ r \in Tree
      /\ r.root = IF s.root = z THEN x ELSE s.root
      /\ r.key = s.key
      /\ \A n \in Ref : r.parent[n] = IF n = x THEN s.parent[z] ELSE s.parent[n]
      /\ \A e \in Sides : \A n \in L :
           r.child[e][n] = IF s.child[e][n] = z THEN x ELSE s.child[e][n]
      /\ \A e \in Sides : \A n \in Ref \ L : r.child[e][n] = s.child[e][n]
  BY DEF Bypassed, Transplanted
<1>5. /\ x # z /\ x \in L \cup {nil}
      /\ x # nil => s.parent[x] = z /\ x # s.root
  BY <1>1, <1>3, Children DEF Links
<1>6. /\ s.root \in L
      /\ s.parent[s.root] = nil /\ s.root # nil
  BY <1>1, <1>2, <1>3 DEF Links, Under
<1>7. x # s.root
  BY <1>5, <1>6
<1>8. \A e \in Sides : \A n \in L : /\ s.child[e][n] \in L \cup {nil}
                                    /\ s.child[e][n] # nil => s.parent[s.child[e][n]] = n
                                    /\ s.child[e][n] # n
  BY <1>1, Children DEF Links
<1>9. Links(r, L \ {z})
  <2>1. IsFiniteSet(L \ {z})
    BY <1>2, FS_Subset
  <2>2. r.root \in (L \ {z}) \cup {nil} /\ r.parent[r.root] = nil
    <3>1. CASE s.root = z
      BY <1>2, <1>4, <1>5, <1>6, <3>1
    <3>2. CASE s.root # z
      BY <1>2, <1>4, <1>6, <1>7, <3>2
    <3> QED BY <3>1, <3>2
  <2>3. \A e \in Sides : r.child[e][nil] = nil
    BY <1>2, <1>4
  <2>4. ASSUME NEW e \in Sides, NEW n \in L \ {z}
        PROVE  /\ r.child[e][n] \in (L \ {z}) \cup {nil}
               /\ r.child[e][n] # nil => r.parent[r.child[e][n]] = n
    <3>1. CASE s.child[e][n] = z
      <4>1. r.child[e][n] = x
        BY <1>4, <3>1
      <4>2. s.parent[z] = n
        BY <1>3, <1>8, <3>1
      <4> QED BY <1>2, <1>4, <1>5, <4>1, <4>2
    <3>2. CASE s.child[e][n] # z
      <4>1. r.child[e][n] = s.child[e][n]
        BY <1>4, <3>2
      <4>2. s.child[e][n] # nil => s.child[e][n] # x
        BY <1>5, <1>8
      <4> QED BY <1>2, <1>4, <1>8, <3>2, <4>1, <4>2
    <3> QED BY <3>1, <3>2
  <2> QED BY <1>2, <1>4, <2>1, <2>2, <2>3, <2>4 DEF Links
<1> DEFINE V == Without(U, z)
<1>10. \A n \in Ref : V[n] = U[n] \ {z}
  BY DEF Without
<1>11. \A n \in Ref : U[n] \in SUBSET L
  BY <1>1 DEF Under
<1>12. V \in [Ref -> SUBSET (L \ {z})]
  BY <1>11 DEF Without
<1> HIDE DEF V
<1>13. U[nil] = {} /\ U[s.root] = L
  BY <1>1 DEF Under
<1>14. U[z] = {z} \cup U[x] /\ z \notin U[x]
  BY <1>1, <1>3, <1>13 DEF Under
<1>15. \A e \in Sides : \A n \in L : V[r.child[e][n]] = U[s.child[e][n]] \ {z}
  <2>1. ASSUME NEW e \in Sides, NEW n \in L PROVE V[r.child[e][n]] = U[s.child[e][n]] \ {z}
    <3>1. CASE s.child[e][n] = z
      <4>1. r.child[e][n] = x /\ x \in Ref
        BY <1>2, <1>4, <1>5, <3>1
      <4> QED BY <1>10, <1>14, <3>1, <4>1
    <3>2. CASE s.child[e][n] # z
      <4>1. r.child[e][n] = s.child[e][n] /\ s.child[e][n] \in Ref
        BY <1>2, <1>4, <1>8, <3>2
      <4> QED BY <1>10, <4>1
    <3> QED BY <3>1, <3>2
  <2> QED BY <2>1
<1>16. V[r.root] = L \ {z}
  <2>1. CASE s.root = z
    <3>1. r.root = x /\ x \in Ref
      BY <1>2, <1>4, <1>5, <2>1
    <3> QED BY <1>10, <1>13, <1>14, <2>1, <3>1
  <2>2. CASE s.root # z
    <3>1. r.root = s.root /\ s.root \in Ref
      BY <1>2, <1>4, <1>6, <2>2
    <3> QED BY <1>10, <1>13, <3>1
  <2> QED BY <2>1, <2>2
<1>17. ASSUME NEW e \in Sides, NEW n \in L \ {z}
       PROVE  /\ V[n] = {n} \cup V[r.child[e][n]] \cup V[r.child[Other(e)][n]]
              /\ n \notin V[r.child[e][n]]
              /\ V[r.child[e][n]] \cap V[r.child[Other(e)][n]] = {}
  <2>1. /\ U[n] = {n} \cup U[s.child[e][n]] \cup U[s.child[Other(e)][n]]
        /\ n \notin U[s.child[e][n]]
        /\ U[s.child[e][n]] \cap U[s.child[Other(e)][n]] = {}
    BY <1>1 DEF Under
  <2>2. V[n] = U[n] \ {z}
    BY <1>2, <1>10
  <2>3. /\ V[r.child[e][n]] = U[s.child[e][n]] \ {z}
        /\ V[r.child[Other(e)][n]] = U[s.child[Other(e)][n]] \ {z}
    BY <1>15
  <2>4. n # z
    OBVIOUS
  <2>5. V[n] = {n} \cup V[r.child[e][n]] \cup V[r.child[Other(e)][n]]
    BY <2>1, <2>2, <2>3, <2>4
  <2>6. n \notin V[r.child[e][n]]
    BY <2>1, <2>3
  <2>7. V[r.child[e][n]] \cap V[r.child[Other(e)][n]] = {}
    BY <2>1, <2>3
  <2> QED BY <2>5, <2>6, <2>7
<1>18. Under(r, L \ {z}, V)
  <2>1. V[nil] = {}
    BY <1>10, <1>13
  <2> QED BY <1>12, <1>16, <1>17, <2>1 DEF Under
<1>19. Ordered(r, L \ {z}, V)
  <2>1. ASSUME NEW e \in Sides, NEW n \in L \ {z}, NEW m \in V[r.child[e][n]]
        PROVE  Before(e, s.key[m], s.key[n])
    <3>1. m \in U[s.child[e][n]]
      BY <1>15
    <3> QED BY <1>1, <3>1 DEF Ordered
  <2> QED BY <1>4, <2>1 DEF Ordered
<1>20. Shape(r, L \ {z}, V)
  BY <1>9, <1>18, <1>19 DEF Shape
<1>21. x = r.root <=> z = s.root
  BY <1>4, <1>7
<1>22. x \in (L \ {z}) \cup {nil}
  BY <1>5
<1> QED BY <1>5, <1>20, <1>21, <1>22 DEF V

(* A red node may go; a black one leaves a gap where x is.                 *)
Left(r, L, x, color, gap) ==
  IF color = BLACK THEN GapAt(r, L, x, gap) ELSE gap = NoGap

(* The colours of the tree without z, and the gap z leaves.                *)
LEMMA BypassColors ==
  ASSUME NEW s, NEW L, NEW U, NEW B,
         Shape(s, L, U), Heights(s, L, B, NoGap), Reds(s, L, nil, nil),
         NEW z, NEW d, NEW x, NEW r, Bypassed(s, r, L, z, d, x)
  PROVE  \E gap \in Gap : /\ Left(r, L \ {z}, x, s.color[z], gap)
                          /\ Heights(r, L \ {z}, B, gap)
                          /\ Reds(r, L \ {z}, nil, IF s.color[z] = BLACK THEN x ELSE nil)
<1> USE TwoSides, TwoColors, NilIsNoNode
<1>1. Links(s, L) /\ Under(s, L, U)
  BY DEF Shape
<1>2. s \in Tree /\ L \subseteq Node /\ L \subseteq Ref /\ nil \notin L
  BY <1>1 DEF Links
<1>3. /\ z \in L /\ d \in Sides /\ Other(d) \in Sides
      /\ s.child[d][z] = nil /\ x = s.child[Other(d)][z] /\ z # nil
  BY <1>2 DEF Bypassed
<1>4. /\ r.root = IF s.root = z THEN x ELSE s.root
      /\ r.color = s.color
      /\ \A n \in Ref : r.parent[n] = IF n = x THEN s.parent[z] ELSE s.parent[n]
      /\ \A e \in Sides : \A n \in L :
           r.child[e][n] = IF s.child[e][n] = z THEN x ELSE s.child[e][n]
  BY DEF Bypassed, Transplanted
<1>5. x # z /\ x \in (L \ {z}) \cup {nil} /\ (x = r.root <=> z = s.root)
  <2>1. /\ Shape(r, L \ {z}, Without(U, z))
        /\ x # z /\ x \in (L \ {z}) \cup {nil}
        /\ x = r.root <=> z = s.root
    BY BypassShape
  <2> QED BY <2>1
<1>6. /\ B \in [Ref -> Nat \ {0}] /\ B[nil] = 1 /\ s.color[nil] = BLACK
      /\ \A e \in Sides : \A n \in L :
           B[n] = Weight(s, n) + B[s.child[e][n]] + Extra(NoGap, n, e)
  BY DEF Heights
<1>7. \A n \in Ref : B[n] \in Nat /\ Weight(s, n) \in Nat /\ Weight(r, n) = Weight(s, n)
  BY <1>4, <1>6 DEF Weight
<1>8. \A e \in Sides : \A n \in L : B[n] = Weight(s, n) + B[s.child[e][n]]
  <2>1. ASSUME NEW e \in Sides, NEW n \in L PROVE B[n] = Weight(s, n) + B[s.child[e][n]]
    <3>1. Extra(NoGap, n, e) = 0
      BY <1>2 DEF Extra, NoGap
    <3>2. s.child[e][n] \in Ref
      BY <1>1, <1>2 DEF Links
    <3> QED BY <1>2, <1>6, <1>7, <3>1, <3>2
  <2> QED BY <2>1
<1>9. \A n \in L : s.color[n] = RED =>
        /\ n # s.root /\ s.color[s.parent[n]] = BLACK
        /\ s.parent[n] \in L /\ \E e \in Sides : s.child[e][s.parent[n]] = n
  <2>1. ASSUME NEW n \in L, s.color[n] = RED
        PROVE  n # s.root /\ (s.color[s.parent[n]] = BLACK \/ s.parent[n] = nil)
    BY <1>2, <2>1 DEF Reds
  <2> QED BY <1>1, <1>6, <2>1, ParentOf
<1>10. ASSUME NEW n \in L \ {z}, r.color[n] = RED, n # x
       PROVE  n # r.root /\ r.color[r.parent[n]] = BLACK
  <2>1. s.color[n] = RED /\ n # nil
    BY <1>2, <1>4, <1>10
  <2>2. s.parent[n] # z
    <3>1. s.parent[n] = z => \E e \in Sides : s.child[e][z] = n
      BY <1>9, <2>1
    <3> QED BY <1>3, <1>10, <2>1, <3>1
  <2> QED BY <1>2, <1>4, <1>9, <1>10, <2>1
<1>11. s.color[z] \in {RED, BLACK}
  BY <1>2, <1>3 DEF Tree
<1>12. CASE s.color[z] = BLACK
  <2>1. PICK gap \in Gap : GapAt(s, L, z, gap)
    BY <1>1, <1>3, GapExists
  <2>2. \A e \in Sides : \A n \in L : Extra(gap, n, e) = IF s.child[e][n] = z THEN 1 ELSE 0
    BY <1>1, <1>3, <2>1, GapPlace
  <2>3. GapAt(r, L \ {z}, x, gap)
    <3>1. CASE z = s.root
      BY <1>5, <2>1, <3>1 DEF GapAt
    <3>2. CASE z # s.root
      <4>1. /\ gap.n = s.parent[z] /\ gap.n \in L /\ gap.d \in Sides
            /\ s.child[gap.d][gap.n] = z
        BY <2>1, <3>2 DEF GapAt
      <4>2. gap.n # z
        BY <1>1, <4>1, Children
      <4>3. r.parent[x] = s.parent[z]
        BY <1>2, <1>4, <1>5
      <4> QED BY <1>4, <1>5, <3>2, <4>1, <4>2, <4>3 DEF GapAt
    <3> QED BY <3>1, <3>2
  <2>4. ASSUME NEW e \in Sides, NEW n \in L \ {z}
        PROVE  B[n] = Weight(r, n) + B[r.child[e][n]] + Extra(gap, n, e)
    <3>1. n \in Ref /\ s.child[e][n] \in Ref
      BY <1>1, <1>2 DEF Links
    <3>2. CASE s.child[e][n] = z
      <4>1. r.child[e][n] = x /\ Extra(gap, n, e) = 1
        BY <1>4, <2>2, <3>2
      <4>2. B[z] = 1 + B[x]
        BY <1>3, <1>8, <1>12 DEF Weight
      <4>3. B[x] \in Nat /\ x \in Ref
        BY <1>2, <1>5, <1>7
      <4>4. B[n] = Weight(r, n) + B[z] /\ Weight(r, n) \in Nat
        BY <1>7, <1>8, <3>1, <3>2
      <4> QED BY <4>1, <4>2, <4>3, <4>4
    <3>3. CASE s.child[e][n] # z
      <4>1. r.child[e][n] = s.child[e][n] /\ Extra(gap, n, e) = 0
        BY <1>4, <2>2, <3>3
      <4> QED BY <1>7, <1>8, <3>1, <4>1
    <3> QED BY <3>2, <3>3
  <2>5. Heights(r, L \ {z}, B, gap)
    BY <1>4, <1>6, <2>4 DEF Heights
  <2>6. Reds(r, L \ {z}, nil, x)
    BY <1>10 DEF Reds
  <2> QED BY <1>12, <2>1, <2>3, <2>5, <2>6 DEF Left
<1>13. CASE s.color[z] = RED
  <2>1. s.color[x] = BLACK
    <3>1. x \in L => s.parent[x] = z
      BY <1>1, <1>2, <1>3 DEF Links
    <3>2. x \in L => s.color[x] # RED
      BY <1>9, <1>13, <3>1
    <3>3. x \in Ref
      BY <1>2, <1>5
    <3> QED BY <1>2, <1>5, <1>6, <3>2, <3>3 DEF Tree
  <2>2. ASSUME NEW e \in Sides, NEW n \in L \ {z}
        PROVE  B[n] = Weight(r, n) + B[r.child[e][n]] + Extra(NoGap, n, e)
    <3>1. n \in Ref /\ s.child[e][n] \in Ref /\ x \in Ref
      BY <1>1, <1>2, <1>5 DEF Links
    <3>2. Extra(NoGap, n, e) = 0
      BY <1>2 DEF Extra, NoGap
    <3>3. B[r.child[e][n]] = B[s.child[e][n]]
      <4>1. CASE s.child[e][n] = z
        <5>1. B[z] = 0 + B[x]
          BY <1>3, <1>8, <1>13 DEF Weight
        <5> QED BY <1>4, <1>7, <3>1, <4>1, <5>1
      <4>2. CASE s.child[e][n] # z
        BY <1>4, <4>2
      <4> QED BY <4>1, <4>2
    <3> QED BY <1>7, <1>8, <3>1, <3>2, <3>3
  <2>3. Heights(r, L \ {z}, B, NoGap)
    BY <1>4, <1>6, <2>2 DEF Heights
  <2>4. Reds(r, L \ {z}, nil, nil)
    BY <1>4, <1>10, <2>1 DEF Reds
  <2>5. NoGap \in Gap
    BY DEF NoGap, Gap
  <2> QED BY <1>13, <2>3, <2>4, <2>5 DEF Left
<1> QED BY <1>11, <1>12, <1>13

----------------------------------------------------------------------------
(* The successor in the place of the erased node *)

(* y for z, in a place where y is new.                                     *)
Ren(z, y, n) == IF n = z THEN y ELSE n

(* r is q with y for z.                                                    *)
Renamed(q, r, L, z, y, x) ==
  /\ r \in Tree
  /\ z \in L /\ y \in Node \ L /\ x \in L \cup {nil}
  /\ r.key = q.key
  /\ r.root = Ren(z, y, q.root)
  /\ \A e \in Sides : r.child[e][nil] = nil
  /\ \A e \in Sides : \A n \in L : r.child[e][Ren(z, y, n)] = Ren(z, y, q.child[e][n])
  /\ \A n \in L \cup {x} : r.parent[Ren(z, y, n)] = Ren(z, y, q.parent[n])
  /\ \A n \in L \cup {nil} : r.color[Ren(z, y, n)] = q.color[n]

NewNames(L, z, y) == (L \ {z}) \cup {y}

(* The old name of a new one.                                              *)
OldName(z, y, k) == IF k = y THEN z ELSE k

RenamedUnder(U, z, y) ==
  [k \in Ref |-> IF k = z THEN {} ELSE {Ren(z, y, m) : m \in U[OldName(z, y, k)]}]

(* Renaming is one to one.                                                 *)
LEMMA Names ==
  ASSUME NEW q, NEW r, NEW L, NEW z, NEW y, NEW x, Renamed(q, r, L, z, y, x), Links(q, L)
  PROVE  /\ \A n \in L : Ren(z, y, n) \in NewNames(L, z, y)
         /\ \A k \in NewNames(L, z, y) :
              OldName(z, y, k) \in L /\ Ren(z, y, OldName(z, y, k)) = k
         /\ \A n, m \in L \cup {nil} : Ren(z, y, n) = Ren(z, y, m) => n = m
         /\ Ren(z, y, nil) = nil
         /\ \A n \in L \cup {nil} : OldName(z, y, Ren(z, y, n)) = n /\ Ren(z, y, n) # z
         /\ L \subseteq Node /\ nil \notin L /\ z \in L /\ y \in Node \ L /\ y # nil /\ y # z
  BY NilIsNoNode DEF Renamed, Links, NewNames, OldName, Ren

(* After the renaming the pointers agree,                                  *)
LEMMA RenamedLinks ==
  ASSUME NEW q, NEW r, NEW L, NEW z, NEW y, NEW x, Renamed(q, r, L, z, y, x), Links(q, L)
  PROVE  Links(r, NewNames(L, z, y))
<1> USE TwoSides, NilIsNoNode
<1> DEFINE N == NewNames(L, z, y)
           ren(n) == Ren(z, y, n)
<1>1. /\ \A n \in L : ren(n) \in N
      /\ \A k \in N : \E n \in L : k = ren(n)
      /\ \A n, m \in L \cup {nil} : ren(n) = ren(m) => n = m
      /\ ren(nil) = nil
      /\ L \subseteq Node /\ nil \notin L /\ z \in L /\ y \in Node \ L /\ y # nil
  <2>1. \A k \in N : OldName(z, y, k) \in L /\ Ren(z, y, OldName(z, y, k)) = k
    BY Names
  <2> QED BY <2>1, Names
<1>2. /\ r \in Tree
      /\ r.root = ren(q.root)
      /\ \A e \in Sides : r.child[e][nil] = nil
      /\ \A e \in Sides : \A n \in L : r.child[e][ren(n)] = ren(q.child[e][n])
      /\ \A n \in L : r.parent[ren(n)] = ren(q.parent[n])
  BY DEF Renamed
<1>3. N \subseteq Node /\ IsFiniteSet(N)
  <2>1. IsFiniteSet(L \ {z})
    BY FS_Subset DEF Links
  <2>2. IsFiniteSet(N)
    BY <2>1, FS_AddElement DEF NewNames
  <2> QED BY <1>1, <2>2 DEF NewNames
<1>4. /\ q.root \in L \cup {nil}
      /\ q.root # nil => q.parent[q.root] = nil
      /\ \A e \in Sides : \A n \in L : /\ q.child[e][n] \in L \cup {nil}
                                       /\ q.child[e][n] # nil => q.parent[q.child[e][n]] = n
  BY DEF Links
<1> HIDE DEF N, ren
<1>5. r.root \in N \cup {nil} /\ (r.root # nil => r.parent[r.root] = nil)
  BY <1>1, <1>2, <1>4
<1>6. ASSUME NEW e \in Sides, NEW k \in N
      PROVE  /\ r.child[e][k] \in N \cup {nil}
             /\ r.child[e][k] # nil => r.parent[r.child[e][k]] = k
  <2>1. PICK n \in L : k = ren(n)
    BY <1>1
  <2>2. PICK c : c = q.child[e][n]
    OBVIOUS
  <2>3. r.child[e][k] = ren(c) /\ c \in L \cup {nil} /\ (c # nil => q.parent[c] = n)
    BY <1>2, <1>4, <2>1, <2>2
  <2>4. c # nil => r.parent[ren(c)] = k
    BY <1>2, <2>1, <2>3
  <2> QED BY <1>1, <2>3, <2>4
<1> QED BY <1>2, <1>3, <1>5, <1>6 DEF Links, N

(* the same nodes are under each place, renamed,                           *)
LEMMA RenamedIsUnder ==
  ASSUME NEW q, NEW r, NEW L, NEW z, NEW y, NEW x, Renamed(q, r, L, z, y, x), Links(q, L),
         NEW U, Under(q, L, U)
  PROVE  /\ Under(r, NewNames(L, z, y), RenamedUnder(U, z, y))
         /\ \A n \in L \cup {nil} :
              RenamedUnder(U, z, y)[Ren(z, y, n)] = {Ren(z, y, m) : m \in U[n]}
<1> USE TwoSides, NilIsNoNode
<1> DEFINE N == NewNames(L, z, y)
           V == RenamedUnder(U, z, y)
           ren(n) == Ren(z, y, n)
<1>1. /\ \A n \in L : ren(n) \in N
      /\ \A k \in N : \E n \in L : k = ren(n)
      /\ \A n, m \in L \cup {nil} : ren(n) = ren(m) => n = m
      /\ ren(nil) = nil
      /\ L \subseteq Node /\ nil \notin L /\ z \in L /\ y \in Node \ L /\ y # nil
      /\ \A n \in L \cup {nil} : OldName(z, y, ren(n)) = n /\ ren(n) # z
      /\ \A k \in N : OldName(z, y, k) \in L
  <2>1. \A k \in N : OldName(z, y, k) \in L /\ Ren(z, y, OldName(z, y, k)) = k
    BY Names
  <2> QED BY <2>1, Names
<1>2. /\ r.root = ren(q.root)
      /\ \A e \in Sides : \A n \in L : r.child[e][ren(n)] = ren(q.child[e][n])
  BY DEF Renamed
<1>3. /\ q.root \in L \cup {nil}
      /\ \A e \in Sides : \A n \in L : q.child[e][n] \in L \cup {nil}
  BY DEF Links
<1>4. /\ \A n \in Ref : U[n] \in SUBSET L
      /\ U[nil] = {} /\ U[q.root] = L
      /\ \A e \in Sides : \A n \in L :
           /\ U[n] = {n} \cup U[q.child[e][n]] \cup U[q.child[Other(e)][n]]
           /\ n \notin U[q.child[e][n]]
           /\ U[q.child[e][n]] \cap U[q.child[Other(e)][n]] = {}
  BY DEF Under
<1>5. N \subseteq Ref
  BY <1>1 DEF NewNames
<1>6. \A n \in L \cup {nil} : V[ren(n)] = {ren(m) : m \in U[n]}
  <2>1. ASSUME NEW n \in L \cup {nil} PROVE V[ren(n)] = {ren(m) : m \in U[n]}
    <3>1. ren(n) \in Ref /\ ren(n) # z /\ OldName(z, y, ren(n)) = n
      BY <1>1, <1>5
    <3> QED BY <3>1 DEF RenamedUnder
  <2> QED BY <2>1
<1>7. V \in [Ref -> SUBSET N]
  <2>1. ASSUME NEW k \in Ref, k # z PROVE {ren(m) : m \in U[OldName(z, y, k)]} \in SUBSET N
    <3>1. OldName(z, y, k) \in Ref
      BY <1>1 DEF OldName
    <3> QED BY <1>1, <1>4, <3>1
  <2> QED BY <2>1 DEF RenamedUnder
<1> HIDE DEF V, ren, N
<1>8. V[nil] = {}
  <2>1. V[ren(nil)] = {ren(m) : m \in U[nil]}
    BY <1>6
  <2> QED BY <1>1, <1>4, <2>1
<1>9. V[r.root] = N
  <2>1. V[r.root] = {ren(m) : m \in L}
    BY <1>2, <1>3, <1>4, <1>6
  <2> QED BY <1>1, <2>1
<1>10. ASSUME NEW e \in Sides, NEW k \in N
       PROVE  /\ V[k] = {k} \cup V[r.child[e][k]] \cup V[r.child[Other(e)][k]]
              /\ k \notin V[r.child[e][k]]
              /\ V[r.child[e][k]] \cap V[r.child[Other(e)][k]] = {}
  <2>1. PICK n \in L : k = ren(n)
    BY <1>1
  <2>2. PICK a, b : a = U[q.child[e][n]] /\ b = U[q.child[Other(e)][n]]
    OBVIOUS
  <2>3. U[n] = {n} \cup a \cup b /\ n \notin a /\ a \cap b = {}
    BY <1>4, <2>2
  <2>4. a \subseteq L /\ b \subseteq L
    <3>1. q.child[e][n] \in Ref /\ q.child[Other(e)][n] \in Ref
      BY <1>1, <1>3
    <3> QED BY <1>4, <2>2, <3>1
  <2>5. V[r.child[e][k]] = {ren(m) : m \in a} /\ V[r.child[Other(e)][k]] = {ren(m) : m \in b}
    BY <1>2, <1>3, <1>6, <2>1, <2>2
  <2>6. V[k] = {ren(m) : m \in U[n]}
    BY <1>6, <2>1
  <2>7. V[k] = {k} \cup V[r.child[e][k]] \cup V[r.child[Other(e)][k]]
    BY <2>1, <2>3, <2>5, <2>6
  <2>8. k \notin V[r.child[e][k]]
    <3>1. ASSUME NEW m \in a, k = ren(m) PROVE FALSE
      BY <1>1, <2>1, <2>3, <2>4, <3>1
    <3> QED BY <2>5, <3>1
  <2>9. V[r.child[e][k]] \cap V[r.child[Other(e)][k]] = {}
    <3>1. ASSUME NEW m \in a, NEW i \in b, ren(m) = ren(i) PROVE FALSE
      BY <1>1, <2>3, <2>4, <3>1
    <3> QED BY <2>5, <3>1
  <2> QED BY <2>7, <2>8, <2>9
<1>11. Under(r, N, V)
  BY <1>7, <1>8, <1>9, <1>10 DEF Under
<1> QED BY <1>6, <1>11 DEF N, V, ren

(* y may stand where z stands.                                             *)
Substitutes(q, L, U, z, y) ==
  \A e \in Sides :
    /\ \A n \in L : z \in U[q.child[e][n]] => Before(e, q.key[y], q.key[n])
    /\ \A m \in U[q.child[e][z]] : Before(e, q.key[m], q.key[y])

(* the keys are in order if y fits in the place of z,                      *)
LEMMA RenamedOrdered ==
  ASSUME NEW q, NEW r, NEW L, NEW z, NEW y, NEW x, Renamed(q, r, L, z, y, x), Links(q, L),
         NEW U, Under(q, L, U), Ordered(q, L, U), Substitutes(q, L, U, z, y)
  PROVE  Ordered(r, NewNames(L, z, y), RenamedUnder(U, z, y))
<1> USE TwoSides, NilIsNoNode
<1> DEFINE N == NewNames(L, z, y)
           V == RenamedUnder(U, z, y)
           ren(n) == Ren(z, y, n)
<1>1. /\ \A k \in N : \E n \in L : k = ren(n)
      /\ nil \notin L /\ L \subseteq Ref /\ z \in L
  <2>1. \A k \in N : OldName(z, y, k) \in L /\ Ren(z, y, OldName(z, y, k)) = k
    BY Names
  <2> QED BY <2>1, Names
<1>2. \A n \in L \cup {nil} : V[ren(n)] = {ren(m) : m \in U[n]}
  BY RenamedIsUnder
<1>3. /\ \A e \in Sides : \A n \in L : r.child[e][ren(n)] = ren(q.child[e][n])
      /\ r.key = q.key
  BY DEF Renamed
<1>4. \A e \in Sides : \A n \in L : q.child[e][n] \in L \cup {nil} /\ n \notin U[q.child[e][n]]
  BY DEF Links, Under
<1>5. ASSUME NEW e \in Sides, NEW k \in N, NEW i \in V[r.child[e][k]]
      PROVE  Before(e, r.key[i], r.key[k])
  <2>1. PICK n \in L : k = ren(n)
    BY <1>1
  <2>2. V[r.child[e][k]] = {ren(m) : m \in U[q.child[e][n]]}
    BY <1>2, <1>3, <1>4, <2>1
  <2>3. PICK m \in U[q.child[e][n]] : i = ren(m)
    BY <2>2
  <2>4. Before(e, q.key[m], q.key[n])
    BY DEF Ordered
  <2>5. m # n
    BY <1>4
  <2>6. CASE n = z
    <3>1. k = y /\ i = m
      BY <2>1, <2>3, <2>5, <2>6 DEF Ren
    <3> QED BY <1>3, <2>6, <3>1 DEF Substitutes
  <2>7. CASE n # z /\ m = z
    <3>1. k = n /\ i = y
      BY <2>1, <2>3, <2>7 DEF Ren
    <3> QED BY <1>3, <2>7, <3>1 DEF Substitutes
  <2>8. CASE n # z /\ m # z
    <3>1. k = n /\ i = m
      BY <2>1, <2>3, <2>8 DEF Ren
    <3> QED BY <1>3, <2>4, <3>1
  <2> QED BY <2>6, <2>7, <2>8
<1> QED BY <1>5 DEF Ordered

(* the paths pass as many black nodes as before,                           *)
LEMMA RenamedHeights ==
  ASSUME NEW q, NEW r, NEW L, NEW z, NEW y, NEW x, Renamed(q, r, L, z, y, x), Links(q, L),
         NEW B, NEW gap \in Gap, Heights(q, L, B, gap), gap.n \in L \cup {nil}
  PROVE  \E C : Heights(r, NewNames(L, z, y), C, [n |-> Ren(z, y, gap.n), d |-> gap.d])
<1> USE TwoSides, NilIsNoNode
<1> DEFINE N == NewNames(L, z, y)
           ren(n) == Ren(z, y, n)
           C == [k \in Ref |-> IF k = z THEN 1 ELSE B[OldName(z, y, k)]]
<1>1. /\ \A n \in L : ren(n) \in N
      /\ \A k \in N : \E n \in L : k = ren(n)
      /\ \A n, m \in L \cup {nil} : ren(n) = ren(m) => n = m
      /\ ren(nil) = nil
      /\ L \subseteq Node /\ nil \notin L /\ z \in L /\ y \in Node \ L /\ y # nil
      /\ \A n \in L \cup {nil} : OldName(z, y, ren(n)) = n /\ ren(n) # z
  <2>1. \A k \in N : OldName(z, y, k) \in L /\ Ren(z, y, OldName(z, y, k)) = k
    BY Names
  <2> QED BY <2>1, Names
<1>2. /\ \A e \in Sides : \A n \in L : r.child[e][ren(n)] = ren(q.child[e][n])
      /\ \A n \in L \cup {nil} : r.color[ren(n)] = q.color[n]
  BY DEF Renamed
<1>3. \A e \in Sides : \A n \in L : q.child[e][n] \in L \cup {nil}
  BY DEF Links
<1>4. /\ B \in [Ref -> Nat \ {0}] /\ B[nil] = 1 /\ q.color[nil] = BLACK
      /\ \A e \in Sides : \A n \in L :
           B[n] = Weight(q, n) + B[q.child[e][n]] + Extra(gap, n, e)
  BY DEF Heights
<1>5. C \in [Ref -> Nat \ {0}]
  <2>1. \A k \in Ref : OldName(z, y, k) \in Ref
    BY <1>1 DEF OldName
  <2>2. \A k \in Ref : B[k] \in Nat \ {0}
    BY <1>4
  <2>3. 1 \in Nat \ {0}
    OBVIOUS
  <2> QED BY <2>1, <2>2, <2>3
<1>6. \A n \in L \cup {nil} : C[ren(n)] = B[n]
  <2>1. ASSUME NEW n \in L \cup {nil} PROVE C[ren(n)] = B[n]
    <3>1. ren(n) \in Ref /\ ren(n) # z /\ OldName(z, y, ren(n)) = n
      BY <1>1 DEF Ren
    <3> QED BY <3>1
  <2> QED BY <2>1
<1> DEFINE gap2 == [n |-> ren(gap.n), d |-> gap.d]
<1>7. \A e \in Sides : \A n \in L : Extra(gap2, ren(n), e) = Extra(gap, n, e)
  <2>1. ASSUME NEW n \in L PROVE ren(n) = ren(gap.n) <=> n = gap.n
    BY <1>1
  <2>2. gap2.n = ren(gap.n) /\ gap2.d = gap.d
    OBVIOUS
  <2> HIDE DEF gap2, ren
  <2> QED BY <2>1, <2>2 DEF Extra
<1>8. \A n \in L : Weight(r, ren(n)) = Weight(q, n)
  BY <1>2 DEF Weight
<1> HIDE DEF C, ren, N, gap2
<1>9. ASSUME NEW e \in Sides, NEW k \in N
      PROVE  C[k] = Weight(r, k) + C[r.child[e][k]] + Extra(gap2, k, e)
  <2>1. PICK n \in L : k = ren(n)
    BY <1>1
  <2>2. C[k] = B[n] /\ C[r.child[e][k]] = B[q.child[e][n]]
    BY <1>2, <1>3, <1>6, <2>1
  <2>3. Weight(r, k) = Weight(q, n) /\ Extra(gap2, k, e) = Extra(gap, n, e)
    BY <1>7, <1>8, <2>1
  <2> QED BY <1>4, <2>2, <2>3
<1>10. C[nil] = 1 /\ r.color[nil] = BLACK
  BY <1>1, <1>2, <1>4, <1>6
<1>11. Heights(r, N, C, gap2)
  BY <1>5, <1>9, <1>10 DEF Heights
<1> QED BY <1>11 DEF N, gap2, ren

(* and no red node is below a red one.                                     *)
LEMMA RenamedReds ==
  ASSUME NEW q, NEW r, NEW L, NEW z, NEW y, NEW x, Renamed(q, r, L, z, y, x), Links(q, L),
         NEW U, Under(q, L, U), NEW mid \in {x, nil}, mid # z, Reds(q, L, nil, mid)
  PROVE  Reds(r, NewNames(L, z, y), nil, mid)
<1> USE TwoSides, NilIsNoNode
<1> DEFINE N == NewNames(L, z, y)
           ren(n) == Ren(z, y, n)
<1>1. /\ \A k \in N : \E n \in L : k = ren(n)
      /\ \A n, m \in L \cup {nil} : ren(n) = ren(m) => n = m
      /\ nil \notin L
  <2>1. \A k \in N : OldName(z, y, k) \in L /\ Ren(z, y, OldName(z, y, k)) = k
    BY Names
  <2> QED BY <2>1, Names
<1>2. /\ r.root = ren(q.root)
      /\ \A n \in L : r.parent[ren(n)] = ren(q.parent[n])
      /\ \A n \in L \cup {nil} : r.color[ren(n)] = q.color[n]
      /\ x \in L \cup {nil}
  BY DEF Renamed
<1>3. mid \in L \cup {nil} /\ ren(mid) = mid
  BY <1>2 DEF Ren
<1>4. q.root \in L \cup {nil}
  BY DEF Links
<1> HIDE DEF ren, N
<1>5. ASSUME NEW k \in N, r.color[k] = RED, k # mid
      PROVE  k # r.root /\ (r.color[r.parent[k]] = BLACK \/ r.parent[k] = mid)
  <2>1. PICK n \in L : k = ren(n)
    BY <1>1
  <2>2. q.color[n] = RED /\ n # mid /\ n # nil
    BY <1>1, <1>2, <1>3, <1>5, <2>1
  <2>3. n # q.root /\ (q.color[q.parent[n]] = BLACK \/ q.parent[n] = mid)
    BY <2>2 DEF Reds
  <2>4. q.parent[n] \in L
    BY <2>3, ParentOf
  <2>5. r.parent[k] = ren(q.parent[n]) /\ k # r.root
    BY <1>1, <1>2, <1>4, <2>1, <2>3
  <2> QED BY <1>2, <1>3, <2>3, <2>4, <2>5
<1> QED BY <1>5 DEF Reds, N

(* The nodes that relink_successor is about: y is under the right child of *)
(* z and has no left child, x is its right child.                          *)
Relinking(s, L, U, z, y) ==
  /\ Links(s, L) /\ Under(s, L, U)
  /\ z \in L /\ \A d \in Sides : s.child[d][z] # nil
  /\ y \in U[s.child["right"][z]]
  /\ s.child["left"][y] = nil

(* They are different nodes.                                               *)
LEMMA AroundSuccessor ==
  ASSUME NEW s, NEW L, NEW U, NEW z, NEW y, Relinking(s, L, U, z, y)
  PROVE  LET x == s.child["right"][y]
             right == s.child["right"][z]
             left == s.child["left"][z]
         IN  /\ y \in L /\ y # z /\ y # nil /\ z # nil
             /\ left \in L /\ right \in L /\ left # right /\ left # nil /\ right # nil
             /\ left # z /\ right # z /\ left # y
             /\ s.parent[left] = z /\ s.parent[right] = z
             /\ y # s.root /\ s.parent[y] \in L /\ s.parent[y] # y
             /\ s.parent[y] = z => right = y
             /\ right = y => s.parent[y] = z
             /\ x \in L \cup {nil} /\ x # z /\ x # y /\ x # left /\ x # right
             /\ x # nil => s.parent[x] = y /\ x # s.root
             /\ s.parent[z] # y
<1> USE TwoSides, NilIsNoNode
<1> DEFINE x == s.child["right"][y]
           right == s.child["right"][z]
           left == s.child["left"][z]
<1>1. /\ Links(s, L) /\ Under(s, L, U) /\ z \in L /\ nil \notin L /\ L \subseteq Ref
      /\ left # nil /\ right # nil
  BY DEF Relinking, Links
<1>2. /\ left \in L /\ right \in L
      /\ s.parent[left] = z /\ s.parent[right] = z
      /\ left # z /\ right # z /\ left # s.root /\ right # s.root
  BY <1>1, Children
<1>3. left # right /\ left \in U[left] /\ right \in U[right]
  BY <1>1, Children
<1>4. /\ z \notin U[right] /\ U[left] \cap U[right] = {} /\ U[right] \subseteq L
      /\ U[right] \subseteq U[z]
  BY <1>1, <1>2 DEF Under
<1>5. y \in U[right] /\ y \in L /\ y # z /\ y # left /\ y # nil
  BY <1>1, <1>3, <1>4 DEF Relinking
<1>6. y \in U[y]
  BY <1>1, <1>5, Children
<1>7. y # right => s.parent[y] \in U[right]
  BY <1>1, <1>2, <1>5, UnderIsClosed DEF ParentIn
<1>8. s.parent[y] = z <=> right = y
  BY <1>2, <1>4, <1>7
<1>9. y # s.root
  <2>1. CASE y = right
    BY <1>2, <2>1
  <2>2. CASE y # right
    <3>1. s.parent[y] \in L
      BY <1>4, <1>7, <2>2
    <3> QED BY <1>1, <1>5, <3>1, ParentOf
  <2> QED BY <2>1, <2>2
<1>10. s.parent[y] \in L /\ s.parent[y] # y
  <2>1. s.parent[y] \in L /\ \E e \in Sides : s.child[e][s.parent[y]] = y
    BY <1>1, <1>5, <1>9, ParentOf
  <2>2. s.parent[y] # y
    BY <1>1, <1>5, <2>1, Children
  <2> QED BY <2>1, <2>2
<1>11. /\ x \in L \cup {nil} /\ x # y
       /\ x # nil => s.parent[x] = y /\ x # s.root /\ x \in U[x]
  BY <1>1, <1>5, Children DEF Links
<1>12. x # left /\ x # right
  BY <1>1, <1>2, <1>5, <1>11
<1>13. U[y] \subseteq U[right] /\ U[x] \subseteq U[y]
  <2>1. U[y] \subseteq U[right]
    BY <1>1, <1>2, <1>5, UnderIsClosed
  <2>2. U[x] \subseteq U[y]
    BY <1>1, <1>5 DEF Under
  <2> QED BY <2>1, <2>2
<1>14. x # z
  BY <1>1, <1>4, <1>11, <1>13
<1>15. s.parent[z] # y
  <2>1. ASSUME s.parent[z] = y PROVE FALSE
    <3>1. z # s.root
      BY <1>1, <1>5, <2>1, ParentOf
    <3>2. PICK e \in Sides : s.child[e][y] = z
      BY <1>1, <2>1, <3>1, ParentOf
    <3>3. z \in U[z]
      BY <1>1, Children
    <3>4. z \in U[y]
      BY <1>1, <1>5, <3>2, <3>3 DEF Under
    <3> QED BY <1>4, <1>13, <3>4
  <2> QED BY <2>1
<1> QED BY <1>1, <1>2, <1>3, <1>5, <1>8, <1>9, <1>10, <1>11, <1>12, <1>14, <1>15

(* r has the children of s where it is not linked, and of z.               *)
Aside(s, r, L, z) ==
  \A e \in Sides : \A n \in (Ref \ L) \cup {z} : r.child[e][n] = s.child[e][n]

(* relink_successor is transplant of y by x, with y for z in what results. *)
LEMMA RelinkEffect ==
  ASSUME NEW s, NEW L, NEW U, NEW z, NEW y, Relinking(s, L, U, z, y)
  PROVE  LET x == s.child["right"][y]
             q == transplant(s, y, x)
             r == relink_successor(s, z, y)
         IN  /\ Transplanted(s, q, L, y, x)
             /\ Renamed(q, r, L \ {y}, z, y, x)
             /\ Aside(s, r, L, z)
<1> USE TwoSides, NilIsNoNode
<1>1. PICK x, right, left : /\ x = s.child["right"][y]
                            /\ right = s.child["right"][z]
                            /\ left = s.child["left"][z]
  OBVIOUS
<1>2. /\ y \in L /\ y # z /\ y # nil /\ z # nil
      /\ left \in L /\ right \in L /\ left # right /\ left # nil /\ right # nil
      /\ left # z /\ right # z /\ left # y
      /\ s.parent[left] = z /\ s.parent[right] = z
      /\ y # s.root /\ s.parent[y] \in L /\ s.parent[y] # y
      /\ s.parent[y] = z => right = y
      /\ right = y => s.parent[y] = z
      /\ x \in L \cup {nil} /\ x # z /\ x # y /\ x # left /\ x # right
      /\ x # nil => s.parent[x] = y /\ x # s.root
      /\ s.parent[z] # y
  BY <1>1, AroundSuccessor
<1>3. /\ Links(s, L) /\ Under(s, L, U) /\ z \in L /\ s \in Tree /\ L \subseteq Node
      /\ nil \notin L /\ s.child["left"][y] = nil
  BY DEF Relinking, Links
<1>4. /\ x \in Ref /\ y \in Ref /\ z \in Ref /\ left \in Ref /\ right \in Ref
      /\ s.parent[z] \in Ref
  BY <1>2, <1>3 DEF Tree
<1>5. PICK q : q = transplant(s, y, x)
  OBVIOUS
<1>6. Transplanted(s, q, L, y, x)
  <2>1. Placed(s, L, y)
    BY <1>2, <1>3, LinkedIsPlaced
  <2> QED BY <1>2, <1>3, <1>4, <1>5, <2>1, TransplantEffect
<1>7. /\ q \in Tree /\ q.root = s.root /\ q.color = s.color /\ q.key = s.key
      /\ \A n \in Ref : q.parent[n] = IF n = x THEN s.parent[y] ELSE s.parent[n]
      /\ \A e \in Sides : \A n \in L :
           q.child[e][n] = IF s.child[e][n] = y THEN x ELSE s.child[e][n]
      /\ \A e \in Sides : \A n \in Ref \ L : q.child[e][n] = s.child[e][n]
  BY <1>2, <1>6 DEF Transplanted
<1>8. PICK s1 : s1 = IF s.parent[y] = z THEN set_parent(s, x, y)
                     ELSE set_parent(set_child(q, "right", y, right), right, y)
  OBVIOUS
<1>9. /\ s1 \in Tree /\ s1.root = s.root /\ s1.color = s.color /\ s1.key = s.key
      /\ \A n \in Ref : s1.parent[n] = IF n = x /\ s.parent[y] = z THEN y
                                       ELSE IF n = x THEN s.parent[y]
                                       ELSE IF n = right /\ s.parent[y] # z THEN y
                                       ELSE s.parent[n]
      /\ \A e \in Sides : \A n \in L :
           s1.child[e][n] = IF s.parent[y] = z THEN s.child[e][n]
                            ELSE IF n = y /\ e = "right" THEN right
                            ELSE q.child[e][n]
      /\ \A e \in Sides : \A n \in Ref \ L : s1.child[e][n] = s.child[e][n]
  <2>1. CASE s.parent[y] = z
    <3>1. s1 = set_parent(s, x, y)
      BY <1>8, <2>1
    <3>2. ParentSet(s, set_parent(s, x, y), x, y)
      BY <1>3, <1>4, SetParent
    <3>3. ParentSet(s, s1, x, y)
      BY <3>1, <3>2
    <3> QED BY <1>2, <2>1, <3>3 DEF ParentSet
  <2>2. CASE s.parent[y] # z
    <3>1. PICK a : a = set_child(q, "right", y, right)
      OBVIOUS
    <3>2. ChildSet(q, set_child(q, "right", y, right), "right", y, right)
      BY <1>4, <1>7, SetChild
    <3>3. ChildSet(q, a, "right", y, right)
      BY <3>1, <3>2
    <3>4. a \in Tree
      BY <3>3 DEF ChildSet
    <3>5. ParentSet(a, set_parent(a, right, y), right, y)
      BY <1>4, <3>4, SetParent
    <3>6. ParentSet(a, s1, right, y)
      BY <1>8, <2>2, <3>1, <3>5
    <3>7. /\ s1 \in Tree /\ s1.root = s.root /\ s1.color = s.color /\ s1.key = s.key
          /\ \A n \in Ref : s1.parent[n] = IF n = right THEN y ELSE q.parent[n]
          /\ \A e \in Sides : \A n \in Ref :
               s1.child[e][n] = IF e = "right" /\ n = y THEN right ELSE q.child[e][n]
      BY <1>7, <3>3, <3>6 DEF ChildSet, ParentSet
    <3>8. \A e \in Sides : \A n \in Ref \ L : s1.child[e][n] = s.child[e][n]
      BY <1>2, <1>7, <3>7
    <3>9. \A e \in Sides : \A n \in L :
            s1.child[e][n] = IF n = y /\ e = "right" THEN right ELSE q.child[e][n]
      BY <1>3, <3>7
    <3>10. \A n \in Ref : s1.parent[n] = IF n = x THEN s.parent[y]
                                         ELSE IF n = right THEN y ELSE s.parent[n]
      BY <1>2, <1>7, <3>7
    <3> QED BY <2>2, <3>7, <3>8, <3>9, <3>10
  <2> QED BY <2>1, <2>2
<1>10. \A e \in Sides : \A n \in L : s1.child[e][n] = z <=> s.child[e][n] = z
  <2>1. s.child["right"][y] # z
    BY <1>1, <1>2
  <2> QED BY <1>2, <1>7, <1>9, <2>1
<1>11. s1.parent[z] = s.parent[z]
  BY <1>2, <1>4, <1>9
<1>12. Placed(s1, L, z)
  <2>1. Placed(s, L, z)
    BY <1>3, LinkedIsPlaced
  <2> QED BY <1>9, <1>10, <1>11, <2>1 DEF Placed
<1>13. PICK s2 : s2 = transplant(s1, z, y)
  OBVIOUS
<1>14. Transplanted(s1, s2, L, z, y)
  BY <1>3, <1>4, <1>9, <1>12, <1>13, TransplantEffect
<1>15. /\ s2 \in Tree /\ s2.color = s.color /\ s2.key = s.key
       /\ s2.root = IF s.root = z THEN y ELSE s.root
       /\ \A n \in Ref : s2.parent[n] = IF n = y THEN s.parent[z] ELSE s1.parent[n]
       /\ \A e \in Sides : \A n \in L :
            s2.child[e][n] = IF s.child[e][n] = z THEN y ELSE s1.child[e][n]
       /\ \A e \in Sides : \A n \in Ref \ L : s2.child[e][n] = s.child[e][n]
  BY <1>9, <1>10, <1>11, <1>14 DEF Transplanted
<1>16. s2.child["left"][z] = left
  <2>1. s1.child["left"][z] = left
    BY <1>1, <1>2, <1>3, <1>7, <1>9
  <2> QED BY <1>1, <1>2, <1>3, <1>15, <2>1
<1>17. PICK b : b = set_child(s2, "left", y, left)
  OBVIOUS
<1>18. ChildSet(s2, b, "left", y, left) /\ b \in Tree
  <2>1. ChildSet(s2, set_child(s2, "left", y, left), "left", y, left)
    BY <1>4, <1>15, SetChild
  <2> QED BY <1>17, <2>1 DEF ChildSet
<1>19. PICK c : c = set_parent(b, left, y)
  OBVIOUS
<1>20. ParentSet(b, c, left, y) /\ c \in Tree
  <2>1. ParentSet(b, set_parent(b, left, y), left, y)
    BY <1>4, <1>18, SetParent
  <2> QED BY <1>19, <2>1 DEF ParentSet
<1>21. PICK r : r = recolor(c, y, s2.color[z])
  OBVIOUS
<1>22. s2.color[z] = s.color[z] /\ s.color[z] \in {RED, BLACK}
  BY <1>3, <1>4, <1>15 DEF Tree
<1>23. ColorSet(c, r, y, s.color[z])
  <2>1. ColorSet(c, recolor(c, y, s.color[z]), y, s.color[z])
    BY <1>4, <1>20, <1>22, SetColor
  <2> QED BY <1>21, <1>22, <2>1
<1>24. r = relink_successor(s, z, y)
  BY <1>1, <1>5, <1>8, <1>13, <1>16, <1>17, <1>19, <1>21 DEF relink_successor
<1>25. /\ r \in Tree /\ r.key = s.key
       /\ r.root = IF s.root = z THEN y ELSE s.root
       /\ \A n \in Ref : r.color[n] = IF n = y THEN s.color[z] ELSE s.color[n]
       /\ \A n \in Ref : r.parent[n] = IF n = left THEN y ELSE s2.parent[n]
       /\ \A e \in Sides : \A n \in Ref :
            r.child[e][n] = IF e = "left" /\ n = y THEN left ELSE s2.child[e][n]
  BY <1>15, <1>18, <1>20, <1>23 DEF ChildSet, ParentSet, ColorSet
<1>26. \A e \in Sides : \A n \in (Ref \ L) \cup {z} : r.child[e][n] = s.child[e][n]
  <2>1. \A e \in Sides : \A n \in Ref \ L : r.child[e][n] = s.child[e][n]
    BY <1>2, <1>15, <1>25
  <2>2. ASSUME NEW e \in Sides PROVE r.child[e][z] = s.child[e][z]
    <3>1. s.child[e][z] # z
      BY <1>3, Children
    <3>2. s1.child[e][z] = s.child[e][z]
      <4>1. CASE s.parent[y] = z
        BY <1>3, <1>9, <4>1
      <4>2. CASE s.parent[y] # z
        <5>1. s.child[e][z] # y
          BY <1>1, <1>2, <4>2 DEF Sides
        <5> QED BY <1>2, <1>3, <1>7, <1>9, <4>2, <5>1
      <4> QED BY <4>1, <4>2
    <3> QED BY <1>2, <1>3, <1>4, <1>15, <1>25, <3>1, <3>2
  <2> QED BY <2>1, <2>2
<1>27. \A e \in Sides : \A n \in L \ {y} :
         r.child[e][Ren(z, y, n)] = Ren(z, y, q.child[e][n])
  <2>1. ASSUME NEW e \in Sides, NEW n \in L \ {y}, n # z
        PROVE  r.child[e][n] = Ren(z, y, q.child[e][n])
    <3>1. r.child[e][n] = IF s.child[e][n] = z THEN y ELSE s1.child[e][n]
      BY <1>3, <1>15, <1>25, <2>1
    <3>2. s1.child[e][n] = q.child[e][n]
      <4>1. CASE s.parent[y] = z
        <5>1. s.child[e][n] # y
          BY <1>2, <1>3, <2>1, <4>1 DEF Links
        <5> QED BY <1>7, <1>9, <4>1, <5>1
      <4>2. CASE s.parent[y] # z
        BY <1>9, <4>2
      <4> QED BY <4>1, <4>2
    <3>3. q.child[e][n] = z <=> s.child[e][n] = z
      BY <1>2, <1>7
    <3> QED BY <3>1, <3>2, <3>3 DEF Ren
  <2>2. r.child["left"][y] = left /\ q.child["left"][z] = left
    BY <1>1, <1>2, <1>3, <1>4, <1>7, <1>25
  <2>3. r.child["right"][y] = q.child["right"][z] /\ q.child["right"][z] # z
    <3>1. r.child["right"][y] = s1.child["right"][y]
      <4>1. s.child["right"][y] # z
        BY <1>1, <1>2
      <4>2. s2.child["right"][y] = s1.child["right"][y]
        BY <1>2, <1>15, <4>1
      <4> QED BY <1>4, <1>25, <4>2
    <3>2. CASE s.parent[y] = z
      <4>1. s1.child["right"][y] = x
        BY <1>1, <1>2, <1>9, <3>2
      <4>2. q.child["right"][z] = x
        BY <1>1, <1>2, <1>3, <1>7, <3>2
      <4> QED BY <1>2, <3>1, <4>1, <4>2
    <3>3. CASE s.parent[y] # z
      <4>1. s1.child["right"][y] = right
        BY <1>2, <1>9, <3>3
      <4>2. q.child["right"][z] = right
        BY <1>1, <1>2, <1>3, <1>7, <3>3
      <4> QED BY <1>2, <3>1, <4>1, <4>2
    <3> QED BY <3>2, <3>3
  <2>4. ASSUME NEW e \in Sides, NEW n \in L \ {y}
        PROVE  r.child[e][Ren(z, y, n)] = Ren(z, y, q.child[e][n])
    <3>1. CASE n # z
      <4>1. Ren(z, y, n) = n
        BY <3>1 DEF Ren
      <4> QED BY <2>1, <3>1, <4>1
    <3>2. CASE n = z
      <4>1. Ren(z, y, n) = y
        BY <3>2 DEF Ren
      <4>2. CASE e = "left"
        BY <1>2, <2>2, <3>2, <4>1, <4>2 DEF Ren
      <4>3. CASE e = "right"
        BY <2>3, <3>2, <4>1, <4>3 DEF Ren
      <4> QED BY <4>2, <4>3 DEF Sides
    <3> QED BY <3>1, <3>2
  <2> QED BY <2>4
<1>28. \A n \in (L \ {y}) \cup {x} : r.parent[Ren(z, y, n)] = Ren(z, y, q.parent[n])
  <2>1. ASSUME NEW n \in (L \ {y}) \cup {x} PROVE r.parent[Ren(z, y, n)] = Ren(z, y, q.parent[n])
    <3>1. n \in Ref /\ n # y
      BY <1>2, <1>3, <1>4
    <3>2. CASE n = z
      <4>1. r.parent[y] = s.parent[z]
        BY <1>2, <1>4, <1>15, <1>25
      <4>2. q.parent[z] = s.parent[z]
        BY <1>2, <1>4, <1>7
      <4>3. s.parent[z] # z
        <5>1. z # s.root => \E e \in Sides : s.child[e][s.parent[z]] = z
          BY <1>3, ParentOf
        <5>2. z = s.root => s.parent[z] = nil
          BY <1>3, ParentOf
        <5> QED BY <1>2, <1>3, <5>1, <5>2, Children
      <4> QED BY <3>2, <4>1, <4>2, <4>3 DEF Ren
    <3>3. CASE n = left
      BY <1>2, <1>4, <1>7, <1>25, <3>3 DEF Ren
    <3>4. CASE n = x
      <4>1. r.parent[x] = s1.parent[x] /\ q.parent[x] = s.parent[y]
        BY <1>2, <1>4, <1>7, <1>15, <1>25
      <4>2. s1.parent[x] = IF s.parent[y] = z THEN y ELSE s.parent[y]
        BY <1>4, <1>9
      <4> QED BY <1>2, <3>4, <4>1, <4>2 DEF Ren
    <3>5. CASE n = right
      <4>1. s.parent[y] # z
        BY <1>2, <3>1, <3>5
      <4>2. r.parent[right] = y /\ q.parent[right] = z
        BY <1>2, <1>4, <1>7, <1>9, <1>15, <1>25, <3>1, <3>5, <4>1
      <4> QED BY <1>2, <3>5, <4>2 DEF Ren
    <3>6. CASE n \notin {z, left, x, right}
      <4>1. r.parent[n] = s.parent[n] /\ q.parent[n] = s.parent[n]
        BY <1>2, <1>7, <1>9, <1>15, <1>25, <3>1, <3>6
      <4>2. s.parent[n] # z
        <5>1. n \in L
          BY <2>1, <3>6
        <5>2. n # s.root => \E e \in Sides : s.child[e][s.parent[n]] = n
          BY <1>3, <5>1, ParentOf
        <5>3. n = s.root => s.parent[n] = nil
          BY <1>3, <5>1, ParentOf
        <5> QED BY <1>1, <1>2, <3>6, <5>2, <5>3 DEF Sides
      <4> QED BY <3>6, <4>1, <4>2 DEF Ren
    <3> QED BY <3>2, <3>3, <3>4, <3>5, <3>6
  <2> QED BY <2>1
<1>29. \A n \in (L \ {y}) \cup {nil} : r.color[Ren(z, y, n)] = q.color[n]
  BY <1>2, <1>3, <1>4, <1>7, <1>25 DEF Ren
<1>30. \A e \in Sides : r.child[e][nil] = nil
  <2>1. \A e \in Sides : s.child[e][nil] = nil
    BY <1>3 DEF Links
  <2> QED BY <1>3, <1>26, <2>1
<1>31. Renamed(q, r, L \ {y}, z, y, x)
  <2>1. r.root = Ren(z, y, q.root)
    BY <1>7, <1>25 DEF Ren
  <2>2. z \in L \ {y} /\ y \in Node \ (L \ {y}) /\ x \in (L \ {y}) \cup {nil}
    BY <1>2, <1>3
  <2> QED BY <1>7, <1>25, <1>27, <1>28, <1>29, <1>30, <2>1, <2>2 DEF Renamed
<1> QED BY <1>1, <1>5, <1>6, <1>24, <1>26, <1>31 DEF Aside

(* No key under the right child of z is smaller than that of y, but for    *)
(* those under y.                                                          *)
Lower(s, U, z, y) ==
  \A m \in U[s.child["right"][z]] \ U[y] : s.key[y] <= s.key[m]

(* Then y fits in the place of z.                                          *)
LEMMA SuccessorFits ==
  ASSUME NEW s, NEW L, NEW U, NEW z, NEW y, Relinking(s, L, U, z, y),
         Ordered(s, L, U), Lower(s, U, z, y),
         NEW q, Transplanted(s, q, L, y, s.child["right"][y])
  PROVE  Substitutes(q, L \ {y}, Without(U, y), z, y)
<1> USE TwoSides, NilIsNoNode
<1>1. PICK x, right, left : /\ x = s.child["right"][y]
                            /\ right = s.child["right"][z]
                            /\ left = s.child["left"][z]
  OBVIOUS
<1>2. /\ y \in L /\ y # z /\ left \in L /\ right \in L /\ left # y
      /\ x \in L \cup {nil}
  BY <1>1, AroundSuccessor
<1>3. /\ Links(s, L) /\ Under(s, L, U) /\ z \in L /\ L \subseteq Ref /\ s \in Tree
      /\ y \in U[right] /\ s.child["left"][y] = nil
  BY <1>1 DEF Relinking, Links
<1>4. /\ q.key = s.key
      /\ \A e \in Sides : \A n \in L :
           q.child[e][n] = IF s.child[e][n] = y THEN x ELSE s.child[e][n]
  BY <1>1 DEF Transplanted
<1>5. \A e \in Sides : \A n \in L : \A m \in U[s.child[e][n]] : Before(e, s.key[m], s.key[n])
  BY DEF Ordered
<1>6. \A n \in Ref : Without(U, y)[n] = U[n] \ {y}
  BY DEF Without
<1>7. \A n \in L : s.key[n] \in Int
  BY <1>3, KeysAreIntegers
<1>8. /\ U[y] = {y} \cup U[x] /\ U[nil] = {}
      /\ \A n \in Ref : U[n] \subseteq L
      /\ z \notin U[right] /\ U[right] \subseteq U[z]
  BY <1>1, <1>2, <1>3 DEF Under
<1>9. U[y] \subseteq U[right] /\ U[x] \subseteq U[right]
  <2>1. U[y] \subseteq U[right]
    BY <1>2, <1>3, UnderIsClosed
  <2> QED BY <1>8, <2>1
<1>10. ASSUME NEW e \in Sides, NEW n \in L \ {y}, z \in Without(U, y)[q.child[e][n]]
       PROVE  Before(e, q.key[y], q.key[n])
  <2> DEFINE c == s.child[e][n]
  <2>1. c \in L \cup {nil} /\ c \in Ref
    BY <1>3 DEF Links
  <2>2. c # y
    <3>1. CASE c = y
      <4>1. q.child[e][n] = x /\ x \in Ref
        BY <1>2, <1>3, <1>4, <3>1
      <4>2. z \in U[x]
        BY <1>6, <1>10, <4>1
      <4> QED BY <1>8, <1>9, <4>2
    <3> QED BY <3>1
  <2>3. z \in U[c]
    BY <1>4, <1>6, <1>10, <2>1, <2>2
  <2>4. c \in L
    BY <1>8, <2>1, <2>3
  <2>5. U[z] \subseteq U[c]
    BY <1>3, <2>3, <2>4, UnderIsClosed
  <2>6. y \in U[c]
    BY <1>3, <1>8, <2>5
  <2> QED BY <1>4, <1>5, <2>6
<1>11. ASSUME NEW e \in Sides, NEW m \in Without(U, y)[q.child[e][z]]
       PROVE  Before(e, q.key[m], q.key[y])
  <2>1. CASE e = "left"
    <3>1. q.child[e][z] = left /\ left \in Ref
      BY <1>1, <1>2, <1>3, <1>4, <2>1
    <3>2. m \in U[left]
      BY <1>6, <3>1
    <3>3. Before("left", s.key[m], s.key[z])
      BY <1>1, <1>3, <1>5, <3>2
    <3>4. Before("right", s.key[y], s.key[z])
      BY <1>1, <1>3, <1>5
    <3>5. m \in L
      BY <1>2, <1>3, <1>8, <3>2
    <3>6. s.key[m] \in Int /\ s.key[z] \in Int /\ s.key[y] \in Int
      BY <1>2, <1>3, <1>7, <3>5
    <3> QED BY <1>4, <2>1, <3>3, <3>4, <3>6 DEF Before
  <2>2. CASE e = "right"
    <3>1. m \in U[right] /\ m # y
      <4>1. q.child[e][z] = IF right = y THEN x ELSE right
        BY <1>1, <1>3, <1>4, <2>2
      <4>2. x \in Ref /\ right \in Ref
        BY <1>2, <1>3
      <4>3. m \in U[q.child[e][z]] /\ m # y
        BY <1>6, <4>1, <4>2
      <4> QED BY <1>9, <4>1, <4>3
    <3>2. CASE m \in U[y]
      <4>1. m \in U[x]
        BY <1>8, <3>1, <3>2
      <4> QED BY <1>1, <1>2, <1>4, <1>5, <2>2, <4>1
    <3>3. CASE m \notin U[y]
      <4>1. s.key[y] <= s.key[m]
        BY <1>1, <3>1, <3>3 DEF Lower
      <4> QED BY <1>4, <2>2, <4>1 DEF Before
    <3> QED BY <3>2, <3>3
  <2> QED BY <2>1, <2>2 DEF Sides
<1> QED BY <1>3, <1>10, <1>11 DEF Substitutes

(* What the tree is after a node left it, and x took its place.            *)
Unlinked(r, L, x, color) ==
  IF color = BLACK THEN Gapped(r, L, x) ELSE Fits(r, L, NoGap, nil, nil)

(* A node with a missing child leaves.                                     *)
LEMMA NearUnlinked ==
  ASSUME NEW s, NEW L, Fits(s, L, NoGap, nil, nil),
         NEW z, NEW d, NEW x, NEW r, Bypassed(s, r, L, z, d, x)
  PROVE  Unlinked(r, L \ {z}, x, s.color[z])
<1>1. PICK U, B : Shape(s, L, U) /\ Heights(s, L, B, NoGap) /\ Reds(s, L, nil, nil)
  BY DEF Fits
<1>2. /\ Shape(r, L \ {z}, Without(U, z))
      /\ x # z /\ x \in (L \ {z}) \cup {nil}
      /\ x = r.root <=> z = s.root
  BY <1>1, BypassShape
<1>3. PICK gap \in Gap : /\ Left(r, L \ {z}, x, s.color[z], gap)
                         /\ Heights(r, L \ {z}, B, gap)
                         /\ Reds(r, L \ {z}, nil, IF s.color[z] = BLACK THEN x ELSE nil)
  BY <1>1, BypassColors
<1>4. Fits(r, L \ {z}, gap, nil, IF s.color[z] = BLACK THEN x ELSE nil)
  BY <1>2, <1>3 DEF Fits
<1>5. CASE s.color[z] = BLACK
  BY <1>2, <1>3, <1>4, <1>5 DEF Unlinked, Gapped, Left
<1>6. CASE s.color[z] # BLACK
  BY <1>3, <1>4, <1>6 DEF Unlinked, Left
<1> QED BY <1>5, <1>6

(* A node with two children leaves, and its successor takes its place.     *)
LEMMA FarUnlinked ==
  ASSUME NEW s, NEW L, NEW U, NEW B,
         Shape(s, L, U), Heights(s, L, B, NoGap), Reds(s, L, nil, nil),
         NEW z, NEW y, Relinking(s, L, U, z, y), Lower(s, U, z, y)
  PROVE  Unlinked(relink_successor(s, z, y), L \ {z}, s.child["right"][y], s.color[y])
<1> USE TwoSides, TwoColors, NilIsNoNode
<1>1. PICK x : x = s.child["right"][y]
  OBVIOUS
<1>2. PICK q : q = transplant(s, y, x)
  OBVIOUS
<1>3. PICK r : r = relink_successor(s, z, y)
  OBVIOUS
<1>4. PICK M : M = L \ {y}
  OBVIOUS
<1>5. Transplanted(s, q, L, y, x) /\ Renamed(q, r, M, z, y, x)
  BY <1>1, <1>2, <1>3, <1>4, RelinkEffect
<1>6. y \in L /\ y # z /\ y # nil /\ y # s.root /\ x # z /\ x # y
  BY <1>1, AroundSuccessor
<1>7. Bypassed(s, q, L, y, "left", x)
  BY <1>1, <1>5, <1>6 DEF Bypassed, Relinking
<1>8. PICK V : V = Without(U, y)
  OBVIOUS
<1>9. /\ Shape(q, M, V)
      /\ x \in M \cup {nil}
      /\ x # q.root
  <2>1. /\ Shape(q, L \ {y}, Without(U, y))
        /\ x # y /\ x \in (L \ {y}) \cup {nil}
        /\ x = q.root <=> y = s.root
    BY <1>7, BypassShape
  <2> QED BY <1>4, <1>6, <1>8, <2>1
<1>10. PICK mid : mid = IF s.color[y] = BLACK THEN x ELSE nil
  OBVIOUS
<1>11. PICK gap \in Gap : /\ Left(q, M, x, s.color[y], gap)
                          /\ Heights(q, M, B, gap)
                          /\ Reds(q, M, nil, mid)
  BY <1>4, <1>7, <1>10, BypassColors
<1>12. Links(q, M) /\ Under(q, M, V) /\ Ordered(q, M, V)
  BY <1>9 DEF Shape
<1>13. PICK N : N = NewNames(M, z, y)
  OBVIOUS
<1>14. N = L \ {z}
  BY <1>4, <1>6, <1>13 DEF NewNames
<1>15. Shape(r, N, RenamedUnder(V, z, y))
  <2>1. Substitutes(q, M, V, z, y)
    <3>1. Ordered(s, L, U)
      BY DEF Shape
    <3> QED BY <1>1, <1>4, <1>5, <1>8, <3>1, SuccessorFits
  <2>2. Links(r, N)
    BY <1>5, <1>12, <1>13, RenamedLinks
  <2>3. Under(r, N, RenamedUnder(V, z, y))
    BY <1>5, <1>12, <1>13, RenamedIsUnder
  <2>4. Ordered(r, N, RenamedUnder(V, z, y))
    BY <1>5, <1>12, <1>13, <2>1, RenamedOrdered
  <2> QED BY <2>2, <2>3, <2>4 DEF Shape
<1>16. PICK gap2 : gap2 = [n |-> Ren(z, y, gap.n), d |-> gap.d]
  OBVIOUS
<1>17. gap.n \in M \cup {nil}
  <2>1. s.color[y] = BLACK => gap.n \in M
    BY <1>9, <1>11 DEF Left, GapAt
  <2>2. s.color[y] # BLACK => gap.n = nil
    BY <1>11 DEF Left, NoGap
  <2> QED BY <2>1, <2>2
<1>18. PICK C : Heights(r, N, C, gap2)
  <2>1. \E C : Heights(r, NewNames(M, z, y), C, [n |-> Ren(z, y, gap.n), d |-> gap.d])
    BY <1>5, <1>11, <1>12, <1>17, RenamedHeights
  <2> QED BY <1>13, <1>16, <2>1
<1>19. mid \in {x, nil} /\ mid # z
  <2>1. z # nil
    BY DEF Relinking, Links
  <2> QED BY <1>6, <1>10, <2>1
<1>20. Reds(r, N, nil, mid)
  BY <1>5, <1>11, <1>12, <1>13, <1>19, RenamedReds
<1>21. Fits(r, N, gap2, nil, mid)
  BY <1>15, <1>18, <1>20 DEF Fits
<1>22. /\ \A n \in M : Ren(z, y, n) \in N
       /\ Ren(z, y, nil) = nil
       /\ N \subseteq Ref
  <2>1. /\ \A n \in M : Ren(z, y, n) \in NewNames(M, z, y)
        /\ Ren(z, y, nil) = nil
    BY <1>5, <1>12, Names
  <2>2. L \subseteq Ref
    BY DEF Relinking, Links
  <2> QED BY <1>13, <1>14, <2>1, <2>2
<1>23. gap2.n = Ren(z, y, gap.n) /\ gap2.d = gap.d /\ gap.d \in Sides
  BY <1>16 DEF Gap
<1>24. CASE s.color[y] = BLACK
  <2>1. /\ gap.n = q.parent[x] /\ gap.n \in M /\ q.child[gap.d][gap.n] = x
    BY <1>9, <1>11, <1>24 DEF Left, GapAt
  <2>2. /\ r.parent[Ren(z, y, x)] = Ren(z, y, q.parent[x])
        /\ r.child[gap.d][Ren(z, y, gap.n)] = Ren(z, y, q.child[gap.d][gap.n])
        /\ r.root = Ren(z, y, q.root)
    BY <1>5, <1>23, <2>1 DEF Renamed
  <2>3. Ren(z, y, x) = x
    BY <1>6 DEF Ren
  <2>4. gap2.n = r.parent[x] /\ gap2.n \in N /\ r.child[gap2.d][gap2.n] = x
    BY <1>22, <1>23, <2>1, <2>2, <2>3
  <2>5. x # r.root
    BY <1>6, <1>9, <2>2 DEF Ren
  <2>6. gap2 \in Gap
    BY <1>16, <1>22, <1>23, <2>4 DEF Gap
  <2>7. GapAt(r, N, x, gap2)
    BY <1>23, <2>4, <2>5 DEF GapAt
  <2>8. x \in N \cup {nil}
    BY <1>4, <1>6, <1>9, <1>14
  <2>9. Gapped(r, N, x)
    BY <1>10, <1>21, <1>24, <2>6, <2>7, <2>8 DEF Gapped
  <2> QED BY <1>1, <1>3, <1>14, <1>24, <2>9 DEF Unlinked
<1>25. CASE s.color[y] # BLACK
  <2>1. gap = NoGap
    BY <1>11, <1>25 DEF Left
  <2>2. gap2 = NoGap
    BY <1>16, <1>22, <2>1 DEF NoGap
  <2> QED BY <1>1, <1>3, <1>10, <1>14, <1>21, <1>25, <2>2 DEF Unlinked
<1> QED BY <1>24, <1>25

----------------------------------------------------------------------------
(* Steps that leave the tree alone *)

(* The operation tells what a call in progress holds.                      *)
LEMMA Calls ==
  ASSUME CallOK
  PROVE  /\ call.op = "none" => call = Idle
         /\ call.op = "descend" =>
              call \in [op : {"descend"}, z : live, y : Linked \cup {nil}, x : Linked \cup {nil}]
         /\ call.op = "insert_fix" => call \in [op : {"insert_fix"}, new : live, z : live]
         /\ call.op = "successor" => call \in [op : {"successor"}, z : live, y : live]
         /\ call.op = "erase_fix" =>
              call \in [op : {"erase_fix"}, z : live, x : Linked \cup {nil}]
         /\ call.op = "find" => call \in [op : {"find"}, key : Key, x : live \cup {nil}]
         /\ call.op \in {"min", "max"} => call \in [op : {"min", "max"}, x : live \cup {nil}]
         /\ call.op \in {"none", "descend", "insert_fix", "successor", "erase_fix",
                         "find", "min", "max"}
<1> HIDE DEF Linked
<1> QED BY DEF CallOK, Idle

(* No rebuild is under way.                                                *)
Steady == call.op \notin {"insert_fix", "erase_fix"}

(* Then only a node that is not yet attached is not linked.                *)
LEMMA SteadyTree ==
  ASSUME NEW U, NEW B, NEW gap, IInvAt(U, B, gap), Steady
  PROVE  /\ CallOK /\ live \subseteq Node /\ IsFiniteSet(live)
         /\ Shape(t, Linked, U)
         /\ Links(t, Linked) /\ Under(t, Linked, U) /\ Ordered(t, Linked, U)
         /\ gap = NoGap
         /\ Heights(t, Linked, B, NoGap)
         /\ Reds(t, Linked, nil, nil)
         /\ \A d \in Sides : \A n \in Ref \ Linked : t.child[d][n] = nil
         /\ CallInv(U, NoGap)
         /\ call.op # "descend" => Linked = live
         /\ \A n \in live : t.key[n] \in Key
         /\ t \in Tree /\ Linked \subseteq Ref /\ nil \notin Linked
<1> USE NilIsNoNode
<1>1. gap = NoGap
  BY DEF IInvAt, CallInv, Steady
<1>2. Skip = nil /\ Mid = nil
  BY DEF Skip, Mid, Steady
<1>3. \A d \in Sides : \A n \in Ref \ Linked : t.child[d][n] = nil
  BY DEF IInvAt, Strays, Steady
<1>4. call.op # "descend" => Linked = live
  BY DEF Linked, Detached, Steady
<1>5. /\ CallOK /\ live \subseteq Node /\ IsFiniteSet(live)
      /\ Shape(t, Linked, U)
      /\ Heights(t, Linked, B, gap)
      /\ Reds(t, Linked, Skip, Mid)
      /\ CallInv(U, gap)
      /\ \A n \in live : t.key[n] \in Key
  BY DEF IInvAt
<1>6. Links(t, Linked) /\ Under(t, Linked, U) /\ Ordered(t, Linked, U)
  BY <1>5 DEF Shape
<1>7. t \in Tree /\ Linked \subseteq Ref /\ nil \notin Linked
  BY <1>6 DEF Links
<1> HIDE DEF Linked, Ref
<1> QED BY <1>1, <1>2, <1>3, <1>4, <1>5, <1>6, <1>7

(* The tree stays as it is, only the call moves on.                        *)
LEMMA CallMoves ==
  ASSUME NEW U, NEW B, NEW gap, IInvAt(U, B, gap), Steady,
         UNCHANGED <<t, live>>, Linked' = Linked, Steady',
         CallOK', CallInv(U, NoGap)', ret' = ret \/ ret'.op # "new"
  PROVE  IInv'
<1>1. /\ live \subseteq Node /\ IsFiniteSet(live)
      /\ Shape(t, Linked, U)
      /\ gap = NoGap /\ gap \in Gap
      /\ Heights(t, Linked, B, NoGap)
      /\ Reds(t, Linked, nil, nil)
      /\ \A d \in Sides : \A n \in Ref \ Linked : t.child[d][n] = nil
      /\ \A n \in live : t.key[n] \in Key
  BY SteadyTree DEF IInvAt
<1>2. Skip' = nil /\ Mid' = nil
  BY DEF Skip, Mid, Steady
<1>3. DeleteFreesAll'
  BY DEF DeleteFreesAll, IInvAt
<1>4. Strays'
  BY <1>1 DEF Strays, Steady
<1>5. Shape(t, Linked, U)' /\ Heights(t, Linked, B, NoGap)' /\ Reds(t, Linked, Skip, Mid)'
  BY <1>1, <1>2
<1>6. IInvAt(U, B, NoGap)'
  BY <1>1, <1>3, <1>4, <1>5 DEF IInvAt
<1> QED BY <1>6 DEF IInv

(* With no call in progress the invariant asks nothing of the call.        *)
LEMMA BecomesIdle ==
  ASSUME call' = Idle, NEW U
  PROVE  Steady' /\ CallOK' /\ CallInv(U, NoGap)' /\ Linked' = live'
  BY DEF Idle, Steady, CallOK, CallInv, Linked, Detached

(* An erase of no node, and the end of a walk.                             *)
LEMMA CallEnds ==
  ASSUME NEW U, NEW B, NEW gap, IInvAt(U, B, gap), Steady, call.op # "descend",
         UNCHANGED <<t, live>>, call' = Idle, ret'.op # "new"
  PROVE  IInv'
<1>1. Linked = live
  BY SteadyTree
<1>2. Steady' /\ CallOK' /\ CallInv(U, NoGap)' /\ Linked' = live'
  BY BecomesIdle
<1> QED BY <1>1, <1>2, CallMoves

(* A walk begins at the root.                                              *)
LEMMA WalkBegins ==
  ASSUME IInv, \/ \E k \in Key : BeginFind(k)
               \/ \E op \in DOMAIN EndOf : BeginWalk(op)
  PROVE  IInv'
<1>1. PICK U, B, gap : IInvAt(U, B, gap)
  BY DEF IInv
<1>2. call = Idle /\ UNCHANGED <<t, live>> /\ ret' = Pending
  BY DEF BeginFind, BeginWalk
<1>3. Steady /\ call.op = "none"
  BY <1>2 DEF Steady, Idle
<1>4. /\ Linked = live /\ Links(t, Linked) /\ Under(t, Linked, U)
  BY <1>1, <1>3, SteadyTree
<1>5. t.root \in live \cup {nil} /\ U[t.root] = live
  BY <1>4 DEF Links, Under
<1>6. ASSUME NEW k \in Key, BeginFind(k) PROVE IInv'
  <2>1. call' = [op |-> "find", key |-> k, x |-> t.root]
    BY <1>6 DEF BeginFind
  <2>2. Steady' /\ Linked' = Linked
    BY <1>2, <1>4, <2>1 DEF Steady, Linked, Detached
  <2>3. CallOK'
    BY <1>2, <1>5, <2>1 DEF CallOK
  <2>4. CallInv(U, NoGap)'
    BY <1>2, <1>5, <2>1 DEF CallInv, Finding
  <2> QED BY <1>1, <1>2, <1>3, <2>2, <2>3, <2>4, CallMoves DEF Pending
<1>7. ASSUME NEW op \in DOMAIN EndOf, BeginWalk(op) PROVE IInv'
  <2>1. call' = [op |-> op, x |-> t.root] /\ op \in {"min", "max"}
    BY <1>7 DEF BeginWalk, EndOf
  <2>2. Steady' /\ Linked' = Linked
    BY <1>2, <1>4, <2>1 DEF Steady, Linked, Detached
  <2>3. CallOK'
    BY <1>2, <1>5, <2>1 DEF CallOK
  <2>4. CallInv(U, NoGap)'
    <3>1. t.root = nil => live = {}
      BY <1>4, <1>5 DEF Under
    <3> QED BY <1>2, <1>5, <2>1, <3>1 DEF CallInv, ToEnd
  <2> QED BY <1>1, <1>2, <1>3, <2>2, <2>3, <2>4, CallMoves DEF Pending
<1> QED BY <1>6, <1>7

(* rbtree_find goes down towards its key.                                  *)
LEMMA FindGoesOn == ASSUME IInv, FindStep PROVE IInv'
<1> USE TwoSides, NilIsNoNode
<1>1. PICK U, B, gap : IInvAt(U, B, gap)
  BY DEF IInv
<1>2. /\ call.op = "find" /\ call.x # nil /\ call.key # t.key[call.x]
      /\ UNCHANGED <<t, live, ret>>
  BY DEF FindStep
<1>3. PICK x, k : x = call.x /\ k = call.key
  OBVIOUS
<1>4. Steady /\ Linked = live
  BY <1>1, <1>2, SteadyTree DEF Steady
<1>5. /\ Links(t, live) /\ Under(t, live, U) /\ Ordered(t, live, U) /\ t \in Tree
      /\ CallOK /\ CallInv(U, NoGap) /\ live \subseteq Ref
  BY <1>1, <1>4, SteadyTree
<1>6. call \in [op : {"find"}, key : Key, x : live \cup {nil}]
  BY <1>2, <1>5, Calls
<1>7. x \in live /\ k \in Key /\ k \in Int /\ x \in Ref
  BY <1>2, <1>3, <1>5, <1>6, KeyAssumption
<1>8. PICK d \in Sides : /\ call' = [call EXCEPT !.x = t.child[d][x]]
                         /\ d = IF k < t.key[x] THEN "left" ELSE "right"
  BY <1>3 DEF FindStep
<1>9. PICK c : c = t.child[d][x]
  OBVIOUS
<1>10. c \in live \cup {nil} /\ call' = [op |-> "find", key |-> k, x |-> c]
  BY <1>3, <1>5, <1>6, <1>7, <1>8, <1>9 DEF Links
<1>11. Steady' /\ Linked' = Linked
  BY <1>2, <1>4, <1>10 DEF Steady, Linked, Detached
<1>12. CallOK'
  BY <1>2, <1>7, <1>10 DEF CallOK
<1>13. ASSUME NEW m \in live, t.key[m] = k PROVE m \in U[c]
  <2>1. m \in U[x]
    BY <1>2, <1>3, <1>5, <1>13 DEF CallInv, Finding
  <2>2. m # x
    BY <1>2, <1>3, <1>13
  <2>3. U[x] = {x} \cup U[t.child[d][x]] \cup U[t.child[Other(d)][x]]
    BY <1>5, <1>7 DEF Under
  <2>4. ASSUME m \in U[t.child[Other(d)][x]] PROVE FALSE
    <3>1. Before(Other(d), t.key[m], t.key[x])
      BY <1>5, <1>7, <2>4 DEF Ordered
    <3>2. t.key[x] \in Int
      BY <1>5, <1>7, KeysAreIntegers
    <3> QED BY <1>2, <1>3, <1>7, <1>8, <1>13, <3>1, <3>2 DEF Before
  <2> QED BY <1>9, <2>1, <2>2, <2>3, <2>4
<1>14. CallInv(U, NoGap)'
  BY <1>2, <1>10, <1>13 DEF CallInv, Finding
<1> QED BY <1>1, <1>2, <1>4, <1>11, <1>12, <1>14, CallMoves

(* Of the nodes in T, no key is further on side d than that of y, but for  *)
(* those under y.                                                          *)
Outer(s, U, T, d, y) ==
  /\ U[y] \subseteq T
  /\ \A m \in T \ U[y] : Before(d, s.key[y], s.key[m])

(* Whoever goes down on side d gets further on that side.                  *)
LEMMA GoesDown ==
  ASSUME NEW s, NEW L, NEW U, Links(s, L), Under(s, L, U), Ordered(s, L, U),
         NEW y \in L, NEW d \in Sides, NEW T \in SUBSET L, Outer(s, U, T, d, y),
         s.child[d][y] # nil
  PROVE  /\ s.child[d][y] \in U[y] /\ s.child[d][y] \in L
         /\ Outer(s, U, T, d, s.child[d][y])
<1> USE TwoSides, NilIsNoNode
<1> DEFINE c == s.child[d][y]
<1>0. U[y] \subseteq T /\ \A m \in T \ U[y] : Before(d, s.key[y], s.key[m])
  BY DEF Outer
<1>1. /\ c \in L /\ c \in U[c] /\ y \in U[y]
      /\ U[y] = {y} \cup U[c] \cup U[s.child[Other(d)][y]]
  BY Children DEF Under
<1>2. s \in Tree /\ L \subseteq Ref
  BY DEF Links
<1>3. Before(d, s.key[c], s.key[y])
  BY <1>1 DEF Ordered
<1>4. \A n \in L : s.key[n] \in Int
  BY <1>2, KeysAreIntegers
<1>5. ASSUME NEW m \in T \ U[c] PROVE Before(d, s.key[c], s.key[m])
  <2>1. m \in L
    OBVIOUS
  <2>2. Before(d, s.key[y], s.key[m])
    <3>1. CASE m \notin U[y]
      BY <1>0, <3>1
    <3>2. CASE m = y
      BY <1>4, <3>2, BeforeOrders
    <3>3. CASE m \in U[s.child[Other(d)][y]]
      <4>1. Before(Other(d), s.key[m], s.key[y])
        BY <3>3 DEF Ordered
      <4> QED BY <1>4, <2>1, <4>1, BeforeOrders
    <3> QED BY <1>1, <3>1, <3>2, <3>3
  <2> QED BY <1>1, <1>3, <1>4, <2>1, <2>2, BeforeOrders
<1> QED BY <1>0, <1>1, <1>5 DEF Outer

(* rbtree_min and rbtree_max go down on their side.                        *)
LEMMA WalkGoesOn == ASSUME IInv, WalkStep PROVE IInv'
<1> USE TwoSides, NilIsNoNode
<1>1. PICK U, B, gap : IInvAt(U, B, gap)
  BY DEF IInv
<1>2. /\ call.op \in {"min", "max"} /\ call.x # nil
      /\ t.child[EndOf[call.op]][call.x] # nil
      /\ UNCHANGED <<t, live, ret>>
      /\ call' = [call EXCEPT !.x = t.child[EndOf[call.op]][call.x]]
  BY DEF WalkStep, Walking, AtEnd, EndOf
<1>3. PICK x, d, op : x = call.x /\ op = call.op /\ d = EndOf[call.op]
  OBVIOUS
<1>4. d \in Sides
  BY <1>2, <1>3 DEF EndOf
<1>5. Steady /\ Linked = live
  BY <1>1, <1>2, SteadyTree DEF Steady
<1>6. /\ Links(t, live) /\ Under(t, live, U) /\ Ordered(t, live, U) /\ t \in Tree
      /\ CallOK /\ CallInv(U, NoGap) /\ live \subseteq Ref
  BY <1>1, <1>5, SteadyTree
<1>7. call \in [op : {"min", "max"}, x : live \cup {nil}]
  BY <1>2, <1>6, Calls
<1>8. x \in live
  BY <1>2, <1>3, <1>7
<1>9. PICK c : c = t.child[d][x]
  OBVIOUS
<1>10. call' = [op |-> op, x |-> c] /\ op \in {"min", "max"}
  BY <1>2, <1>3, <1>7, <1>9
<1>11. \A m \in live \ U[x] : Before(d, t.key[x], t.key[m])
  BY <1>2, <1>3, <1>6 DEF CallInv, ToEnd
<1>12. U[x] \subseteq live
  BY <1>6, <1>8 DEF Under
<1>13. c \in live /\ \A m \in live \ U[c] : Before(d, t.key[c], t.key[m])
  <2>1. Outer(t, U, live, d, x)
    BY <1>11, <1>12 DEF Outer
  <2>2. t.child[d][x] \in live /\ Outer(t, U, live, d, t.child[d][x])
    BY <1>2, <1>3, <1>4, <1>6, <1>8, <2>1, GoesDown
  <2> QED BY <1>9, <2>2 DEF Outer
<1>14. Steady' /\ Linked' = Linked
  BY <1>2, <1>5, <1>10 DEF Steady, Linked, Detached
<1>15. CallOK'
  <2>1. live' = live
    BY <1>2
  <2> QED BY <1>10, <1>13, <2>1 DEF CallOK
<1>16. CallInv(U, NoGap)'
  <2>1. c # nil /\ live' = live /\ t' = t
    BY <1>2, <1>3, <1>9
  <2> QED BY <1>3, <1>10, <1>13, <2>1 DEF CallInv, ToEnd
<1> QED BY <1>1, <1>2, <1>5, <1>14, <1>15, <1>16, CallMoves

(* rbtree_find, rbtree_min and rbtree_max return.                          *)
LEMMA WalkReturns ==
  ASSUME IInv, EndFind \/ EndWalk \/ \E p \in {NULL, nil} : EraseNothing(p)
  PROVE  IInv'
<1>1. PICK U, B, gap : IInvAt(U, B, gap)
  BY DEF IInv
<1>2. Steady /\ call.op # "descend"
  BY DEF Steady, EndFind, EndWalk, Walking, EndOf, EraseNothing, Idle
<1>3. UNCHANGED <<t, live>> /\ call' = Idle
  BY DEF EndFind, EndWalk, EraseNothing
<1>4. ret'.op # "new"
  BY DEF EndFind, EndWalk, EraseNothing, Returned, Walking, EndOf
<1> QED BY <1>1, <1>2, <1>3, <1>4, CallEnds

(* rbtree_erase looks for the successor of a node with two children.       *)
LEMMA SuccessorBegins ==
  ASSUME IInv, \E z \in Node : BeginEraseFar(z)
  PROVE  IInv'
<1> USE TwoSides, NilIsNoNode
<1>1. PICK U, B, gap : IInvAt(U, B, gap)
  BY DEF IInv
<1>2. PICK z \in Node : BeginEraseFar(z)
  OBVIOUS
<1>3. PICK y : y = t.child["right"][z]
  OBVIOUS
<1>4. /\ call = Idle /\ z \in live /\ ret' = Pending /\ UNCHANGED <<t, live>>
      /\ \A d \in Sides : t.child[d][z] # nil
      /\ call' = [op |-> "successor", z |-> z, y |-> y]
  BY <1>2, <1>3 DEF BeginEraseFar
<1>5. Steady /\ Linked = live
  BY <1>1, <1>4, SteadyTree DEF Steady, Idle
<1>6. Links(t, live) /\ Under(t, live, U)
  BY <1>1, <1>5, SteadyTree
<1>7. y \in live /\ y \in U[y]
  BY <1>3, <1>4, <1>6, Children
<1>8. Steady' /\ Linked' = Linked
  BY <1>4, <1>5 DEF Steady, Linked, Detached
<1>9. CallOK'
  BY <1>4, <1>7 DEF CallOK
<1>10. CallInv(U, NoGap)'
  BY <1>3, <1>4, <1>7 DEF CallInv, ToSuccessor
<1> QED BY <1>1, <1>4, <1>5, <1>8, <1>9, <1>10, CallMoves DEF Pending

(* subtree_min goes down.                                                  *)
LEMMA SuccessorGoesOn == ASSUME IInv, WalkToSuccessor PROVE IInv'
<1> USE TwoSides, NilIsNoNode
<1>1. PICK U, B, gap : IInvAt(U, B, gap)
  BY DEF IInv
<1>2. PICK z, y, c : z = call.z /\ y = call.y /\ c = t.child["left"][call.y]
  OBVIOUS
<1>3. /\ call.op = "successor" /\ c # nil /\ UNCHANGED <<t, live, ret>>
      /\ call' = [call EXCEPT !.y = c]
  BY <1>2 DEF WalkToSuccessor
<1>4. Steady /\ Linked = live
  BY <1>1, <1>3, SteadyTree DEF Steady
<1>5. /\ Links(t, live) /\ Under(t, live, U) /\ Ordered(t, live, U) /\ t \in Tree
      /\ CallOK /\ CallInv(U, NoGap) /\ live \subseteq Ref
  BY <1>1, <1>4, SteadyTree
<1>6. call \in [op : {"successor"}, z : live, y : live]
  BY <1>3, <1>5, Calls
<1>7. z \in live /\ y \in live /\ call' = [op |-> "successor", z |-> z, y |-> c]
  BY <1>2, <1>3, <1>6
<1>8. PICK T : T = U[t.child["right"][z]]
  OBVIOUS
<1>9. /\ \A d \in Sides : t.child[d][z] # nil
      /\ y \in T
      /\ \A m \in T \ U[y] : t.key[y] <= t.key[m]
  BY <1>2, <1>3, <1>5, <1>8 DEF CallInv, ToSuccessor
<1>10. t.child["right"][z] \in live
  BY <1>5, <1>7, <1>9 DEF Links
<1>11. T \in SUBSET live /\ U[y] \subseteq T
  <2>1. T \in SUBSET live
    BY <1>5, <1>8, <1>10 DEF Under
  <2>2. U[y] \subseteq T
    BY <1>5, <1>8, <1>9, <1>10, UnderIsClosed
  <2> QED BY <2>1, <2>2
<1>12. \A m \in T \ U[y] : Before("left", t.key[y], t.key[m])
  BY <1>9 DEF Before
<1>13. c \in U[y] /\ c \in live /\ \A m \in T \ U[c] : Before("left", t.key[c], t.key[m])
  <2>1. Outer(t, U, T, "left", y)
    BY <1>11, <1>12 DEF Outer
  <2>2. /\ t.child["left"][y] \in U[y] /\ t.child["left"][y] \in live
        /\ Outer(t, U, T, "left", t.child["left"][y])
    BY <1>2, <1>3, <1>5, <1>7, <1>11, <2>1, GoesDown
  <2> QED BY <1>2, <2>2 DEF Outer
<1>14. \A m \in T \ U[c] : t.key[c] <= t.key[m]
  BY <1>13 DEF Before
<1>15. Steady' /\ Linked' = Linked
  BY <1>3, <1>4, <1>7 DEF Steady, Linked, Detached
<1>16. CallOK'
  <2>1. live' = live
    BY <1>3
  <2> QED BY <1>7, <1>13, <2>1 DEF CallOK
<1>17. CallInv(U, NoGap)'
  BY <1>3, <1>7, <1>8, <1>9, <1>11, <1>13, <1>14 DEF CallInv, ToSuccessor
<1> QED BY <1>1, <1>3, <1>4, <1>15, <1>16, <1>17, CallMoves

----------------------------------------------------------------------------
(* A new node *)

(* r is s as far as the nodes of L are concerned.                          *)
SameOn(s, r, L) ==
  /\ r \in Tree /\ r.root = s.root
  /\ \A n \in L \cup {nil} : r.color[n] = s.color[n] /\ r.key[n] = s.key[n]
  /\ \A n \in L : r.parent[n] = s.parent[n]
  /\ \A e \in Sides : \A n \in L \cup {nil} : r.child[e][n] = s.child[e][n]

(* Then it is the same tree.                                               *)
LEMMA SameOnFits ==
  ASSUME NEW s, NEW L, NEW U, Shape(s, L, U), NEW r, SameOn(s, r, L)
  PROVE  /\ Shape(r, L, U)
         /\ \A B, gap : Heights(s, L, B, gap) => Heights(r, L, B, gap)
         /\ \A skip, mid : Reds(s, L, skip, mid) => Reds(r, L, skip, mid)
<1> USE TwoSides, NilIsNoNode
<1>1. Links(s, L) /\ Under(s, L, U) /\ Ordered(s, L, U)
  BY DEF Shape
<1>2. /\ r \in Tree /\ r.root = s.root
      /\ \A n \in L \cup {nil} : r.color[n] = s.color[n] /\ r.key[n] = s.key[n]
      /\ \A n \in L : r.parent[n] = s.parent[n]
      /\ \A e \in Sides : \A n \in L \cup {nil} : r.child[e][n] = s.child[e][n]
  BY DEF SameOn
<1>3. Links(r, L)
  BY <1>1, <1>2 DEF Links
<1>4. Under(r, L, U)
  BY <1>1, <1>2 DEF Under
<1>5. Ordered(r, L, U)
  <2>1. \A e \in Sides : \A n \in L : U[s.child[e][n]] \subseteq L
    BY <1>1 DEF Under, Links
  <2> QED BY <1>1, <1>2, <2>1 DEF Ordered
<1>6. ASSUME NEW B, NEW gap, Heights(s, L, B, gap) PROVE Heights(r, L, B, gap)
  BY <1>2, <1>6 DEF Heights, Weight
<1>7. ASSUME NEW skip, NEW mid, Reds(s, L, skip, mid) PROVE Reds(r, L, skip, mid)
  <2>1. \A n \in L : n # s.root => s.parent[n] \in L
    BY <1>1, ParentOf
  <2> QED BY <1>2, <1>7, <2>1 DEF Reds
<1> QED BY <1>3, <1>4, <1>5, <1>6, <1>7 DEF Shape

(* r is s with the key and the colour of a new node.                       *)
Prepared(s, r, n, k) ==
  /\ r \in Tree /\ r.root = s.root /\ r.parent = s.parent /\ r.child = s.child
  /\ r.key[n] = k /\ r.color[n] = RED
  /\ \A m \in Ref \ {n} : r.key[m] = s.key[m] /\ r.color[m] = s.color[m]

(* The assignments of rbtree_insert to a new node.                         *)
LEMMA SetKeyAndColor ==
  ASSUME NEW s \in Tree, NEW n \in Ref, NEW k \in Key
  PROVE  Prepared(s, [s EXCEPT !.key[n] = k, !.color[n] = RED], n, k)
<1> HIDE DEF Ref, Sides
<1> QED BY DEF Tree, Prepared

(* rbtree_insert begins at the root.                                       *)
LEMMA InsertBegins ==
  ASSUME IInv, \E k \in Key : \E z \in Node : BeginInsert(z, k)
  PROVE  IInv'
<1> USE TwoSides, NilIsNoNode
<1>1. PICK U, B, gap : IInvAt(U, B, gap)
  BY DEF IInv
<1>2. PICK k \in Key, z \in Node : BeginInsert(z, k)
  OBVIOUS
<1>3. /\ call = Idle /\ z \in Node \ live
      /\ t' = [t EXCEPT !.key[z] = k, !.color[z] = RED]
      /\ live' = live \cup {z}
      /\ call' = [op |-> "descend", z |-> z, y |-> nil, x |-> t.root]
      /\ ret' = Pending
  BY <1>2, AddressAssumption DEF BeginInsert
<1>4. Steady /\ Linked = live
  BY <1>1, <1>3, SteadyTree DEF Steady, Idle
<1>5. /\ live \subseteq Node /\ IsFiniteSet(live) /\ Shape(t, live, U)
      /\ Heights(t, live, B, NoGap) /\ Reds(t, live, nil, nil)
      /\ \A d \in Sides : \A n \in Ref \ live : t.child[d][n] = nil
      /\ \A n \in live : t.key[n] \in Key
      /\ t \in Tree /\ nil \notin live
  BY <1>1, <1>4, SteadyTree
<1>6. PICK r : r = t'
  OBVIOUS
<1>7. /\ r \in Tree /\ r.root = t.root /\ r.parent = t.parent /\ r.child = t.child
      /\ r.key[z] = k /\ r.color[z] = RED
      /\ \A m \in Ref \ {z} : r.key[m] = t.key[m] /\ r.color[m] = t.color[m]
  <2>1. Prepared(t, [t EXCEPT !.key[z] = k, !.color[z] = RED], z, k)
    BY <1>3, <1>5, SetKeyAndColor
  <2> QED BY <1>3, <1>6, <2>1 DEF Prepared
<1>8. SameOn(t, r, live)
  BY <1>3, <1>5, <1>7 DEF SameOn
<1>9. Shape(r, live, U) /\ Heights(r, live, B, NoGap) /\ Reds(r, live, nil, nil)
  BY <1>5, <1>8, SameOnFits
<1>10. Linked' = live
  BY <1>3 DEF Linked, Detached
<1>11. live' \subseteq Node /\ IsFiniteSet(live')
  BY <1>3, <1>5, FS_AddElement
<1>12. r.root \in live \cup {nil} /\ U[nil] = {} /\ U \in [Ref -> SUBSET live]
  BY <1>9 DEF Shape, Links, Under
<1>13. CallOK'
  BY <1>3, <1>7, <1>10, <1>12 DEF CallOK
<1>14. NoGap \in Gap
  BY DEF NoGap, Gap
<1>15. Skip' = nil /\ Mid' = nil
  BY <1>3 DEF Skip, Mid
<1>16. Strays'
  BY <1>3, <1>5, <1>6, <1>7, <1>10 DEF Strays
<1>17. DeleteFreesAll'
  BY <1>3 DEF DeleteFreesAll, Pending
<1>18. \A n \in live' : t'.key[n] \in Key
  BY <1>3, <1>5, <1>6, <1>7
<1>19. Descending(U)'
  <2>1. call'.x = t'.root /\ call'.y = nil /\ call'.z = z
    BY <1>3, <1>6, <1>7
  <2>2. \A d \in Sides : \A n \in live : t'.child[d][n] \in live \cup {nil}
    BY <1>6, <1>9 DEF Shape, Links
  <2>3. \A d \in Sides : \A n \in live : nil \notin U[t'.child[d][n]]
    BY <1>5, <1>12, <2>2
  <2> QED BY <1>6, <1>7, <1>10, <2>1, <2>3 DEF Descending
<1>20. CallInv(U, NoGap)'
  BY <1>3, <1>19 DEF CallInv
<1>21. Shape(t, Linked, U)' /\ Heights(t, Linked, B, NoGap)' /\ Reds(t, Linked, Skip, Mid)'
  BY <1>6, <1>9, <1>10, <1>15
<1>22. IInvAt(U, B, NoGap)'
  BY <1>11, <1>13, <1>14, <1>16, <1>17, <1>18, <1>20, <1>21 DEF IInvAt
<1> QED BY <1>22 DEF IInv

(* The descent stays where the new key belongs.                            *)
LEMMA DescentGoesOn == ASSUME IInv, Descend PROVE IInv'
<1> USE TwoSides, NilIsNoNode
<1>1. PICK U, B, gap : IInvAt(U, B, gap)
  BY DEF IInv
<1>2. PICK z, y, x, d : z = call.z /\ y = call.y /\ x = call.x /\ d = side_for(call.z, call.x)
  OBVIOUS
<1>3. PICK c : c = t.child[d][x]
  OBVIOUS
<1>4. /\ call.op = "descend" /\ x # nil /\ UNCHANGED <<t, live, ret>>
      /\ call' = [call EXCEPT !.y = x, !.x = c]
  BY <1>2, <1>3 DEF Descend
<1>5. PICK L : L = Linked
  OBVIOUS
<1>6. Steady
  BY <1>4 DEF Steady
<1>7. /\ Links(t, L) /\ Under(t, L, U) /\ t \in Tree /\ L \subseteq Ref /\ nil \notin L
      /\ CallOK /\ CallInv(U, NoGap) /\ live \subseteq Node
      /\ \A n \in live : t.key[n] \in Key
  BY <1>1, <1>5, <1>6, SteadyTree
<1>8. call \in [op : {"descend"}, z : live, y : L \cup {nil}, x : L \cup {nil}]
  BY <1>4, <1>5, <1>7, Calls
<1>9. z \in live /\ x \in L /\ call' = [op |-> "descend", z |-> z, y |-> x, x |-> c]
  BY <1>2, <1>4, <1>8
<1>10. c \in L \cup {nil} /\ d \in Sides
  <2>1. d \in Sides
    BY <1>2 DEF side_for
  <2> QED BY <1>3, <1>7, <1>9, <2>1 DEF Links
<1>11. /\ x = IF y = nil THEN t.root ELSE t.child[side_for(z, y)][y]
       /\ y \in L \cup {nil}
       /\ t.color[z] = RED /\ t.key[z] \in Key
       /\ \A e \in Sides : \A n \in L : y \in U[t.child[e][n]] => Before(e, t.key[z], t.key[n])
  BY <1>2, <1>4, <1>5, <1>7, <1>8 DEF CallInv, Descending
<1>12. ASSUME NEW e \in Sides, NEW n \in L, x \in U[t.child[e][n]]
       PROVE  Before(e, t.key[z], t.key[n])
  <2>1. PICK b : b = t.child[e][n]
    OBVIOUS
  <2>2. b \in L /\ t.parent[b] = n /\ b # t.root /\ n \notin U[b]
    <3>1. b \in L \cup {nil} /\ b # nil
      BY <1>7, <1>12, <2>1 DEF Links, Under
    <3> QED BY <1>7, <2>1, <3>1, Children DEF Under
  <2>3. x = b \/ ParentIn(t, U, x, b)
    BY <1>7, <1>12, <2>1, <2>2, UnderIsClosed
  <2>4. y # nil
    <3>1. ASSUME y = nil PROVE FALSE
      <4>1. x = t.root
        BY <1>11, <3>1
      <4>2. U[x] \subseteq U[b]
        BY <1>7, <1>12, <2>1, <2>2, UnderIsClosed
      <4>3. U[x] = L
        BY <1>7, <4>1 DEF Under
      <4> QED BY <2>2, <4>2, <4>3
    <3> QED BY <3>1
  <2>5. y \in L /\ side_for(z, y) \in Sides /\ x = t.child[side_for(z, y)][y]
    BY <1>11, <2>4 DEF side_for
  <2>6. t.parent[x] = y
    BY <1>7, <1>9, <2>5 DEF Links
  <2>7. CASE y \in U[b]
    BY <1>11, <2>1, <2>7
  <2>8. CASE x = b
    <3>1. n = y
      BY <2>2, <2>6, <2>8
    <3>2. e = side_for(z, y)
      <4>1. PICK f : f = side_for(z, y)
        OBVIOUS
      <4>2. f \in Sides /\ t.child[f][y] # nil /\ t.child[e][y] = t.child[f][y]
        BY <1>4, <2>1, <2>5, <2>8, <3>1, <4>1
      <4>3. t.child[f][y] # t.child[Other(f)][y]
        BY <1>7, <2>5, <4>2, Children
      <4> QED BY <4>1, <4>2, <4>3
    <3>3. t.key[z] \in Int /\ t.key[y] \in Int
      BY <1>7, <1>11, <2>5, KeysAreIntegers, KeyAssumption
    <3> QED BY <3>1, <3>2, <3>3 DEF Before, side_for
  <2> QED BY <2>3, <2>6, <2>7, <2>8 DEF ParentIn
<1>13. Linked' = L
  BY <1>4, <1>5, <1>8, <1>9 DEF Linked, Detached
<1>14. live' = live /\ t' = t
  BY <1>4
<1>15. CallOK'
  BY <1>9, <1>10, <1>13, <1>14 DEF CallOK
<1>16. Descending(U)'
  <2>1. call'.x = c /\ call'.y = x /\ call'.z = z
    BY <1>9
  <2>2. c = t'.child[side_for(z, x)'][x]
    BY <1>2, <1>3, <1>14 DEF side_for
  <2>3. x # nil
    BY <1>4
  <2> QED BY <1>2, <1>3, <1>9, <1>11, <1>12, <1>13, <1>14, <2>1, <2>3 DEF Descending, side_for
<1>17. CallInv(U, NoGap)'
  BY <1>9, <1>16 DEF CallInv
<1>18. Steady'
  BY <1>9 DEF Steady
<1> QED BY <1>1, <1>4, <1>5, <1>6, <1>13, <1>15, <1>17, <1>18, CallMoves

(* r is s with z hung below y, on side d; y is the sentinel if z becomes   *)
(* the root.                                                               *)
Attached(s, r, L, z, y, d) ==
  /\ z \in Node \ L /\ y \in L \cup {nil} /\ d \in Sides
  /\ s.color[z] = RED /\ \A e \in Sides : s.child[e][z] = nil
  /\ IF y = nil THEN s.root = nil ELSE s.child[d][y] = nil
  /\ r \in Tree /\ r.color = s.color /\ r.key = s.key
  /\ r.root = IF y = nil THEN z ELSE s.root
  /\ \A n \in Ref : r.parent[n] = IF n = z THEN y ELSE s.parent[n]
  /\ \A e \in Sides : \A n \in Ref :
       r.child[e][n] = IF y # nil /\ e = d /\ n = y THEN z ELSE s.child[e][n]

(* z may stand where it is hung.                                           *)
Belongs(s, L, U, z, y, d) ==
  /\ y # nil => Before(d, s.key[z], s.key[y])
  /\ \A e \in Sides : \A n \in L : y \in U[s.child[e][n]] => Before(e, s.key[z], s.key[n])

(* The tree with the new node is in order, but for the colour of z.        *)
LEMMA AttachFits ==
  ASSUME NEW s, NEW L, NEW U, NEW B, Shape(s, L, U),
         Heights(s, L, B, NoGap), Reds(s, L, nil, nil),
         NEW z, NEW y, NEW d, Belongs(s, L, U, z, y, d),
         NEW r, Attached(s, r, L, z, y, d)
  PROVE  Rebuilding(r, L \cup {z}, z)
<1> USE TwoSides, TwoColors, NilIsNoNode
<1>1. Links(s, L) /\ Under(s, L, U) /\ Ordered(s, L, U)
  BY DEF Shape
<1>2. PICK M, V, C : /\ M = L \cup {z}
                     /\ V = [n \in Ref |-> IF n = z THEN {z}
                                           ELSE IF y \in U[n] THEN U[n] \cup {z} ELSE U[n]]
                     /\ C = [n \in Ref |-> IF n = z THEN 1 ELSE B[n]]
  OBVIOUS
<1>3. /\ z \in Node /\ z \notin L /\ y \in L \cup {nil} /\ d \in Sides
      /\ s.color[z] = RED /\ \A e \in Sides : s.child[e][z] = nil
      /\ IF y = nil THEN s.root = nil ELSE s.child[d][y] = nil
      /\ r \in Tree /\ r.color = s.color /\ r.key = s.key
      /\ r.root = IF y = nil THEN z ELSE s.root
      /\ \A n \in Ref : r.parent[n] = IF n = z THEN y ELSE s.parent[n]
      /\ \A e \in Sides : \A n \in Ref :
           r.child[e][n] = IF y # nil /\ e = d /\ n = y THEN z ELSE s.child[e][n]
  BY DEF Attached
<1>4. /\ s \in Tree /\ L \subseteq Node /\ L \subseteq Ref /\ nil \notin L /\ IsFiniteSet(L)
      /\ z \in Ref /\ z # nil /\ z # y /\ M \subseteq Node /\ M \subseteq Ref
      /\ \A e \in Sides : s.child[e][nil] = nil
  BY <1>1, <1>2, <1>3 DEF Links
<1>5. \A e \in Sides : \A n \in L :
        /\ s.child[e][n] \in L \cup {nil}
        /\ s.child[e][n] # nil => s.parent[s.child[e][n]] = n
  BY <1>1 DEF Links
<1>6. \A n \in Ref : U[n] \subseteq L
  BY <1>1 DEF Under
<1>7. U[nil] = {} /\ U[s.root] = L
  BY <1>1 DEF Under
<1>8. y = nil => L = {}
  BY <1>3, <1>7
<1>9. Links(r, M)
  <2>1. IsFiniteSet(M)
    BY <1>2, <1>4, FS_AddElement
  <2>2. r.root \in M /\ r.parent[r.root] = nil
    <3>1. CASE y = nil
      BY <1>2, <1>3, <1>4, <3>1
    <3>2. CASE y # nil
      <4>1. s.root \in L
        BY <1>1, <1>3, <1>7, <3>2 DEF Links
      <4>2. s.parent[s.root] = nil
        BY <1>1, <1>4, <4>1 DEF Links
      <4> QED BY <1>2, <1>3, <1>4, <3>2, <4>1, <4>2
    <3> QED BY <3>1, <3>2
  <2>3. \A e \in Sides : r.child[e][nil] = nil
    BY <1>3, <1>4
  <2>4. ASSUME NEW e \in Sides, NEW n \in M
        PROVE  /\ r.child[e][n] \in M \cup {nil}
               /\ r.child[e][n] # nil => r.parent[r.child[e][n]] = n
    <3>1. CASE n = z
      BY <1>3, <1>4, <3>1
    <3>2. CASE n # z
      <4>1. n \in L
        BY <1>2, <3>2
      <4>2. CASE e = d /\ n = y
        BY <1>2, <1>3, <1>4, <4>1, <4>2
      <4>3. CASE ~(e = d /\ n = y)
        <5>1. r.child[e][n] = s.child[e][n]
          BY <1>3, <1>4, <4>1, <4>3
        <5> QED BY <1>2, <1>3, <1>4, <1>5, <4>1, <5>1
      <4> QED BY <4>2, <4>3
    <3> QED BY <3>1, <3>2
  <2> QED BY <1>3, <1>4, <2>1, <2>2, <2>3, <2>4 DEF Links
<1>10. /\ V[nil] = {} /\ V[z] = {z}
       /\ \A n \in L : V[n] = IF y \in U[n] THEN U[n] \cup {z} ELSE U[n]
       /\ V \in [Ref -> SUBSET M]
  <2>1. V[nil] = {} /\ V[z] = {z}
    BY <1>2, <1>4, <1>7
  <2>2. \A n \in L : V[n] = IF y \in U[n] THEN U[n] \cup {z} ELSE U[n]
    BY <1>2, <1>3, <1>4
  <2>3. V \in [Ref -> SUBSET M]
    BY <1>2, <1>6
  <2> QED BY <2>1, <2>2, <2>3
<1>11. \A e \in Sides : \A n \in L :
         V[r.child[e][n]] = IF n = y /\ e = d THEN {z}
                            ELSE IF y \in U[s.child[e][n]] THEN U[s.child[e][n]] \cup {z}
                            ELSE U[s.child[e][n]]
  <2> SUFFICES ASSUME NEW e \in Sides, NEW n \in L
               PROVE  V[r.child[e][n]] = IF n = y /\ e = d THEN {z}
                                         ELSE IF y \in U[s.child[e][n]]
                                              THEN U[s.child[e][n]] \cup {z}
                                         ELSE U[s.child[e][n]]
    OBVIOUS
  <2>1. PICK c : c = s.child[e][n]
    OBVIOUS
  <2>2. r.child[e][n] = (IF y # nil /\ e = d /\ n = y THEN z ELSE c)
    BY <1>3, <1>4, <2>1
  <2>3. c \in L \cup {nil}
    BY <1>5, <2>1
  <2>4. CASE n = y /\ e = d
    BY <1>4, <1>10, <2>1, <2>2, <2>4
  <2>5. CASE ~(n = y /\ e = d)
    BY <1>7, <1>10, <2>1, <2>2, <2>3, <2>5
  <2> QED BY <2>1, <2>4, <2>5
<1>12. \A e \in Sides : \A n \in L :
         /\ U[n] = {n} \cup U[s.child[e][n]] \cup U[s.child[Other(e)][n]]
         /\ n \notin U[s.child[e][n]]
         /\ U[s.child[e][n]] \cap U[s.child[Other(e)][n]] = {}
         /\ U[s.child[e][n]] \subseteq L
  BY <1>1, <1>4, <1>5, <1>6 DEF Under
<1>13. Under(r, M, V)
  <2>1. V[r.root] = M
    <3>1. CASE y = nil
      BY <1>2, <1>3, <1>8, <1>10, <3>1
    <3>2. CASE y # nil
      <4>1. s.root \in L /\ y \in U[s.root]
        BY <1>1, <1>3, <1>7, <3>2 DEF Links
      <4> QED BY <1>2, <1>3, <1>7, <1>10, <3>2, <4>1
    <3> QED BY <3>1, <3>2
  <2>2. ASSUME NEW e \in Sides, NEW n \in M
        PROVE  /\ V[n] = {n} \cup V[r.child[e][n]] \cup V[r.child[Other(e)][n]]
               /\ n \notin V[r.child[e][n]]
               /\ V[r.child[e][n]] \cap V[r.child[Other(e)][n]] = {}
    <3>1. CASE n = z
      BY <1>3, <1>4, <1>10, <3>1
    <3>2. CASE n # z
      <4>1. n \in L
        BY <1>2, <3>2
      <4>2. PICK c, o : c = s.child[e][n] /\ o = s.child[Other(e)][n]
        OBVIOUS
      <4>3. /\ U[n] = {n} \cup U[c] \cup U[o] /\ n \notin U[c] /\ n \notin U[o]
            /\ U[c] \cap U[o] = {} /\ z \notin U[c] /\ z \notin U[o]
        BY <1>3, <1>12, <4>1, <4>2
      <4>4. n = y => s.child[d][n] = nil
        BY <1>3, <1>4, <4>1
      <4>5. e = d \/ Other(e) = d
        BY <1>3
      <4>6. V[r.child[e][n]] = IF n = y /\ e = d THEN {z}
                               ELSE IF y \in U[c] THEN U[c] \cup {z} ELSE U[c]
        BY <1>11, <4>1, <4>2
      <4>7. V[r.child[Other(e)][n]] = IF n = y /\ Other(e) = d THEN {z}
                                      ELSE IF y \in U[o] THEN U[o] \cup {z} ELSE U[o]
        BY <1>11, <4>1, <4>2, <4>5
      <4>8. V[n] = IF y \in U[n] THEN U[n] \cup {z} ELSE U[n]
        BY <1>10, <4>1
      <4>9. CASE n = y
        <5>1. CASE e = d
          <6>1. U[c] = {} /\ Other(e) # d
            BY <1>7, <4>2, <4>4, <4>9, <5>1
          <6> QED BY <3>2, <4>3, <4>6, <4>7, <4>8, <4>9, <5>1, <6>1
        <5>2. CASE Other(e) = d
          <6>1. U[o] = {} /\ e # d
            BY <1>7, <4>2, <4>4, <4>9, <5>2
          <6> QED BY <3>2, <4>3, <4>6, <4>7, <4>8, <4>9, <5>2, <6>1
        <5> QED BY <4>5, <5>1, <5>2
      <4>10. CASE n # y
        BY <3>2, <4>3, <4>6, <4>7, <4>8, <4>10
      <4> QED BY <4>9, <4>10
    <3> QED BY <3>1, <3>2
  <2> QED BY <1>10, <2>1, <2>2 DEF Under
<1>14. Ordered(r, M, V)
  <2>1. ASSUME NEW e \in Sides, NEW n \in M, NEW m \in V[r.child[e][n]]
        PROVE  Before(e, s.key[m], s.key[n])
    <3>1. CASE n = z
      BY <1>3, <1>4, <1>10, <2>1, <3>1
    <3>2. CASE n # z
      <4>1. n \in L
        BY <1>2, <3>2
      <4>2. CASE n = y /\ e = d
        <5>a. V[r.child[e][n]] = {z}
          BY <1>11, <4>1, <4>2
        <5>1. m = z
          BY <5>a
        <5> QED BY <1>4, <4>1, <4>2, <5>1 DEF Belongs
      <4>3. CASE ~(n = y /\ e = d)
        <5>a. V[r.child[e][n]] = IF y \in U[s.child[e][n]] THEN U[s.child[e][n]] \cup {z}
                                 ELSE U[s.child[e][n]]
          BY <1>11, <4>1, <4>3
        <5>1. m \in U[s.child[e][n]] \/ (m = z /\ y \in U[s.child[e][n]])
          BY <5>a
        <5>2. m \in U[s.child[e][n]] => Before(e, s.key[m], s.key[n])
          BY <1>1, <4>1 DEF Ordered
        <5>3. y \in U[s.child[e][n]] => Before(e, s.key[z], s.key[n])
          BY <4>1 DEF Belongs
        <5> QED BY <5>1, <5>2, <5>3
      <4> QED BY <4>2, <4>3
    <3> QED BY <3>1, <3>2
  <2> QED BY <1>3, <2>1 DEF Ordered
<1>15. Heights(r, M, C, NoGap)
  <2>1. /\ B \in [Ref -> Nat \ {0}] /\ B[nil] = 1 /\ s.color[nil] = BLACK
        /\ \A e \in Sides : \A n \in L :
             B[n] = Weight(s, n) + B[s.child[e][n]] + Extra(NoGap, n, e)
    BY DEF Heights
  <2>2. \A e \in Sides : \A n \in M : Extra(NoGap, n, e) = 0
    BY <1>4 DEF NoGap, Extra
  <2>3. C \in [Ref -> Nat \ {0}] /\ C[nil] = 1 /\ C[z] = 1 /\ \A n \in L : C[n] = B[n]
    BY <1>2, <1>3, <1>4, <2>1
  <2>4. ASSUME NEW e \in Sides, NEW n \in M
        PROVE  C[n] = Weight(r, n) + C[r.child[e][n]] + Extra(NoGap, n, e)
    <3>1. CASE n = z
      <4>1. Weight(r, n) = 0 /\ r.child[e][n] = nil
        BY <1>3, <1>4, <3>1 DEF Weight
      <4> QED BY <2>2, <2>3, <3>1, <4>1
    <3>2. CASE n # z
      <4>1. n \in L /\ Weight(r, n) = Weight(s, n)
        BY <1>2, <1>3, <3>2 DEF Weight
      <4>2. C[r.child[e][n]] = B[s.child[e][n]]
        <5>1. CASE n = y /\ e = d
          <6>1. r.child[e][n] = z /\ s.child[e][n] = nil
            BY <1>3, <1>4, <4>1, <5>1
          <6> QED BY <2>1, <2>3, <6>1
        <5>2. CASE ~(n = y /\ e = d)
          <6>1. r.child[e][n] = s.child[e][n] /\ s.child[e][n] \in L \cup {nil}
            BY <1>3, <1>4, <1>5, <4>1, <5>2
          <6> QED BY <2>1, <2>3, <6>1
        <5> QED BY <5>1, <5>2
      <4> QED BY <2>1, <2>3, <4>1, <4>2
    <3> QED BY <3>1, <3>2
  <2> QED BY <1>3, <2>1, <2>3, <2>4 DEF Heights
<1>16. Reds(r, M, z, nil)
  <2>1. ASSUME NEW n \in M, r.color[n] = RED, n # z
        PROVE  n # r.root /\ r.color[r.parent[n]] = BLACK
    <3>1. n \in L /\ y # nil /\ n # nil
      BY <1>2, <1>4, <1>8, <2>1
    <3>2. n # s.root /\ (s.color[s.parent[n]] = BLACK \/ s.parent[n] = nil)
      BY <1>3, <2>1, <3>1 DEF Reds
    <3>3. s.color[nil] = BLACK
      BY DEF Heights
    <3> QED BY <1>3, <1>4, <2>1, <3>1, <3>2, <3>3
  <2> QED BY <2>1 DEF Reds
<1> QED BY <1>2, <1>3, <1>9, <1>13, <1>14, <1>15, <1>16 DEF Rebuilding, Fits, Shape

(* Between two rounds of rebuild_after_insert.                             *)
LEMMA InsertUnderWay ==
  ASSUME IInv, call.op = "insert_fix"
  PROVE  /\ Linked = live /\ live \subseteq Node /\ IsFiniteSet(live)
         /\ call \in [op : {"insert_fix"}, new : live, z : live]
         /\ Rebuilding(t, live, call.z)
         /\ \A d \in Sides : \A n \in Ref \ live : t.child[d][n] = nil
         /\ DeleteFreesAll
         /\ \A n \in live : t.key[n] \in Key
<1>1. PICK U, B, gap : IInvAt(U, B, gap)
  BY DEF IInv
<1>2. Linked = live /\ Skip = call.z /\ Mid = nil /\ gap = NoGap /\ t.color[call.z] = RED
  BY <1>1 DEF Linked, Detached, Skip, Mid, IInvAt, CallInv
<1>3. /\ live \subseteq Node /\ IsFiniteSet(live) /\ CallOK /\ DeleteFreesAll
      /\ \A n \in live : t.key[n] \in Key
  BY <1>1 DEF IInvAt
<1>4. call \in [op : {"insert_fix"}, new : live, z : live]
  BY <1>3, Calls
<1>5. Shape(t, live, U) /\ Heights(t, live, B, NoGap) /\ Reds(t, live, call.z, nil)
  BY <1>1, <1>2 DEF IInvAt
<1>6. \A d \in Sides : \A n \in Ref \ live : t.child[d][n] = nil
  BY <1>1, <1>2 DEF IInvAt, Strays
<1>7. call.z \in live
  BY <1>4
<1>8. Rebuilding(t, live, call.z)
  BY <1>2, <1>5, <1>7 DEF Rebuilding, Fits
<1> QED BY <1>2, <1>3, <1>4, <1>6, <1>8

(* A step into such a state keeps the invariant.                           *)
LEMMA InsertStep ==
  ASSUME live' \subseteq Node, IsFiniteSet(live'),
         NEW x \in live', NEW z \in live',
         call' = [op |-> "insert_fix", new |-> x, z |-> z],
         Rebuilding(t', live', z),
         \A d \in Sides : \A n \in Ref \ live' : t'.child[d][n] = nil,
         DeleteFreesAll',
         \A n \in live' : t'.key[n] \in Key
  PROVE  IInv'
<1>1. Linked' = live' /\ Skip' = z /\ Mid' = nil
  BY DEF Linked, Detached, Skip, Mid
<1>2. PICK U, B : /\ Shape(t', live', U) /\ Heights(t', live', B, NoGap)
                  /\ Reds(t', live', z, nil) /\ t'.color[z] = RED
  BY DEF Rebuilding, Fits
<1>3. CallOK'
  BY DEF CallOK
<1>4. CallInv(U, NoGap)'
  BY <1>2 DEF CallInv
<1>5. Strays'
  BY <1>1 DEF Strays
<1>6. NoGap \in Gap
  BY NilIsNoNode DEF NoGap, Gap, Sides
<1>7. Shape(t, Linked, U)' /\ Heights(t, Linked, B, NoGap)' /\ Reds(t, Linked, Skip, Mid)'
  BY <1>1, <1>2
<1>8. IInvAt(U, B, NoGap)'
  BY <1>3, <1>4, <1>5, <1>6, <1>7 DEF IInvAt
<1> QED BY <1>8 DEF IInv

(* A step that ends a call with a tree in order keeps the invariant.       *)
LEMMA TreeInOrder ==
  ASSUME live' \subseteq Node, IsFiniteSet(live'), call' = Idle,
         Fits(t', live', NoGap, nil, nil),
         \A d \in Sides : \A n \in Ref \ live' : t'.child[d][n] = nil,
         DeleteFreesAll',
         \A n \in live' : t'.key[n] \in Key
  PROVE  IInv'
<1>1. Linked' = live' /\ Skip' = nil /\ Mid' = nil
  BY DEF Linked, Detached, Skip, Mid, Idle
<1>2. PICK U, B : /\ Shape(t', live', U) /\ Heights(t', live', B, NoGap)
                  /\ Reds(t', live', nil, nil)
  BY DEF Fits
<1>3. CallOK' /\ CallInv(U, NoGap)'
  BY BecomesIdle
<1>5. Strays'
  BY <1>1 DEF Strays, Idle
<1>6. NoGap \in Gap
  BY NilIsNoNode DEF NoGap, Gap, Sides
<1>7. Shape(t, Linked, U)' /\ Heights(t, Linked, B, NoGap)' /\ Reds(t, Linked, Skip, Mid)'
  BY <1>1, <1>2
<1>8. IInvAt(U, B, NoGap)'
  BY <1>3, <1>5, <1>6, <1>7 DEF IInvAt
<1> QED BY <1>8 DEF IInv

(* rbtree_insert hangs the new node into the tree.                         *)
LEMMA InsertAttaches == ASSUME IInv, Attach PROVE IInv'
<1> USE TwoSides, NilIsNoNode
<1>1. PICK U, B, gap : IInvAt(U, B, gap)
  BY DEF IInv
<1>2. PICK z, y, d, a : /\ z = call.z /\ y = call.y /\ d = side_for(call.z, call.y)
                        /\ a = IF y = nil THEN [t EXCEPT !.root = z] ELSE set_child(t, d, y, z)
  OBVIOUS
<1>3. /\ call.op = "descend" /\ call.x = nil /\ UNCHANGED <<live, ret>>
      /\ t' = set_parent(a, z, y)
      /\ call' = [op |-> "insert_fix", new |-> z, z |-> z]
  BY <1>2 DEF Attach, set_child, set_parent
<1>4. PICK L : L = Linked
  OBVIOUS
<1>5. Steady
  BY <1>3 DEF Steady
<1>6. /\ Shape(t, L, U) /\ Heights(t, L, B, NoGap) /\ Reds(t, L, nil, nil)
      /\ \A e \in Sides : \A n \in Ref \ L : t.child[e][n] = nil
      /\ t \in Tree /\ L \subseteq Ref /\ nil \notin L
      /\ CallOK /\ CallInv(U, NoGap) /\ live \subseteq Node /\ IsFiniteSet(live)
      /\ \A n \in live : t.key[n] \in Key
  BY <1>1, <1>4, <1>5, SteadyTree
<1>7. call \in [op : {"descend"}, z : live, y : L \cup {nil}, x : L \cup {nil}]
  BY <1>3, <1>4, <1>6, Calls
<1>8. /\ nil = IF y = nil THEN t.root ELSE t.child[d][y]
      /\ y \in L \cup {nil} /\ d \in Sides
      /\ t.color[z] = RED /\ t.key[z] \in Key
      /\ \A e \in Sides : \A n \in L : y \in U[t.child[e][n]] => Before(e, t.key[z], t.key[n])
  BY <1>2, <1>3, <1>4, <1>6, <1>7 DEF CallInv, Descending, side_for
<1>9. z \in live /\ L = live \ {z} /\ live = L \cup {z}
  BY <1>2, <1>3, <1>4, <1>7 DEF Linked, Detached
<1>10. z \in Node \ L /\ z \in Ref /\ y \in Ref
  BY <1>6, <1>8, <1>9
<1>11. Belongs(t, L, U, z, y, d)
  <2>1. y # nil => t.key[z] \in Int /\ t.key[y] \in Int
    BY <1>6, <1>10, KeysAreIntegers
  <2>2. y # nil => Before(d, t.key[z], t.key[y])
    BY <1>2, <2>1 DEF Before, side_for
  <2> QED BY <1>8, <2>2 DEF Belongs
<1>12. PICK r : r = t'
  OBVIOUS
<1>13. Attached(t, r, L, z, y, d)
  <2>1. /\ a \in Tree /\ a.color = t.color /\ a.key = t.key /\ a.parent = t.parent
        /\ a.root = IF y = nil THEN z ELSE t.root
        /\ \A e \in Sides : \A n \in Ref :
             a.child[e][n] = IF y # nil /\ e = d /\ n = y THEN z ELSE t.child[e][n]
    <3>1. CASE y = nil
      BY <1>2, <1>6, <1>10, <3>1, SetRoot
    <3>2. CASE y # nil
      <4>1. ChildSet(t, set_child(t, d, y, z), d, y, z)
        BY <1>6, <1>8, <1>10, SetChild
      <4> QED BY <1>2, <3>2, <4>1 DEF ChildSet
    <3> QED BY <3>1, <3>2
  <2>2. ParentSet(a, r, z, y)
    <3>1. ParentSet(a, set_parent(a, z, y), z, y)
      BY <1>10, <2>1, SetParent
    <3> QED BY <1>3, <1>12, <3>1
  <2>3. /\ r \in Tree /\ r.color = t.color /\ r.key = t.key
        /\ r.root = (IF y = nil THEN z ELSE t.root)
        /\ \A n \in Ref : r.parent[n] = IF n = z THEN y ELSE t.parent[n]
        /\ \A e \in Sides : \A n \in Ref :
             r.child[e][n] = IF y # nil /\ e = d /\ n = y THEN z ELSE t.child[e][n]
    BY <2>1, <2>2 DEF ParentSet
  <2>4. \A e \in Sides : t.child[e][z] = nil
    BY <1>6, <1>10
  <2>5. IF y = nil THEN t.root = nil ELSE t.child[d][y] = nil
    BY <1>8
  <2> QED BY <1>8, <1>10, <2>3, <2>4, <2>5 DEF Attached
<1>14. Rebuilding(r, L \cup {z}, z)
  BY <1>6, <1>11, <1>13, AttachFits
<1>15. live' = live
  BY <1>3
<1>16. Rebuilding(t', live', z)
  BY <1>9, <1>12, <1>14, <1>15
<1>17. \A e \in Sides : \A n \in Ref \ live' : t'.child[e][n] = nil
  <2>1. ASSUME NEW e \in Sides, NEW n \in Ref \ live PROVE r.child[e][n] = nil
    <3>1. n \notin L /\ (y # nil => n # y)
      BY <1>8, <1>9
    <3>2. r.child[e][n] = t.child[e][n]
      BY <1>13, <3>1 DEF Attached
    <3> QED BY <1>6, <3>1, <3>2
  <2> QED BY <1>12, <1>15, <2>1
<1>18. DeleteFreesAll'
  BY <1>1, <1>3 DEF IInvAt, DeleteFreesAll
<1>19. \A n \in live' : t'.key[n] \in Key
  BY <1>6, <1>12, <1>13, <1>15 DEF Attached
<1> QED BY <1>3, <1>6, <1>9, <1>15, <1>16, <1>17, <1>18, <1>19, InsertStep

(* A round of rebuild_after_insert keeps the invariant.                    *)
LEMMA InsertRebuilds == ASSUME IInv, InsertFixRound PROVE IInv'
<1>1. call.op = "insert_fix" /\ UNCHANGED <<live, ret>>
  BY DEF InsertFixRound
<1>2. /\ live \subseteq Node /\ IsFiniteSet(live)
      /\ call \in [op : {"insert_fix"}, new : live, z : live]
      /\ Rebuilding(t, live, call.z)
      /\ \A d \in Sides : \A n \in Ref \ live : t.child[d][n] = nil
      /\ DeleteFreesAll
      /\ \A n \in live : t.key[n] \in Key
  BY <1>1, InsertUnderWay
<1>3. Kept(t, t', live) /\ \E z \in live : Rebuilding(t', live, z) /\ call' = [call EXCEPT !.z = z]
  BY <1>2, InsertRound
<1>4. PICK z \in live : Rebuilding(t', live, z) /\ call' = [call EXCEPT !.z = z]
  BY <1>3
<1>5. PICK x \in live : call' = [op |-> "insert_fix", new |-> x, z |-> z]
  BY <1>2, <1>4
<1>6. /\ \A d \in Sides : \A n \in Ref \ live : t'.child[d][n] = nil
      /\ \A n \in live : t'.key[n] \in Key
  BY <1>2, <1>3 DEF Kept
<1>7. live' = live /\ DeleteFreesAll'
  BY <1>1, <1>2 DEF DeleteFreesAll
<1> QED BY <1>2, <1>4, <1>5, <1>6, <1>7, InsertStep

(* rbtree_insert returns.                                                  *)
LEMMA InsertReturns == ASSUME IInv, EndInsert PROVE IInv'
<1>1. /\ call.op = "insert_fix" /\ live' = live /\ call' = Idle
      /\ t.color[t.parent[call.z]] # RED
      /\ t' = recolor(t, t.root, BLACK)
      /\ ret'.op # "new"
  BY DEF EndInsert, Returned
<1>2. /\ live \subseteq Node /\ IsFiniteSet(live)
      /\ Rebuilding(t, live, call.z)
      /\ \A d \in Sides : \A n \in Ref \ live : t.child[d][n] = nil
      /\ \A n \in live : t.key[n] \in Key
  BY <1>1, InsertUnderWay
<1>3. Fits(t', live, NoGap, nil, nil) /\ Kept(t, t', live)
  BY <1>1, <1>2, InsertEnd
<1>4. /\ \A d \in Sides : \A n \in Ref \ live : t'.child[d][n] = nil
      /\ \A n \in live : t'.key[n] \in Key
  BY <1>2, <1>3 DEF Kept
<1>5. DeleteFreesAll'
  BY <1>1 DEF DeleteFreesAll
<1> QED BY <1>1, <1>2, <1>3, <1>4, <1>5, TreeInOrder

----------------------------------------------------------------------------
(* The end of rbtree_erase *)

(* Between two rounds of rebuild_after_delete.                             *)
LEMMA EraseUnderWay ==
  ASSUME IInv, call.op = "erase_fix"
  PROVE  /\ Linked = live \ {call.z} /\ live \subseteq Node /\ IsFiniteSet(live)
         /\ call \in [op : {"erase_fix"}, z : live, x : Linked \cup {nil}]
         /\ Gapped(t, live \ {call.z}, call.x)
         /\ \A d \in Sides : \A n \in Ref \ live : t.child[d][n] = nil
         /\ \A d \in Sides : t.child[d][call.z] \in (live \ {call.z}) \cup {nil}
         /\ DeleteFreesAll
         /\ \A n \in live : t.key[n] \in Key
<1>1. PICK U, B, gap : IInvAt(U, B, gap)
  BY DEF IInv
<1>2. /\ Linked = live \ {call.z} /\ Skip = nil /\ Mid = call.x
      /\ GapAt(t, Linked, call.x, gap)
  BY <1>1 DEF Linked, Detached, Skip, Mid, IInvAt, CallInv
<1>3. /\ live \subseteq Node /\ IsFiniteSet(live) /\ CallOK /\ DeleteFreesAll /\ gap \in Gap
      /\ Shape(t, Linked, U) /\ Heights(t, Linked, B, gap) /\ Reds(t, Linked, nil, call.x)
      /\ \A n \in live : t.key[n] \in Key
  BY <1>1, <1>2 DEF IInvAt
<1>4. call \in [op : {"erase_fix"}, z : live, x : Linked \cup {nil}]
  BY <1>3, Calls
<1>5. call.x \in Linked \cup {nil} /\ call.z \in live /\ call.z \in Ref
  <2>1. live \subseteq Ref
    BY <1>3, NilIsNoNode
  <2> HIDE DEF Linked
  <2> QED BY <1>4, <2>1
<1>6. Gapped(t, Linked, call.x)
  BY <1>2, <1>3, <1>5 DEF Gapped, Fits
<1>7. \A d \in Sides : \A n \in Ref \ live : t.child[d][n] = nil
  BY <1>1, <1>2, <1>5 DEF IInvAt, Strays
<1>8. \A d \in Sides : t.child[d][call.z] \in Linked \cup {nil}
  BY <1>1, <1>2, <1>5 DEF IInvAt, Strays
<1> QED BY <1>2, <1>3, <1>4, <1>6, <1>7, <1>8

(* A step into such a state keeps the invariant.                           *)
LEMMA EraseStep ==
  ASSUME live' \subseteq Node, IsFiniteSet(live'), NEW z \in live', NEW x,
         call' = [op |-> "erase_fix", z |-> z, x |-> x],
         Gapped(t', live' \ {z}, x),
         \A d \in Sides : \A n \in Ref \ live' : t'.child[d][n] = nil,
         \A d \in Sides : t'.child[d][z] \in (live' \ {z}) \cup {nil},
         DeleteFreesAll',
         \A n \in live' : t'.key[n] \in Key
  PROVE  IInv'
<1>1. Linked' = live' \ {z} /\ Skip' = nil /\ Mid' = x
  BY DEF Linked, Detached, Skip, Mid
<1>2. PICK gap \in Gap : GapAt(t', live' \ {z}, x, gap) /\ Fits(t', live' \ {z}, gap, nil, x)
  BY DEF Gapped
<1>3. PICK U, B : /\ Shape(t', live' \ {z}, U) /\ Heights(t', live' \ {z}, B, gap)
                  /\ Reds(t', live' \ {z}, nil, x)
  BY <1>2 DEF Fits
<1>4. x \in Linked' \cup {nil}
  BY <1>1 DEF Gapped
<1>5. CallOK'
  BY <1>4 DEF CallOK
<1>6. GapAt(t, Linked, call.x, gap)'
  BY <1>1, <1>2
<1>7. CallInv(U, gap)'
  BY <1>6 DEF CallInv
<1>8. Strays'
  <2>1. ASSUME NEW d \in Sides, NEW n \in Ref \ Linked'
        PROVE  IF n = z THEN t'.child[d][n] \in Linked' \cup {nil} ELSE t'.child[d][n] = nil
    BY <1>1
  <2> QED BY <2>1 DEF Strays
<1>9. Shape(t, Linked, U)' /\ Heights(t, Linked, B, gap)' /\ Reds(t, Linked, Skip, Mid)'
  BY <1>1, <1>3
<1>10. IInvAt(U, B, gap)'
  BY <1>2, <1>5, <1>7, <1>8, <1>9 DEF IInvAt
<1> QED BY <1>10 DEF IInv

(* r is s after z was freed.                                               *)
Freed(s, r, z) ==
  /\ r \in Tree /\ r.root = s.root
  /\ \A n \in Ref \ {z} : /\ r.color[n] = s.color[n] /\ r.key[n] = s.key[n]
                          /\ r.parent[n] = s.parent[n]
                          /\ \A e \in Sides : r.child[e][n] = s.child[e][n]
  /\ \A e \in Sides : r.child[e][z] = nil

(* free does that.                                                         *)
LEMMA FreeEffect ==
  ASSUME NEW s \in Tree, NEW z \in Ref
  PROVE  Freed(s, free(s, z), z)
<1>1. nil \in Ref /\ RED \in {RED, BLACK} /\ 0 \in Key \cup {0}
  BY NilIsNoNode
<1>2. /\ s.color \in [Ref -> {RED, BLACK}] /\ s.key \in [Ref -> Key \cup {0}]
      /\ s.parent \in [Ref -> Ref] /\ s.child \in [Sides -> [Ref -> Ref]] /\ s.root \in Ref
  BY DEF Tree
<1> HIDE DEF Ref, Sides, RED, BLACK
<1> QED BY <1>1, <1>2 DEF Tree, free, Freed

(* A call ends by freeing its node, with a tree in order.                  *)
LEMMA EraseEnds ==
  ASSUME live \subseteq Node, IsFiniteSet(live),
         \A n \in live : t.key[n] \in Key,
         NEW s, NEW z \in live, EndErase(s, z), s.key = t.key,
         Fits(s, live \ {z}, NoGap, nil, nil),
         \A d \in Sides : \A n \in Ref \ live : s.child[d][n] = nil
  PROVE  IInv'
<1> USE NilIsNoNode
<1>1. PICK L : L = live \ {z}
  OBVIOUS
<1>2. PICK U, B : Shape(s, L, U) /\ Heights(s, L, B, NoGap) /\ Reds(s, L, nil, nil)
  BY <1>1 DEF Fits
<1>3. PICK r : r = free(s, z)
  OBVIOUS
<1>4. t' = r /\ live' = L /\ call' = Idle /\ ret'.op # "new"
  BY <1>1, <1>3 DEF EndErase, Returned
<1>5. s \in Tree /\ L \subseteq Ref /\ z \in Ref /\ z # nil /\ z \notin L /\ live = L \cup {z}
  BY <1>1, <1>2 DEF Shape, Links
<1>6. Freed(s, r, z)
  BY <1>3, <1>5, FreeEffect
<1>7. SameOn(s, r, L)
  BY <1>5, <1>6 DEF Freed, SameOn
<1>8. Shape(r, L, U) /\ Heights(r, L, B, NoGap) /\ Reds(r, L, nil, nil)
  BY <1>2, <1>7, SameOnFits
<1>9. Fits(t', live', NoGap, nil, nil)
  BY <1>4, <1>8 DEF Fits
<1>10. \A d \in Sides : \A n \in Ref \ live' : t'.child[d][n] = nil
  BY <1>4, <1>5, <1>6 DEF Freed
<1>11. \A n \in live' : t'.key[n] \in Key
  BY <1>4, <1>5, <1>6 DEF Freed
<1>12. live' \subseteq Node /\ IsFiniteSet(live')
  BY <1>1, <1>4, FS_Subset
<1>13. DeleteFreesAll'
  BY <1>4 DEF DeleteFreesAll
<1> QED BY <1>4, <1>9, <1>10, <1>11, <1>12, <1>13, TreeInOrder

(* z has left the tree, in s, and x took the place of what left a gap.     *)
Parted(s, z, x, color) ==
  /\ z \in live /\ s.key = t.key
  /\ Spliced(s, z, x, color)
  /\ Unlinked(s, live \ {z}, x, color)
  /\ \A d \in Sides : \A n \in Ref \ live : s.child[d][n] = nil
  /\ \A d \in Sides : s.child[d][z] \in (live \ {z}) \cup {nil}

(* Then there is a rebuild, or the call ends.                              *)
LEMMA EraseGoesOn ==
  ASSUME live \subseteq Node, IsFiniteSet(live),
         \A n \in live : t.key[n] \in Key,
         NEW s, NEW z, NEW x, NEW color, Parted(s, z, x, color)
  PROVE  IInv'
<1>0. /\ z \in live /\ s.key = t.key
      /\ Spliced(s, z, x, color)
      /\ Unlinked(s, live \ {z}, x, color)
      /\ \A d \in Sides : \A n \in Ref \ live : s.child[d][n] = nil
      /\ \A d \in Sides : s.child[d][z] \in (live \ {z}) \cup {nil}
  BY DEF Parted
<1>1. CASE color = BLACK
  <2>1. /\ t' = s /\ live' = live /\ ret' = Pending
        /\ call' = [op |-> "erase_fix", z |-> z, x |-> x]
    BY <1>0, <1>1 DEF Spliced
  <2>2. Gapped(t', live' \ {z}, x)
    BY <1>0, <1>1, <2>1 DEF Unlinked
  <2>3. DeleteFreesAll'
    BY <2>1 DEF DeleteFreesAll, Pending
  <2>4. /\ \A d \in Sides : \A n \in Ref \ live' : t'.child[d][n] = nil
        /\ \A d \in Sides : t'.child[d][z] \in (live' \ {z}) \cup {nil}
        /\ \A n \in live' : t'.key[n] \in Key
        /\ live' \subseteq Node /\ IsFiniteSet(live') /\ z \in live'
    BY <1>0, <2>1
  <2> QED BY <2>1, <2>2, <2>3, <2>4, EraseStep
<1>2. CASE color # BLACK
  <2>1. EndErase(s, z) /\ Fits(s, live \ {z}, NoGap, nil, nil)
    BY <1>0, <1>2 DEF Spliced, Unlinked
  <2> QED BY <1>0, <2>1, EraseEnds
<1> QED BY <1>1, <1>2

(* A node with a missing child leaves the tree.                            *)
LEMMA PartsNear ==
  ASSUME IInv, \E z \in Node : EraseNear(z)
  PROVE  \E s, z, x, color : Parted(s, z, x, color)
<1> USE TwoSides, NilIsNoNode
<1>1. PICK U, B, gap : IInvAt(U, B, gap)
  BY DEF IInv
<1>2. PICK z \in Node : EraseNear(z)
  OBVIOUS
<1>3. PICK x : x = IF t.child["left"][z] = nil THEN t.child["right"][z] ELSE t.child["left"][z]
  OBVIOUS
<1>4. PICK r : r = transplant(t, z, x)
  OBVIOUS
<1>5. /\ call = Idle /\ z \in live /\ \E d \in Sides : t.child[d][z] = nil
      /\ Spliced(r, z, x, t.color[z])
  BY <1>2, <1>3, <1>4 DEF EraseNear
<1>6. Steady /\ Linked = live
  BY <1>1, <1>5, SteadyTree DEF Steady, Idle
<1>7. /\ live \subseteq Node /\ IsFiniteSet(live) /\ Shape(t, live, U)
      /\ Links(t, live) /\ Under(t, live, U)
      /\ Heights(t, live, B, NoGap) /\ Reds(t, live, nil, nil)
      /\ \A d \in Sides : \A n \in Ref \ live : t.child[d][n] = nil
      /\ \A n \in live : t.key[n] \in Key
      /\ t \in Tree /\ nil \notin live
  BY <1>1, <1>6, SteadyTree
<1>8. PICK d \in Sides : t.child[d][z] = nil /\ x = t.child[Other(d)][z]
  BY <1>3, <1>5 DEF Sides, Other
<1>9. x \in Ref /\ z \in Ref
  BY <1>5, <1>7, <1>8 DEF Links
<1>10. Transplanted(t, r, live, z, x)
  <2>1. Placed(t, live, z)
    BY <1>5, <1>7, LinkedIsPlaced
  <2> QED BY <1>4, <1>7, <1>9, <2>1, TransplantEffect
<1>11. Bypassed(t, r, live, z, d, x)
  BY <1>5, <1>8, <1>10 DEF Bypassed
<1>12. Unlinked(r, live \ {z}, x, t.color[z])
  <2>1. Fits(t, live, NoGap, nil, nil)
    BY <1>7 DEF Fits
  <2> QED BY <1>11, <2>1, NearUnlinked
<1>13. r.key = t.key /\ \A e \in Sides : \A n \in Ref \ live : r.child[e][n] = nil
  BY <1>7, <1>10 DEF Transplanted
<1>14. ASSUME NEW e \in Sides PROVE r.child[e][z] \in (live \ {z}) \cup {nil}
  <2>1. t.child[e][z] # z /\ t.child[e][z] \in live \cup {nil}
    BY <1>5, <1>7, Children DEF Links
  <2>2. r.child[e][z] = t.child[e][z]
    BY <1>5, <1>10, <2>1 DEF Transplanted
  <2> QED BY <2>1, <2>2
<1> QED BY <1>5, <1>12, <1>13, <1>14 DEF Parted

(* A node with two children leaves the tree, its successor found.          *)
LEMMA PartsFar ==
  ASSUME IInv, EraseFar
  PROVE  \E s, z, x, color : Parted(s, z, x, color)
<1> USE TwoSides, NilIsNoNode
<1>1. PICK U, B, gap : IInvAt(U, B, gap)
  BY DEF IInv
<1>2. PICK z, y, x : z = call.z /\ y = call.y /\ x = t.child["right"][call.y]
  OBVIOUS
<1>3. PICK r : r = relink_successor(t, z, y)
  OBVIOUS
<1>4. /\ call.op = "successor" /\ t.child["left"][y] = nil
      /\ Spliced(r, z, x, t.color[y])
  BY <1>2, <1>3 DEF EraseFar
<1>5. Steady /\ Linked = live
  BY <1>1, <1>4, SteadyTree DEF Steady
<1>6. /\ live \subseteq Node /\ IsFiniteSet(live) /\ Shape(t, live, U)
      /\ Links(t, live) /\ Under(t, live, U)
      /\ Heights(t, live, B, NoGap) /\ Reds(t, live, nil, nil)
      /\ \A d \in Sides : \A n \in Ref \ live : t.child[d][n] = nil
      /\ \A n \in live : t.key[n] \in Key
      /\ CallOK /\ CallInv(U, NoGap)
      /\ t \in Tree /\ nil \notin live
  BY <1>1, <1>5, SteadyTree
<1>7. call \in [op : {"successor"}, z : live, y : live]
  BY <1>4, <1>6, Calls
<1>8. z \in live /\ y \in live
  BY <1>2, <1>7
<1>9. /\ \A d \in Sides : t.child[d][z] # nil
      /\ y \in U[t.child["right"][z]]
      /\ \A m \in U[t.child["right"][z]] \ U[y] : t.key[y] <= t.key[m]
  BY <1>2, <1>4, <1>6 DEF CallInv, ToSuccessor
<1>10. Relinking(t, live, U, z, y)
  BY <1>4, <1>6, <1>8, <1>9 DEF Relinking
<1>11. Lower(t, U, z, y)
  BY <1>9 DEF Lower
<1>12. Unlinked(r, live \ {z}, x, t.color[y])
  <2>1. Unlinked(relink_successor(t, z, y), live \ {z}, t.child["right"][y], t.color[y])
    BY <1>6, <1>10, <1>11, FarUnlinked
  <2> QED BY <1>2, <1>3, <2>1
<1>13. PICK q : q = transplant(t, y, x)
  OBVIOUS
<1>14. /\ Transplanted(t, q, live, y, x)
       /\ Renamed(q, r, live \ {y}, z, y, x)
       /\ \A e \in Sides : \A n \in (Ref \ live) \cup {z} : r.child[e][n] = t.child[e][n]
  <2>1. Aside(t, r, live, z)
    BY <1>3, <1>10, RelinkEffect
  <2>2. Transplanted(t, q, live, y, x) /\ Renamed(q, r, live \ {y}, z, y, x)
    BY <1>2, <1>3, <1>10, <1>13, RelinkEffect
  <2> QED BY <2>1, <2>2 DEF Aside
<1>15. r.key = t.key
  BY <1>14 DEF Transplanted, Renamed
<1>16. \A e \in Sides : \A n \in Ref \ live : r.child[e][n] = nil
  BY <1>6, <1>14
<1>17. ASSUME NEW e \in Sides PROVE r.child[e][z] \in (live \ {z}) \cup {nil}
  <2>1. t.child[e][z] # z /\ t.child[e][z] \in live \cup {nil}
    BY <1>6, <1>8, Children DEF Links
  <2>2. r.child[e][z] = t.child[e][z]
    BY <1>14
  <2> QED BY <2>1, <2>2
<1> QED BY <1>4, <1>8, <1>12, <1>15, <1>16, <1>17 DEF Parted

(* rbtree_erase takes a node out of the tree.                              *)
LEMMA Erases ==
  ASSUME IInv, (\E z \in Node : EraseNear(z)) \/ EraseFar
  PROVE  IInv'
<1>1. live \subseteq Node /\ IsFiniteSet(live) /\ \A n \in live : t.key[n] \in Key
  BY DEF IInv, IInvAt
<1>2. \E s, z, x, color : Parted(s, z, x, color)
  BY PartsNear, PartsFar
<1> QED BY <1>1, <1>2, EraseGoesOn

(* A round of rebuild_after_delete keeps the invariant.                    *)
LEMMA EraseRebuilds == ASSUME IInv, EraseFixRound PROVE IInv'
<1> USE NilIsNoNode
<1>1. call.op = "erase_fix" /\ UNCHANGED <<live, ret>>
  BY DEF EraseFixRound
<1>2. PICK z : z = call.z
  OBVIOUS
<1>3. /\ live \subseteq Node /\ IsFiniteSet(live)
      /\ call \in [op : {"erase_fix"}, z : live, x : Linked \cup {nil}]
      /\ Gapped(t, live \ {z}, call.x)
      /\ \A d \in Sides : \A n \in Ref \ live : t.child[d][n] = nil
      /\ \A d \in Sides : t.child[d][z] \in (live \ {z}) \cup {nil}
      /\ DeleteFreesAll
      /\ \A n \in live : t.key[n] \in Key
  BY <1>1, <1>2, EraseUnderWay
<1>4. /\ Kept(t, t', live \ {z})
      /\ \E x \in (live \ {z}) \cup {nil} :
           Gapped(t', live \ {z}, x) /\ call' = [call EXCEPT !.x = x]
  BY <1>3, EraseRound
<1>5. PICK x : Gapped(t', live \ {z}, x) /\ call' = [call EXCEPT !.x = x]
  BY <1>4
<1>6. z \in live /\ call' = [op |-> "erase_fix", z |-> z, x |-> x]
  BY <1>2, <1>3, <1>5
<1>7. /\ \A d \in Sides : \A n \in Ref \ live : t'.child[d][n] = nil
      /\ \A d \in Sides : t'.child[d][z] \in (live \ {z}) \cup {nil}
      /\ \A n \in live : t'.key[n] \in Key
  BY <1>3, <1>4, <1>6 DEF Kept
<1>8. live' = live /\ DeleteFreesAll'
  BY <1>1, <1>3 DEF DeleteFreesAll
<1> QED BY <1>3, <1>5, <1>6, <1>7, <1>8, EraseStep

(* rbtree_erase returns after a rebuild.                                   *)
LEMMA EraseReturns == ASSUME IInv, EndEraseFix PROVE IInv'
<1> USE NilIsNoNode
<1>1. PICK z, x, s : z = call.z /\ x = call.x /\ s = recolor(t, x, BLACK)
  OBVIOUS
<1>2. /\ call.op = "erase_fix"
      /\ x = t.root \/ t.color[x] # BLACK
      /\ EndErase(s, z)
  BY <1>1 DEF EndEraseFix
<1>3. call.op = "erase_fix"
  BY DEF EndEraseFix
<1>4. /\ live \subseteq Node /\ IsFiniteSet(live)
      /\ call \in [op : {"erase_fix"}, z : live, x : Linked \cup {nil}]
      /\ Gapped(t, live \ {z}, x)
      /\ \A d \in Sides : \A n \in Ref \ live : t.child[d][n] = nil
      /\ \A n \in live : t.key[n] \in Key
  BY <1>1, <1>3, EraseUnderWay
<1>5. z \in live
  BY <1>1, <1>4
<1>6. Fits(s, live \ {z}, NoGap, nil, nil) /\ Kept(t, s, live \ {z})
  BY <1>1, <1>2, <1>4, EraseEnd
<1>7. s.key = t.key /\ \A d \in Sides : \A n \in Ref \ live : s.child[d][n] = nil
  BY <1>4, <1>6 DEF Kept
<1> QED BY <1>2, <1>4, <1>5, <1>6, <1>7, EraseEnds

----------------------------------------------------------------------------
(* The recursive functions of the properties *)

(* Nothing that is not linked leads anywhere but into the tree.            *)
Inward(s, L) == \A d \in Sides : \A n \in Ref \ L : s.child[d][n] \in L \cup {nil}

(* What the pointers reach from a node is what is under it.                *)
LEMMA SubtreeIs ==
  ASSUME NEW s, NEW L, NEW U, Links(s, L), Under(s, L, U), Inward(s, L)
  PROVE  \A n \in L \cup {nil} : Subtree(s)[n] = U[n]
<1> USE TwoSides, NilIsNoNode
<1> DEFINE F(f) == [n \in Ref |-> IF n = nil THEN {}
                                  ELSE f[s.child["left"][n]] \cup {n}
                                         \cup f[s.child["right"][n]]]
           V == [n \in Ref |-> IF n = nil THEN {}
                               ELSE U[s.child["left"][n]] \cup {n}
                                      \cup U[s.child["right"][n]]]
           f == Subtree(s)
<1>1. /\ U[nil] = {} /\ L \subseteq Ref /\ nil \notin L
      /\ \A n \in L : U[n] = U[s.child["left"][n]] \cup {n} \cup U[s.child["right"][n]]
      /\ \A d \in Sides : \A n \in Ref : s.child[d][n] \in L \cup {nil}
  BY DEF Links, Under, Inward
<1>2. \A n \in L \cup {nil} : V[n] = U[n]
  BY <1>1
<1>3. V = F(V)
  <2>1. \A n \in Ref : V[s.child["left"][n]] = U[s.child["left"][n]]
                       /\ V[s.child["right"][n]] = U[s.child["right"][n]]
    BY <1>1, <1>2
  <2> QED BY <2>1
<1>4. f = CHOOSE g : g = F(g)
  BY DEF Subtree
<1> HIDE DEF V
<1>5. f = F(f)
  <2> HIDE DEF F, f
  <2> QED BY <1>3, <1>4
<1>6. /\ f[nil] = {}
      /\ \A n \in L : f[n] = f[s.child["left"][n]] \cup {n} \cup f[s.child["right"][n]]
  <2> HIDE DEF f
  <2> QED BY <1>1, <1>5
<1> DEFINE T == {n \in L : f[n] # U[n]}
<1> HIDE DEF f
<1>7. T = {}
  <2>1. SUFFICES ASSUME T # {} PROVE FALSE
    OBVIOUS
  <2>2. T \subseteq L
    OBVIOUS
  <2>3. PICK n \in T : \A d \in Sides : s.child[d][n] \notin T
    <3> HIDE DEF T
    <3> QED BY <2>1, <2>2, Lowest
  <2>4. ASSUME NEW d \in Sides PROVE f[s.child[d][n]] = U[s.child[d][n]]
    <3>1. PICK c : c = s.child[d][n]
      OBVIOUS
    <3>2. c \in L \cup {nil} /\ c \notin T
      BY <1>1, <2>3, <3>1
    <3>3. f[nil] = U[nil]
      BY <1>1, <1>6
    <3> QED BY <3>1, <3>2, <3>3
  <2>5. n \in L /\ f[n] # U[n]
    BY <2>3
  <2>6. /\ f[s.child["left"][n]] = U[s.child["left"][n]]
        /\ f[s.child["right"][n]] = U[s.child["right"][n]]
    BY <2>4
  <2>7. f[n] = f[s.child["left"][n]] \cup {n} \cup f[s.child["right"][n]]
    BY <1>6, <2>5
  <2>8. U[n] = U[s.child["left"][n]] \cup {n} \cup U[s.child["right"][n]]
    BY <1>1, <2>5
  <2> QED BY <2>5, <2>6, <2>7, <2>8
<1> QED BY <1>1, <1>6, <1>7 DEF f

(* A node stands on one side of its parent only, and the code finds it.    *)
LEMMA GapIsSideOf ==
  ASSUME NEW s, NEW L, NEW x, x # s.root, NEW gap \in Gap, GapAt(s, L, x, gap),
         NEW skip, NEW mid, Fits(s, L, gap, skip, mid)
  PROVE  /\ gap.d = SideOf(s, x) /\ gap.n = s.parent[x]
         /\ s.child[gap.d][gap.n] = x
         /\ s.child[Other(gap.d)][gap.n] \in L
         /\ s.child[Other(gap.d)][gap.n] # x
<1>1. gap.n = s.parent[x] /\ gap.n \in L /\ gap.d \in Sides /\ s.child[gap.d][gap.n] = x
  BY DEF GapAt
<1>2. /\ s.child[Other(gap.d)][gap.n] \in L
      /\ s.child[gap.d][gap.n] # s.child[Other(gap.d)][gap.n]
  BY <1>1, RealSibling
<1>3. gap.d = SideOf(s, x)
  BY <1>1, <1>2 DEF SideOf, Sides, Other
<1> QED BY <1>1, <1>2, <1>3

(* The extra black node that BlackBalanced counts is the gap.              *)
ExtraBlack(p, n) ==
  IF call.op = "erase_fix" /\ n = call.x /\ p = t.parent[n] THEN 1 ELSE 0

(* It is counted between a node and its child on the side of the gap.      *)
LEMMA ExtraIsGap ==
  ASSUME NEW U, NEW B, NEW gap, IInvAt(U, B, gap), NEW n \in Linked, NEW d \in Sides
  PROVE  ExtraBlack(n, t.child[d][n]) = Extra(gap, n, d)
<1> USE TwoSides, NilIsNoNode
<1>1. PICK L, x, c : L = Linked /\ x = call.x /\ c = t.child[d][n]
  OBVIOUS
<1>2. /\ Shape(t, L, U) /\ gap \in Gap /\ Heights(t, L, B, gap) /\ Reds(t, L, Skip, Mid)
      /\ CallInv(U, gap)
  BY <1>1 DEF IInvAt
<1>3. Links(t, L) /\ Under(t, L, U) /\ n \in L /\ n # nil
  BY <1>1, <1>2 DEF Shape, Links
<1>4. CASE call.op # "erase_fix"
  BY <1>2, <1>3, <1>4 DEF CallInv, ExtraBlack, Extra, NoGap
<1>5. CASE call.op = "erase_fix" /\ x = t.root
  <2>1. gap = NoGap
    BY <1>1, <1>2, <1>5 DEF CallInv, GapAt
  <2>2. c # x
    <3>1. t.root # nil
      BY <1>3 DEF Under
    <3> QED BY <1>1, <1>3, <1>5, <3>1, Children
  <2> QED BY <1>1, <1>3, <2>1, <2>2 DEF ExtraBlack, Extra, NoGap
<1>6. CASE call.op = "erase_fix" /\ x # t.root
  <2>1. GapAt(t, L, x, gap)
    BY <1>1, <1>2, <1>6 DEF CallInv
  <2>2. Fits(t, L, gap, Skip, Mid)
    BY <1>2 DEF Fits
  <2>3. /\ gap.n = t.parent[x] /\ t.child[gap.d][gap.n] = x
        /\ t.child[Other(gap.d)][gap.n] # x /\ gap.d \in Sides
    BY <1>2, <1>6, <2>1, <2>2, GapIsSideOf DEF Gap
  <2>4. c = x /\ n = t.parent[x] <=> n = gap.n /\ d = gap.d
    <3>1. d = gap.d \/ d = Other(gap.d)
      BY <2>3
    <3> QED BY <1>1, <2>3, <3>1
  <2>5. ExtraBlack(n, c) = IF c = x /\ n = t.parent[x] THEN 1 ELSE 0
    BY <1>1, <1>6 DEF ExtraBlack
  <2> QED BY <1>1, <2>4, <2>5 DEF Extra
<1> QED BY <1>4, <1>5, <1>6

(* The invariant gives the facts the properties are made of.               *)
LEMMA Invariants ==
  ASSUME NEW U, NEW B, NEW gap, IInvAt(U, B, gap)
  PROVE  /\ CallOK /\ live \subseteq Node /\ Linked \subseteq live
         /\ Links(t, Linked) /\ Under(t, Linked, U) /\ Ordered(t, Linked, U)
         /\ gap \in Gap /\ Heights(t, Linked, B, gap) /\ Reds(t, Linked, Skip, Mid)
         /\ CallInv(U, gap) /\ DeleteFreesAll
         /\ Inward(t, Linked)
         /\ \A n \in Linked \cup {nil} : Subtree(t)[n] = U[n]
<1>1. /\ CallOK /\ live \subseteq Node /\ Linked \subseteq live
      /\ Links(t, Linked) /\ Under(t, Linked, U) /\ Ordered(t, Linked, U)
      /\ gap \in Gap /\ Heights(t, Linked, B, gap) /\ Reds(t, Linked, Skip, Mid)
      /\ CallInv(U, gap) /\ DeleteFreesAll
  BY DEF IInvAt, Shape, Linked
<1>2. Inward(t, Linked)
  BY DEF IInvAt, Strays, Inward
<1> QED BY <1>1, <1>2, SubtreeIs

(* The types.                                                              *)
LEMMA TypeFollows == IInv => TypeOK
<1> SUFFICES ASSUME IInv PROVE TypeOK
  OBVIOUS
<1>1. PICK U, B, gap : IInvAt(U, B, gap)
  BY DEF IInv
<1>2. CallOK /\ live \subseteq Node /\ Linked \subseteq live /\ Links(t, Linked)
  BY <1>1, Invariants
<1>3. t \in Tree
  BY <1>2 DEF Links
<1>4. \/ call = Idle
      \/ call \in [op : {"descend"}, z : live, y : live \cup {nil}, x : live \cup {nil}]
      \/ call \in [op : {"insert_fix"}, new : live, z : live]
      \/ call \in [op : {"successor"}, z : live, y : live]
      \/ call \in [op : {"erase_fix"}, z : live, x : live \cup {nil}]
      \/ call \in [op : {"find"}, key : Key, x : live \cup {nil}]
      \/ call \in [op : {"min", "max"}, x : live \cup {nil}]
  <2> HIDE DEF Linked
  <2> QED BY <1>2 DEF CallOK
<1> QED BY <1>2, <1>3, <1>4 DEF TypeOK, Tree

(* Parents and children agree.                                             *)
LEMMA ParentLinksFollow == IInv => ParentLinks
<1> SUFFICES ASSUME IInv PROVE ParentLinks
  OBVIOUS
<1>1. PICK U, B, gap : IInvAt(U, B, gap)
  BY DEF IInv
<1>2. PICK L : L = Linked
  OBVIOUS
<1>3. Links(t, L) /\ Under(t, L, U)
  BY <1>1, <1>2, Invariants
<1>4. t.root = nil \/ (t.root \in L /\ t.parent[t.root] = nil)
  BY <1>3 DEF Links
<1>5. ASSUME NEW n \in L, NEW d \in Sides, t.child[d][n] # nil
      PROVE  /\ t.child[d][n] \in L /\ t.parent[t.child[d][n]] = n
             /\ t.child[d][n] # t.child[Other(d)][n]
  BY <1>3, <1>5, Children
<1> QED BY <1>2, <1>4, <1>5 DEF ParentLinks

(* The sentinel is as new_rbtree made it, and no sibling is the sentinel.  *)
LEMMA SentinelFollows == IInv => SentinelIntact
<1> SUFFICES ASSUME IInv PROVE SentinelIntact
  OBVIOUS
<1>1. PICK U, B, gap : IInvAt(U, B, gap)
  BY DEF IInv
<1>2. PICK L, x : L = Linked /\ x = call.x
  OBVIOUS
<1>3. Links(t, L) /\ Heights(t, L, B, gap) /\ CallInv(U, gap) /\ gap \in Gap
  BY <1>1, <1>2, Invariants
<1>4. Fits(t, L, gap, Skip, Mid)
  BY <1>1, <1>2 DEF IInvAt, Fits
<1>5. t.color[nil] = BLACK /\ \A d \in Sides : t.child[d][nil] = nil
  BY <1>3 DEF Links, Heights
<1>6. ASSUME call.op = "erase_fix", x # t.root
      PROVE  t.child[Other(SideOf(t, x))][t.parent[x]] \in L
  <2>1. GapAt(t, L, x, gap)
    BY <1>2, <1>3, <1>6 DEF CallInv
  <2>2. /\ gap.d = SideOf(t, x) /\ gap.n = t.parent[x]
        /\ t.child[Other(gap.d)][gap.n] \in L
    BY <1>3, <1>4, <1>6, <2>1, GapIsSideOf
  <2> QED BY <2>2
<1> QED BY <1>2, <1>5, <1>6 DEF SentinelIntact

(* The root reaches what is linked.                                        *)
LEMMA ReachableFollows == IInv => AllReachable
<1> SUFFICES ASSUME IInv PROVE AllReachable
  OBVIOUS
<1>1. PICK U, B, gap : IInvAt(U, B, gap)
  BY DEF IInv
<1>2. PICK L : L = Linked
  OBVIOUS
<1>3. /\ Links(t, L) /\ Under(t, L, U)
      /\ \A n \in L \cup {nil} : Subtree(t)[n] = U[n]
  BY <1>1, <1>2, Invariants
<1>4. t.root \in L \cup {nil} /\ U[t.root] = L
  BY <1>3 DEF Links, Under
<1> QED BY <1>2, <1>3, <1>4 DEF AllReachable

(* The keys are in order.                                                  *)
LEMMA SearchOrderFollows == IInv => SearchOrder
<1> SUFFICES ASSUME IInv PROVE SearchOrder
  OBVIOUS
<1>1. PICK U, B, gap : IInvAt(U, B, gap)
  BY DEF IInv
<1>2. PICK L : L = Linked
  OBVIOUS
<1>3. /\ Links(t, L) /\ Ordered(t, L, U)
      /\ \A n \in L \cup {nil} : Subtree(t)[n] = U[n]
  BY <1>1, <1>2, Invariants
<1>4. \A d \in Sides : \A n \in L : t.child[d][n] \in L \cup {nil}
  BY <1>3 DEF Links
<1>5. ASSUME NEW n \in L
      PROVE  /\ \A m \in Subtree(t)[t.child["left"][n]] : t.key[m] <= t.key[n]
             /\ \A m \in Subtree(t)[t.child["right"][n]] : t.key[n] <= t.key[m]
  <2>1. ASSUME NEW d \in Sides, NEW m \in Subtree(t)[t.child[d][n]]
        PROVE  Before(d, t.key[m], t.key[n])
    BY <1>3, <1>4 DEF Ordered
  <2> QED BY <2>1, TwoSides DEF Before
<1> QED BY <1>2, <1>5 DEF SearchOrder

(* No red node below a red one.                                            *)
LEMMA NoRedRedFollows == IInv => NoRedRed
<1> SUFFICES ASSUME IInv PROVE NoRedRed
  OBVIOUS
<1>1. PICK U, B, gap : IInvAt(U, B, gap)
  BY DEF IInv
<1>2. PICK L : L = Linked
  OBVIOUS
<1>3. Links(t, L) /\ Heights(t, L, B, gap) /\ Reds(t, L, Skip, Mid)
  BY <1>1, <1>2, Invariants
<1>4. ASSUME NEW n \in L, ColorOf(n) = RED, ~(call.op = "insert_fix" /\ n = call.z)
      PROVE  n # t.root /\ ColorOf(t.parent[n]) = BLACK
  <2>1. n # nil
    BY <1>3, NilIsNoNode DEF Links
  <2>2. t.color[n] = RED /\ n # Skip /\ n # Mid
    BY <1>4, <2>1, TwoColors DEF ColorOf, Skip, Mid
  <2>3. n # t.root /\ (t.color[t.parent[n]] = BLACK \/ t.parent[n] = Mid)
    BY <1>3, <2>2 DEF Reds
  <2>4. t.color[nil] = BLACK
    BY <1>3 DEF Heights
  <2> QED BY <2>3, <2>4 DEF ColorOf, Mid
<1> QED BY <1>2, <1>4 DEF NoRedRed

(* All paths pass the same number of black nodes.                          *)
LEMMA BlackBalancedFollows == IInv => BlackBalanced
<1> USE TwoSides, NilIsNoNode
<1> SUFFICES ASSUME IInv PROVE BlackBalanced
  OBVIOUS
<1>1. PICK U, B, gap : IInvAt(U, B, gap)
  BY DEF IInv
<1>2. PICK L : L = Linked
  OBVIOUS
<1>3. /\ Links(t, L) /\ Under(t, L, U) /\ Heights(t, L, B, gap) /\ Inward(t, L)
  BY <1>1, <1>2, Invariants
<1> DEFINE left(n) == t.child["left"][n]
           right(n) == t.child["right"][n]
           weight(p, n) == (IF t.color[n] = BLACK THEN 1 ELSE 0)
                             + (IF call.op = "erase_fix" /\ n = call.x /\ p = t.parent[n]
                                THEN 1 ELSE 0)
           F(f) == [n \in Ref |-> IF n = nil THEN 0 ELSE weight(n, left(n)) + f[left(n)]]
           b == CHOOSE f : f = F(f)
           H == [n \in Ref |-> B[n] - Weight(t, n)]
           W == [n \in Ref |-> IF n \in L \cup {nil} THEN H[n]
                               ELSE weight(n, left(n)) + H[left(n)]]
<1>4. /\ L \subseteq Ref /\ nil \notin L
      /\ \A d \in Sides : \A n \in Ref : t.child[d][n] \in L \cup {nil}
      /\ B \in [Ref -> Nat \ {0}] /\ B[nil] = 1 /\ t.color[nil] = BLACK
  BY <1>3 DEF Links, Inward, Heights
<1>5. \A p : \A n \in Ref : weight(p, n) = Weight(t, n) + ExtraBlack(p, n)
  BY DEF Weight, ExtraBlack
<1>6. \A n \in Ref : Weight(t, n) \in {0, 1} /\ H[n] \in Int /\ H[n] = B[n] - Weight(t, n)
  BY <1>4 DEF Weight
<1>7. H[nil] = 0
  BY <1>4, <1>6 DEF Weight
<1>8. ASSUME NEW d \in Sides, NEW n \in L
      PROVE  H[n] = weight(n, t.child[d][n]) + H[t.child[d][n]]
  <2>1. PICK c : c = t.child[d][n]
    OBVIOUS
  <2>2. c \in Ref /\ n \in Ref
    BY <1>4, <2>1
  <2>3. weight(n, c) = Weight(t, c) + Extra(gap, n, d)
    <3>1. ExtraBlack(n, c) = Extra(gap, n, d)
      BY <1>1, <1>2, <2>1, ExtraIsGap
    <3> QED BY <1>5, <2>2, <3>1
  <2>4. B[n] = Weight(t, n) + B[c] + Extra(gap, n, d)
    BY <1>3, <2>1 DEF Heights
  <2>5. H[n] = B[n] - Weight(t, n) /\ H[c] = B[c] - Weight(t, c)
    BY <1>6, <2>2
  <2>6. /\ B[n] \in Nat /\ B[c] \in Nat /\ Weight(t, n) \in {0, 1} /\ Weight(t, c) \in {0, 1}
        /\ Extra(gap, n, d) \in {0, 1}
    BY <1>4, <1>6, <2>2 DEF Extra
  <2> HIDE DEF weight, H
  <2>7. H[n] = weight(n, c) + H[c]
    BY <2>3, <2>4, <2>5, <2>6
  <2> QED BY <2>1, <2>7
<1> HIDE DEF weight, H
<1>9. /\ \A n \in L \cup {nil} : W[n] = H[n]
      /\ \A n \in Ref \ (L \cup {nil}) : W[n] = weight(n, left(n)) + H[left(n)]
  BY <1>4
<1>10. W = F(W)
  <2>1. ASSUME NEW n \in Ref
        PROVE  W[n] = IF n = nil THEN 0 ELSE weight(n, left(n)) + W[left(n)]
    <3> HIDE DEF W
    <3>1. left(n) \in L \cup {nil} /\ W[left(n)] = H[left(n)]
      BY <1>4, <1>9
    <3>2. CASE n = nil
      BY <1>7, <1>9, <3>2
    <3>3. CASE n \in L
      <4>1. H[n] = weight(n, left(n)) + H[left(n)]
        BY <1>8, <3>3
      <4>2. n # nil
        BY <1>4, <3>3
      <4> QED BY <1>9, <3>1, <3>3, <4>1, <4>2
    <3>4. CASE n \notin L \cup {nil}
      <4>1. W[n] = weight(n, left(n)) + H[left(n)]
        BY <1>9, <3>4
      <4> QED BY <3>1, <3>4, <4>1
    <3> QED BY <3>2, <3>3, <3>4
  <2> HIDE DEF left
  <2>2. W = [n \in Ref |-> W[n]]
    OBVIOUS
  <2> HIDE DEF W
  <2> QED BY <2>1, <2>2
<1> HIDE DEF W
<1>11. b = F(b)
  <2> HIDE DEF F
  <2> QED BY <1>10
<1> HIDE DEF b
<1>12. /\ b[nil] = 0
       /\ \A n \in L : b[n] = weight(n, left(n)) + b[left(n)]
  BY <1>4, <1>11
<1> DEFINE T == {n \in L : b[n] # H[n]}
<1>13. T = {}
  <2>1. SUFFICES ASSUME T # {} PROVE FALSE
    OBVIOUS
  <2>2. T \subseteq L
    OBVIOUS
  <2>3. PICK n \in T : \A d \in Sides : t.child[d][n] \notin T
    <3> HIDE DEF T
    <3> QED BY <1>3, <2>1, <2>2, Lowest
  <2>4. n \in L /\ b[n] # H[n]
    BY <2>3
  <2>5. left(n) \in L \cup {nil} /\ left(n) \notin T
    BY <1>4, <2>3, <2>4
  <2>6. b[left(n)] = H[left(n)]
    BY <1>7, <1>12, <2>5
  <2>7. b[n] = weight(n, left(n)) + b[left(n)]
    BY <1>12, <2>4
  <2>8. H[n] = weight(n, left(n)) + H[left(n)]
    BY <1>8, <2>4
  <2> QED BY <2>4, <2>6, <2>7, <2>8
<1>14. \A n \in L \cup {nil} : b[n] = H[n]
  BY <1>7, <1>12, <1>13
<1>15. ASSUME NEW n \in L PROVE b[n] = weight(n, right(n)) + b[right(n)]
  <2>1. right(n) \in L \cup {nil}
    BY <1>4
  <2>2. H[n] = weight(n, right(n)) + H[right(n)]
    BY <1>8
  <2> QED BY <1>14, <2>1, <2>2
<1>16. \A n \in Linked : LET c == t.child["right"][n] IN b[n] = weight(n, c) + b[c]
  BY <1>2, <1>15
<1> QED BY <1>16 DEF BlackBalanced, b, weight

----------------------------------------------------------------------------
(* The invariant *)

(* A new tree.                                                             *)
LEMMA EmptyFits ==
  /\ Fits(Empty, {}, NoGap, nil, nil)
  /\ \A d \in Sides : \A n \in Ref : Empty.child[d][n] = nil
<1> USE TwoSides, NilIsNoNode
<1>1. /\ Empty.root = nil /\ Empty.color[nil] = BLACK
      /\ \A d \in Sides : \A n \in Ref : Empty.child[d][n] = nil
  BY DEF Empty
<1>2. Empty \in Tree
  <2>1. /\ [n \in Ref |-> IF n = nil THEN BLACK ELSE RED] \in [Ref -> {RED, BLACK}]
        /\ [n \in Ref |-> 0] \in [Ref -> Key \cup {0}]
        /\ [n \in Ref |-> nil] \in [Ref -> Ref]
    OBVIOUS
  <2>2. [d \in Sides |-> [n \in Ref |-> nil]] \in [Sides -> [Ref -> Ref]]
    BY <2>1
  <2> HIDE DEF Ref, Sides, RED, BLACK
  <2> QED BY <2>1, <2>2 DEF Empty, Tree
<1>3. PICK U, B : U = [n \in Ref |-> {}] /\ B = [n \in Ref |-> 1]
  OBVIOUS
<1>4. IsFiniteSet({})
  BY FS_EmptySet
<1>5. Links(Empty, {})
  BY <1>1, <1>2, <1>4 DEF Links
<1>6. Under(Empty, {}, U)
  BY <1>1, <1>3 DEF Under
<1>7. Ordered(Empty, {}, U)
  BY DEF Ordered
<1>8. Heights(Empty, {}, B, NoGap)
  BY <1>1, <1>3 DEF Heights
<1>9. Reds(Empty, {}, nil, nil)
  BY DEF Reds
<1> QED BY <1>1, <1>5, <1>6, <1>7, <1>8, <1>9 DEF Fits, Shape

(* delete_rbtree frees all, and a new tree takes the place of the old one. *)
LEMMA Recreates == ASSUME IInv, Recreate PROVE IInv'
<1> USE NilIsNoNode
<1>1. PICK U, B, gap : IInvAt(U, B, gap)
  BY DEF IInv
<1>2. call = Idle /\ call' = Idle /\ t' = Empty /\ live' = live \ Subtree(t)[t.root]
  BY DEF Recreate
<1>3. Linked = live
  BY <1>2 DEF Linked, Detached, Idle
<1>4. /\ Links(t, live) /\ Under(t, live, U)
      /\ \A n \in live \cup {nil} : Subtree(t)[n] = U[n]
  BY <1>1, <1>3, Invariants
<1>5. Subtree(t)[t.root] = live
  BY <1>4 DEF Links, Under
<1>6. live' = {} /\ live' \subseteq Node /\ IsFiniteSet(live')
  BY <1>2, <1>5, FS_EmptySet
<1>7. /\ Fits(t', live', NoGap, nil, nil)
      /\ \A d \in Sides : \A n \in Ref \ live' : t'.child[d][n] = nil
  BY <1>2, <1>6, EmptyFits
<1>8. DeleteFreesAll' /\ \A n \in live' : t'.key[n] \in Key
  BY <1>6 DEF DeleteFreesAll
<1> QED BY <1>2, <1>6, <1>7, <1>8, TreeInOrder

(* The invariant holds in the initial states.                              *)
LEMMA InitHolds == Init => IInv
<1> SUFFICES ASSUME Init PROVE IInv
  OBVIOUS
<1>1. t = Empty /\ live = {} /\ call = Idle
  BY DEF Init
<1>2. Linked = {} /\ Skip = nil /\ Mid = nil
  BY <1>1 DEF Linked, Detached, Skip, Mid, Idle
<1>3. PICK U, B : Shape(t, {}, U) /\ Heights(t, {}, B, NoGap) /\ Reds(t, {}, nil, nil)
  BY <1>1, EmptyFits DEF Fits
<1>4. CallOK /\ CallInv(U, NoGap)
  BY <1>1 DEF CallOK, CallInv, Idle
<1>5. Strays
  BY <1>1, <1>2, EmptyFits DEF Strays, Idle
<1>6. NoGap \in Gap
  BY NilIsNoNode DEF NoGap, Gap, Sides
<1>7. DeleteFreesAll /\ live \subseteq Node /\ IsFiniteSet(live) /\ \A n \in live : t.key[n] \in Key
  BY <1>1, FS_EmptySet DEF DeleteFreesAll
<1>8. IInvAt(U, B, NoGap)
  BY <1>2, <1>3, <1>4, <1>5, <1>6, <1>7 DEF IInvAt
<1> QED BY <1>8 DEF IInv

(* Every step keeps the invariant.                                         *)
LEMMA NextKeeps == IInv /\ [Next]_vars => IInv'
<1> SUFFICES ASSUME IInv, [Next]_vars PROVE IInv'
  OBVIOUS
<1>1. CASE UNCHANGED vars
  BY <1>1 DEF vars, IInv, IInvAt, CallOK, Linked, Detached, Skip, Mid, Strays, CallInv,
              Descending, ToSuccessor, Finding, ToEnd, DeleteFreesAll, side_for
<1>2. CASE \/ \E k \in Key : BeginFind(k)
           \/ \E op \in DOMAIN EndOf : BeginWalk(op)
  BY <1>2, WalkBegins
<1>3. CASE \E k \in Key : \E z \in Node : BeginInsert(z, k)
  BY <1>3, InsertBegins
<1>4. CASE (\E z \in Node : EraseNear(z)) \/ EraseFar
  BY <1>4, Erases
<1>5. CASE \E z \in Node : BeginEraseFar(z)
  BY <1>5, SuccessorBegins
<1>6. CASE EndFind \/ EndWalk \/ \E p \in {NULL, nil} : EraseNothing(p)
  BY <1>6, WalkReturns
<1>7. CASE Recreate
  BY <1>7, Recreates
<1>8. CASE Descend
  BY <1>8, DescentGoesOn
<1>9. CASE Attach
  BY <1>9, InsertAttaches
<1>10. CASE InsertFixRound
  BY <1>10, InsertRebuilds
<1>11. CASE EndInsert
  BY <1>11, InsertReturns
<1>12. CASE WalkToSuccessor
  BY <1>12, SuccessorGoesOn
<1>14. CASE EraseFixRound
  BY <1>14, EraseRebuilds
<1>15. CASE EndEraseFix
  BY <1>15, EraseReturns
<1>16. CASE FindStep
  BY <1>16, FindGoesOn
<1>17. CASE WalkStep
  BY <1>17, WalkGoesOn
<1> QED
  BY <1>1, <1>2, <1>3, <1>4, <1>5, <1>6, <1>7, <1>8, <1>9, <1>10, <1>11, <1>12, <1>14,
     <1>15, <1>16, <1>17 DEF Next, Round

(* In every state some U and some B fit the tree and the call in progress. *)
THEOREM Invariance == Spec => []IInv
  BY InitHolds, NextKeeps, PTL DEF Spec

----------------------------------------------------------------------------
(* The properties the runs check *)

(* Every variable has its type, and a call stands on allocated nodes.      *)
THEOREM TypeCorrect == Spec => []TypeOK
  BY Invariance, TypeFollows, PTL

(* Parent and child pointers agree whatever rotation or relinking is done. *)
THEOREM LinksAgree == Spec => []ParentLinks
  BY Invariance, ParentLinksFollow, PTL

(* The rebuild of rbtree_erase never recolours the sentinel for a sibling. *)
THEOREM SentinelStays == Spec => []SentinelIntact
  BY Invariance, SentinelFollows, PTL

(* No step of the code loses a node.                                       *)
THEOREM NothingLost == Spec => []AllReachable
  BY Invariance, ReachableFollows, PTL

(* delete_rbtree frees all nodes.                                          *)
THEOREM DeleteFrees == Spec => []DeleteFreesAll
<1>1. IInv => DeleteFreesAll
  BY DEF IInv, IInvAt
<1> QED BY Invariance, <1>1, PTL

(* The keys are in order, in the middle of a rebuild too.                  *)
THEOREM KeysInOrder == Spec => []SearchOrder
  BY Invariance, SearchOrderFollows, PTL

(* No red node has a red child, but for the node an insert stands at.      *)
THEOREM RedsApart == Spec => []NoRedRed
  BY Invariance, NoRedRedFollows, PTL

(* All paths down from a node pass the same number of black nodes.         *)
THEOREM Balanced == Spec => []BlackBalanced
  BY Invariance, BlackBalancedFollows, PTL

----------------------------------------------------------------------------
(* The tree is an ordered bag *)

(* What the bag holds: the nodes that are not being inserted.              *)
Keys == [n \in live \ Inserting |-> t.key[n]]

(* The bag stays as it is.                                                 *)
LEMMA BagStays ==
  ASSUME live' \ Inserting' = live \ Inserting,
         \A n \in live \ Inserting : t'.key[n] = t.key[n]
  PROVE  Keys' = Keys
  BY DEF Keys

(* The calls begin.                                                        *)
LEMMA CallsBegin ==
  ASSUME IInv, \/ \E k \in Key : BeginFind(k)
               \/ \E op \in DOMAIN EndOf : BeginWalk(op)
               \/ \E z \in Node : BeginEraseFar(z)
               \/ \E k \in Key : \E z \in Node : BeginInsert(z, k)
  PROVE  Bag!Begin
<1>1. call = Idle /\ Inserting = {} /\ ret' = Pending
  <2>1. call = Idle /\ ret' = Pending
    BY DEF BeginFind, BeginWalk, BeginEraseFar, BeginInsert
  <2> QED BY <2>1 DEF Idle, Inserting
<1>2. CASE \/ \E k \in Key : BeginFind(k)
           \/ \E op \in DOMAIN EndOf : BeginWalk(op)
           \/ \E z \in Node : BeginEraseFar(z)
  <2>1. Inserting' = {} /\ UNCHANGED <<t, live>>
    BY <1>2 DEF BeginFind, BeginWalk, BeginEraseFar, Inserting, EndOf
  <2>2. Keys' = Keys
    BY <1>1, <2>1, BagStays
  <2> QED BY <1>1, <2>2 DEF Bag!Begin, Keys, Pending
<1>3. ASSUME NEW k \in Key, NEW z \in Node, BeginInsert(z, k) PROVE Bag!Begin
  <2>1. /\ z \notin live /\ live' = live \cup {z} /\ Inserting' = {z}
        /\ t' = [t EXCEPT !.key[z] = k, !.color[z] = RED]
    BY <1>3 DEF BeginInsert, Inserting
  <2>2. t \in Tree /\ live \subseteq Node
    BY DEF IInv, IInvAt, Shape, Links
  <2>3. Prepared(t, [t EXCEPT !.key[z] = k, !.color[z] = RED], z, k)
    BY <1>3, <2>2, NilIsNoNode, SetKeyAndColor
  <2>4. \A n \in live : t'.key[n] = t.key[n]
    BY <2>1, <2>2, <2>3, NilIsNoNode DEF Prepared
  <2>5. Keys' = Keys
    BY <1>1, <2>1, <2>4, BagStays
  <2> QED BY <1>1, <2>5 DEF Bag!Begin, Keys, Pending
<1> QED BY <1>2, <1>3

(* The steps in the middle of a call are not seen.                         *)
LEMMA MiddleIsUnseen ==
  ASSUME IInv, \/ Descend \/ Attach \/ InsertFixRound \/ WalkToSuccessor
               \/ EraseFixRound \/ FindStep \/ WalkStep
  PROVE  Keys' = Keys /\ ret' = ret
<1>1. ret' = ret /\ live' = live
  BY DEF Descend, Attach, InsertFixRound, WalkToSuccessor, EraseFixRound, FindStep, WalkStep
<1>2. CallOK /\ t \in Tree
  BY DEF IInv, IInvAt, Shape, Links
<1>3. CASE Descend
  <2>1. call.op = "descend" /\ t' = t
    BY <1>3 DEF Descend
  <2>2. call \in [op : {"descend"}, z : live, y : Linked \cup {nil}, x : Linked \cup {nil}]
    BY <1>2, <2>1, Calls
  <2>3. call'.op = "descend" /\ call'.z = call.z
    BY <1>3, <2>2 DEF Descend
  <2> QED BY <1>1, <2>1, <2>3, BagStays DEF Inserting
<1>4. CASE Attach
  <2>1. /\ call.op = "descend"
        /\ call' = [op |-> "insert_fix", new |-> call.z, z |-> call.z]
    BY <1>4 DEF Attach
  <2>2. t'.key = t.key
    BY <1>2, <1>4 DEF Attach, Tree
  <2> QED BY <1>1, <2>1, <2>2, BagStays DEF Inserting
<1>5. CASE InsertFixRound
  <2>1. call.op = "insert_fix"
    BY <1>5 DEF InsertFixRound
  <2>2. /\ call \in [op : {"insert_fix"}, new : live, z : live]
        /\ Rebuilding(t, live, call.z)
    BY <2>1, InsertUnderWay
  <2>3. /\ Kept(t, t', live)
        /\ \E z \in live : Rebuilding(t', live, z) /\ call' = [call EXCEPT !.z = z]
    BY <1>5, <2>2, InsertRound
  <2>4. call'.op = "insert_fix" /\ call'.new = call.new
    BY <2>2, <2>3
  <2>5. t'.key = t.key
    BY <2>3 DEF Kept
  <2> QED BY <1>1, <2>1, <2>4, <2>5, BagStays DEF Inserting
<1>6. CASE EraseFixRound
  <2>1. call.op = "erase_fix"
    BY <1>6 DEF EraseFixRound
  <2>2. /\ call \in [op : {"erase_fix"}, z : live, x : Linked \cup {nil}]
        /\ Gapped(t, live \ {call.z}, call.x)
    BY <2>1, EraseUnderWay
  <2>3. /\ Kept(t, t', live \ {call.z})
        /\ \E x \in (live \ {call.z}) \cup {nil} :
             Gapped(t', live \ {call.z}, x) /\ call' = [call EXCEPT !.x = x]
    BY <1>6, <2>2, EraseRound
  <2>4. call'.op = "erase_fix"
    BY <2>2, <2>3
  <2>5. t'.key = t.key
    BY <2>3 DEF Kept
  <2> QED BY <1>1, <2>1, <2>4, <2>5, BagStays DEF Inserting
<1>7. CASE WalkToSuccessor \/ FindStep \/ WalkStep
  <2>1. t' = t /\ call.op \in {"successor", "find", "min", "max"}
    BY <1>7 DEF WalkToSuccessor, FindStep, WalkStep, Walking, EndOf
  <2>2. call'.op = call.op
    <3>1. call \in [op : {"successor"}, z : live, y : live]
          \/ call \in [op : {"find"}, key : Key, x : live \cup {nil}]
          \/ call \in [op : {"min", "max"}, x : live \cup {nil}]
      BY <1>2, <2>1, Calls
    <3> QED BY <1>7, <3>1 DEF WalkToSuccessor, FindStep, WalkStep
  <2> QED BY <1>1, <2>1, <2>2, BagStays DEF Inserting
<1> QED BY <1>3, <1>4, <1>5, <1>6, <1>7

(* rbtree_insert returns: the new node is in the bag.                      *)
LEMMA InsertIsInsert == ASSUME IInv, EndInsert PROVE \E n \in Node, k \in Key : Bag!Insert(n, k)
<1>1. /\ call.op = "insert_fix" /\ live' = live /\ call' = Idle
      /\ t.color[t.parent[call.z]] # RED
      /\ t' = recolor(t, t.root, BLACK)
      /\ ret' = Returned("insert", call.new)
  BY DEF EndInsert
<1>2. PICK z, k : z = call.new /\ k = t.key[z]
  OBVIOUS
<1>3. /\ live \subseteq Node
      /\ call \in [op : {"insert_fix"}, new : live, z : live]
      /\ Rebuilding(t, live, call.z)
      /\ \A n \in live : t.key[n] \in Key
  BY <1>1, InsertUnderWay
<1>4. t'.key = t.key
  BY <1>1, <1>3, InsertEnd DEF Kept
<1>5. z \in live /\ z \in Node /\ k \in Key
  BY <1>2, <1>3
<1>6. Inserting = {z} /\ Inserting' = {}
  BY <1>1, <1>2 DEF Inserting, Idle
<1>7. DOMAIN Keys = live \ {z} /\ \A n \in live \ {z} : Keys[n] = t.key[n]
  BY <1>6 DEF Keys
<1>8. Keys' = [n \in live |-> t.key[n]]
  BY <1>1, <1>4, <1>6 DEF Keys
<1>9. Keys' = [m \in DOMAIN Keys \cup {z} |-> IF m = z THEN k ELSE Keys[m]]
  BY <1>2, <1>5, <1>7, <1>8
<1>10. z \notin DOMAIN Keys
  BY <1>7
<1>11. Bag!Insert(z, k)
  BY <1>1, <1>2, <1>9, <1>10 DEF Bag!Insert, Bag!Members, Bag!Returned, Keys, Returned
<1> QED BY <1>5, <1>11

(* A node is freed: it leaves the bag.                                     *)
LEMMA EndIsErase ==
  ASSUME IInv, Inserting = {}, NEW s, NEW z \in live, EndErase(s, z), s.key = t.key, s \in Tree
  PROVE  \E n \in Bag!Members : Bag!Erase(n)
<1>1. PICK r : r = free(s, z)
  OBVIOUS
<1>2. t' = r /\ live' = live \ {z} /\ call' = Idle /\ ret' = Returned("erase", 1)
  BY <1>1 DEF EndErase
<1>3. live \subseteq Ref
  BY NilIsNoNode DEF IInv, IInvAt
<1>4. Freed(s, r, z)
  BY <1>1, <1>3, FreeEffect
<1>5. \A n \in live \ {z} : t'.key[n] = t.key[n]
  BY <1>2, <1>3, <1>4 DEF Freed
<1>6. Inserting' = {}
  BY <1>2 DEF Inserting, Idle
<1>7. DOMAIN Keys = live /\ \A n \in live : Keys[n] = t.key[n]
  BY DEF Keys
<1>8. Keys' = [n \in live \ {z} |-> t'.key[n]]
  BY <1>2, <1>6 DEF Keys
<1>9. Keys' = [m \in DOMAIN Keys \ {z} |-> Keys[m]]
  BY <1>5, <1>7, <1>8
<1>10. Bag!Erase(z)
  BY <1>2, <1>9 DEF Bag!Erase, Bag!Members, Bag!Returned, Keys, Returned
<1> QED BY <1>7, <1>10 DEF Bag!Members, Keys

(* rbtree_erase goes into its rebuild, or returns.                         *)
LEMMA EraseIsErase ==
  ASSUME IInv, (\E z \in Node : EraseNear(z)) \/ EraseFar
  PROVE  Bag!Begin \/ \E n \in Bag!Members : Bag!Erase(n)
<1>1. Inserting = {}
  BY DEF EraseNear, EraseFar, Inserting, Idle
<1>2. PICK s, z, x, color : Parted(s, z, x, color)
  BY PartsNear, PartsFar
<1>3. /\ z \in live /\ s.key = t.key /\ Spliced(s, z, x, color)
      /\ Unlinked(s, live \ {z}, x, color)
  BY <1>2 DEF Parted
<1>4. s \in Tree
  BY <1>3 DEF Unlinked, Gapped, Fits, Shape, Links
<1>5. CASE color = BLACK
  <2>1. /\ t' = s /\ live' = live /\ ret' = Pending
        /\ call' = [op |-> "erase_fix", z |-> z, x |-> x]
    BY <1>3, <1>5 DEF Spliced
  <2>2. Inserting' = {}
    BY <2>1 DEF Inserting
  <2>3. Keys' = Keys
    BY <1>1, <1>3, <2>1, <2>2, BagStays
  <2> QED BY <2>1, <2>3 DEF Bag!Begin, Keys, Pending
<1>6. CASE color # BLACK
  <2>1. EndErase(s, z)
    BY <1>3, <1>6 DEF Spliced
  <2> QED BY <1>1, <1>3, <1>4, <2>1, EndIsErase
<1> QED BY <1>5, <1>6

(* rbtree_erase returns after its rebuild.                                 *)
LEMMA EraseEndIsErase ==
  ASSUME IInv, EndEraseFix
  PROVE  \E n \in Bag!Members : Bag!Erase(n)
<1>1. PICK z, x, s : z = call.z /\ x = call.x /\ s = recolor(t, x, BLACK)
  OBVIOUS
<1>2. /\ call.op = "erase_fix"
      /\ x = t.root \/ t.color[x] # BLACK
      /\ EndErase(s, z)
  BY <1>1 DEF EndEraseFix
<1>3. call.op = "erase_fix"
  BY DEF EndEraseFix
<1>4. /\ call \in [op : {"erase_fix"}, z : live, x : Linked \cup {nil}]
      /\ Gapped(t, live \ {z}, x)
  BY <1>1, <1>3, EraseUnderWay
<1>5. Fits(s, live \ {z}, NoGap, nil, nil) /\ Kept(t, s, live \ {z})
  BY <1>1, <1>2, <1>4, EraseEnd
<1>6. s \in Tree /\ s.key = t.key
  BY <1>5 DEF Fits, Shape, Links, Kept
<1>7. z \in live /\ Inserting = {}
  BY <1>1, <1>3, <1>4 DEF Inserting
<1> QED BY <1>2, <1>6, <1>7, EndIsErase

(* rbtree_find returns a node with the key, or finds that there is none.   *)
LEMMA FindIsFind == ASSUME IInv, EndFind PROVE \E k \in Key : Bag!Find(k)
<1>1. PICK U, B, gap : IInvAt(U, B, gap)
  BY DEF IInv
<1>2. PICK x, k : x = call.x /\ k = call.key
  OBVIOUS
<1>3. /\ call.op = "find" /\ (x = nil \/ k = t.key[x])
      /\ call' = Idle /\ UNCHANGED <<t, live>>
      /\ ret' = Returned("find", [key |-> k, node |-> IF x = nil THEN NULL ELSE x])
  BY <1>2 DEF EndFind
<1>4. Steady /\ Linked = live
  BY <1>1, <1>3, SteadyTree DEF Steady
<1>5. Under(t, live, U) /\ CallOK /\ CallInv(U, NoGap)
  BY <1>1, <1>4, SteadyTree
<1>6. call \in [op : {"find"}, key : Key, x : live \cup {nil}]
  BY <1>3, <1>5, Calls
<1>7. x \in live \cup {nil} /\ k \in Key
  BY <1>2, <1>6
<1>8. \A m \in live : t.key[m] = k => m \in U[x]
  BY <1>2, <1>3, <1>5 DEF CallInv, Finding
<1>9. Inserting = {} /\ Inserting' = {}
  BY <1>3 DEF Inserting, Idle
<1>10. Keys' = Keys
  BY <1>3, <1>9, BagStays
<1>11. DOMAIN Keys = live /\ \A n \in live : Keys[n] = t.key[n]
  BY <1>9 DEF Keys
<1>12. PICK found : found = {n \in DOMAIN Keys : Keys[n] = k}
  OBVIOUS
<1>13. PICK n : n = IF x = nil THEN NULL ELSE x
  OBVIOUS
<1>14. n \in IF found = {} THEN {NULL} ELSE found
  <2>1. CASE x = nil
    <3>1. U[x] = {}
      BY <1>5, <2>1 DEF Under
    <3>2. found = {}
      BY <1>8, <1>11, <1>12, <3>1
    <3> QED BY <1>13, <2>1, <3>2
  <2>2. CASE x # nil
    <3>1. x \in live /\ t.key[x] = k
      BY <1>3, <1>7, <2>2
    <3>2. x \in found
      BY <1>11, <1>12, <3>1
    <3> QED BY <1>13, <2>2, <3>2
  <2> QED BY <2>1, <2>2
<1>15. ret' = [op |-> "find", value |-> [key |-> k, node |-> n]]
  BY <1>3, <1>13 DEF Returned
<1>16. Bag!Find(k)
  BY <1>10, <1>12, <1>14, <1>15 DEF Bag!Find, Bag!Members, Bag!Returned, Keys
<1> QED BY <1>7, <1>16

(* rbtree_min and rbtree_max return an end of the bag.                     *)
LEMMA WalkIsEnd == ASSUME IInv, EndWalk PROVE Bag!Min \/ Bag!Max
<1> USE TwoSides, NilIsNoNode
<1>1. PICK U, B, gap : IInvAt(U, B, gap)
  BY DEF IInv
<1>2. PICK x, op, d : x = call.x /\ op = call.op /\ d = EndOf[call.op]
  OBVIOUS
<1>3. /\ op \in {"min", "max"} /\ (x = nil \/ t.child[d][x] = nil)
      /\ call' = Idle /\ UNCHANGED <<t, live>>
      /\ ret' = Returned(op, x)
  BY <1>2 DEF EndWalk, Walking, AtEnd, EndOf
<1>4. Steady /\ Linked = live
  BY <1>1, <1>2, <1>3, SteadyTree DEF Steady
<1>5. /\ Links(t, live) /\ Under(t, live, U) /\ Ordered(t, live, U) /\ t \in Tree
      /\ CallOK /\ CallInv(U, NoGap) /\ live \subseteq Ref
  BY <1>1, <1>4, SteadyTree
<1>6. call \in [op : {"min", "max"}, x : live \cup {nil}]
  BY <1>2, <1>3, <1>5, Calls
<1>7. x \in live \cup {nil} /\ d \in Sides
  BY <1>2, <1>3, <1>6 DEF EndOf
<1>8. /\ x = nil => live = {}
      /\ \A m \in live \ U[x] : Before(d, t.key[x], t.key[m])
  BY <1>2, <1>3, <1>5 DEF CallInv, ToEnd
<1>9. Inserting = {} /\ Inserting' = {}
  BY <1>2, <1>3 DEF Inserting, Idle
<1>10. Keys' = Keys
  BY <1>3, <1>9, BagStays
<1>11. DOMAIN Keys = live /\ \A n \in live : Keys[n] = t.key[n]
  BY <1>9 DEF Keys
<1>12. ASSUME x # nil PROVE x \in live /\ \A m \in live : Before(d, t.key[x], t.key[m])
  <2>1. x \in live /\ t.child[d][x] = nil
    BY <1>3, <1>7, <1>12
  <2>2. U[x] = {x} \cup U[t.child[Other(d)][x]]
    BY <1>5, <1>7, <2>1 DEF Under
  <2>3. ASSUME NEW m \in live PROVE Before(d, t.key[x], t.key[m])
    <3>1. t.key[x] \in Int /\ t.key[m] \in Int
      BY <1>5, <2>1, KeysAreIntegers
    <3>2. CASE m \notin U[x]
      BY <1>8, <3>2
    <3>3. CASE m = x
      BY <1>7, <3>1, <3>3, BeforeOrders
    <3>4. CASE m \in U[t.child[Other(d)][x]]
      <4>1. Before(Other(d), t.key[m], t.key[x])
        BY <1>5, <1>7, <2>1, <3>4 DEF Ordered
      <4> QED BY <1>7, <3>1, <4>1, BeforeOrders
    <3> QED BY <2>2, <3>2, <3>3, <3>4
  <2> QED BY <2>1, <2>3
<1>13. ASSUME x = nil PROVE DOMAIN Keys = {}
  BY <1>8, <1>11, <1>13
<1>14. x # nil => live # {}
  BY <1>12
<1>15. CASE op = "min"
  <2>1. x \in IF DOMAIN Keys = {} THEN {nil}
              ELSE {m \in DOMAIN Keys : \A o \in DOMAIN Keys : Keys[m] <= Keys[o]}
    <3>1. d = "left"
      BY <1>2, <1>15 DEF EndOf
    <3>2. x # nil => \A o \in live : t.key[x] <= t.key[o]
      BY <1>12, <3>1 DEF Before
    <3> QED BY <1>7, <1>11, <1>12, <1>13, <1>14, <3>2
  <2>2. ret' = [op |-> "min", value |-> x]
    BY <1>3, <1>15 DEF Returned
  <2> QED BY <1>10, <2>1, <2>2 DEF Bag!Min, Bag!Members, Bag!Returned, Keys
<1>16. CASE op = "max"
  <2>1. x \in IF DOMAIN Keys = {} THEN {nil}
              ELSE {m \in DOMAIN Keys : \A o \in DOMAIN Keys : Keys[o] <= Keys[m]}
    <3>1. d = "right"
      BY <1>2, <1>16 DEF EndOf
    <3>2. x # nil => \A o \in live : t.key[o] <= t.key[x]
      BY <1>12, <3>1 DEF Before
    <3> QED BY <1>7, <1>11, <1>12, <1>13, <1>14, <3>2
  <2>2. ret' = [op |-> "max", value |-> x]
    BY <1>3, <1>16 DEF Returned
  <2> QED BY <1>10, <2>1, <2>2 DEF Bag!Max, Bag!Members, Bag!Returned, Keys
<1> QED BY <1>3, <1>15, <1>16

(* A new tree is an empty bag.                                             *)
LEMMA NewIsEmpty == IInv /\ Recreate => Bag!Clear
<1> SUFFICES ASSUME IInv, Recreate PROVE Bag!Clear
  OBVIOUS
<1>1. /\ call' = Idle /\ live' = live \ Subtree(t)[t.root]
      /\ ret' = Returned("new", NULL) /\ call = Idle
  BY DEF Recreate
<1>2. AllReachable
  BY ReachableFollows
<1>3. live' = {}
  BY <1>1, <1>2 DEF AllReachable, Linked, Detached, Idle
<1>4. Keys' = [n \in {} |-> 0]
  BY <1>3 DEF Keys
<1> QED BY <1>1, <1>4 DEF Bag!Clear, Bag!Returned, Keys, Returned

(* Each step of the tree is a step of the bag or one it does not see.      *)
LEMMA StepSimulation == IInv /\ [Next]_vars => [Bag!Next]_<<Keys, ret>>
<1> SUFFICES ASSUME IInv, [Next]_vars PROVE Bag!Next \/ (Keys' = Keys /\ ret' = ret)
  OBVIOUS
<1>1. CASE UNCHANGED vars
  BY <1>1 DEF vars, Keys, Inserting
<1>2. CASE \/ \E k \in Key : BeginFind(k)
           \/ \E op \in DOMAIN EndOf : BeginWalk(op)
           \/ \E z \in Node : BeginEraseFar(z)
           \/ \E k \in Key : \E z \in Node : BeginInsert(z, k)
  BY <1>2, CallsBegin DEF Bag!Next
<1>3. CASE (\E z \in Node : EraseNear(z)) \/ EraseFar
  BY <1>3, EraseIsErase DEF Bag!Next
<1>4. CASE \E p \in {NULL, nil} : EraseNothing(p)
  <2>1. UNCHANGED <<t, live, call>> /\ ret' = Returned("erase", 0)
    BY <1>4 DEF EraseNothing
  <2>2. Keys' = Keys
    BY <2>1 DEF Keys, Inserting
  <2> QED BY <2>1, <2>2 DEF Bag!Next, Bag!EraseNothing, Bag!Returned, Keys, Returned
<1>5. CASE Recreate
  BY <1>5, NewIsEmpty DEF Bag!Next
<1>6. CASE EndInsert
  BY <1>6, InsertIsInsert DEF Bag!Next
<1>7. CASE EndEraseFix
  BY <1>7, EraseEndIsErase DEF Bag!Next
<1>8. CASE EndFind
  BY <1>8, FindIsFind DEF Bag!Next
<1>9. CASE EndWalk
  BY <1>9, WalkIsEnd DEF Bag!Next
<1>10. CASE \/ Descend \/ Attach \/ InsertFixRound \/ WalkToSuccessor
            \/ EraseFixRound \/ FindStep \/ WalkStep
  BY <1>10, MiddleIsUnseen
<1> QED
  BY <1>1, <1>2, <1>3, <1>4, <1>5, <1>6, <1>7, <1>8, <1>9, <1>10 DEF Next, Round

(* The tree is the ordered bag of keys that the README of the lab promises.*)
THEOREM Refinement == Spec => ImplementsBag
<1>1. Init => Bag!Init
  BY DEF Init, Bag!Init, Inserting, Idle, Returned
<1>2. IInv /\ [Next]_vars => [Bag!Next]_(Bag!vars)
  BY StepSimulation DEF Bag!vars, Keys
<1> QED BY <1>1, <1>2, Invariance, PTL DEF Spec, ImplementsBag, Bag!Spec

----------------------------------------------------------------------------
(* rbtree_to_array *)

(* A call of in_order_copy with arguments a, when f is what calls return.  *)
Copying(f, nslots, a) ==
  IF a.n = nil \/ a.idx >= nslots THEN [arr |-> a.arr, idx |-> a.idx]
  ELSE LET l == f[[a EXCEPT !.n = t.child["left"][a.n]]]
           stored == IF l.idx < nslots THEN [l.arr EXCEPT ![l.idx] = t.key[a.n]] ELSE l.arr
       IN  f[[n |-> t.child["right"][a.n], arr |-> stored, idx |-> l.idx + 1]]

(* The calls that it makes, and what is stored between them.               *)
LeftCall(a) == [a EXCEPT !.n = t.child["left"][a.n]]
Stored(nslots, a, l) ==
  IF l.idx < nslots THEN [l.arr EXCEPT ![l.idx] = t.key[a.n]] ELSE l.arr
RightCall(nslots, a, l) ==
  [n |-> t.child["right"][a.n], arr |-> Stored(nslots, a, l), idx |-> l.idx + 1]

(* Both calls have proper arguments, for the children.                     *)
LEMMA CallsAreProper ==
  ASSUME t \in Tree, NEW nslots \in Nat, NEW a \in Arguments(nslots)
  PROVE  /\ LeftCall(a) \in Arguments(nslots)
         /\ LeftCall(a).n = t.child["left"][a.n]
         /\ LeftCall(a).arr = a.arr /\ LeftCall(a).idx = a.idx
         /\ \A l \in Copied(nslots) :
              /\ RightCall(nslots, a, l) \in Arguments(nslots)
              /\ RightCall(nslots, a, l).n = t.child["right"][a.n]
              /\ RightCall(nslots, a, l).idx = l.idx + 1
              /\ RightCall(nslots, a, l).arr = Stored(nslots, a, l)
<1>1. a.n \in Ref /\ a.arr \in Arrays(nslots) /\ a.idx \in Nat
  BY DEF Arguments
<1>2. \A d \in Sides : t.child[d][a.n] \in Ref
  BY <1>1 DEF Tree
<1>3. t.key[a.n] \in Int
  BY <1>1, KeysAreIntegers
<1>4. a = [n |-> a.n, arr |-> a.arr, idx |-> a.idx]
  BY DEF Arguments
<1>5. ASSUME NEW l \in Copied(nslots) PROVE Stored(nslots, a, l) \in Arrays(nslots)
  <2>1. l.arr \in [0 .. nslots -> Int \cup {NULL}] /\ l.idx \in Nat
    BY DEF Copied, Arrays
  <2> QED BY <1>3, <2>1 DEF Stored, Arrays
<1>6. LeftCall(a) = [n |-> t.child["left"][a.n], arr |-> a.arr, idx |-> a.idx]
  BY <1>4 DEF LeftCall
<1> HIDE DEF Ref, Arrays
<1>7. LeftCall(a) \in Arguments(nslots)
  BY <1>1, <1>2, <1>6, TwoSides DEF Arguments
<1>8. ASSUME NEW l \in Copied(nslots) PROVE RightCall(nslots, a, l) \in Arguments(nslots)
  <2>1. l.idx + 1 \in Nat
    BY DEF Copied
  <2> QED BY <1>2, <1>5, <2>1, TwoSides DEF Arguments, RightCall
<1> QED BY <1>6, <1>7, <1>8 DEF RightCall

(* Copying in terms of its calls.                                          *)
LEMMA CopyingCalls ==
  ASSUME NEW f, NEW nslots, NEW a
  PROVE  Copying(f, nslots, a) =
           IF a.n = nil \/ a.idx >= nslots THEN [arr |-> a.arr, idx |-> a.idx]
           ELSE f[RightCall(nslots, a, f[LeftCall(a)])]
  BY DEF Copying, RightCall, LeftCall, Stored

(* What it returns is an array and an index, and depends on the calls for  *)
(* the children only.                                                      *)
LEMMA CopyingIsLocal ==
  ASSUME t \in Tree, NEW nslots \in Nat, NEW a \in Arguments(nslots),
         NEW f \in [Arguments(nslots) -> Copied(nslots)]
  PROVE  /\ Copying(f, nslots, a) \in Copied(nslots)
         /\ \A g :
              (\A b \in Arguments(nslots) :
                 (\E d \in Sides : b.n = t.child[d][a.n]) => f[b] = g[b])
              => Copying(f, nslots, a) = Copying(g, nslots, a)
<1>1. PICK A, C : A = Arguments(nslots) /\ C = Copied(nslots)
  OBVIOUS
<1>2. [arr |-> a.arr, idx |-> a.idx] \in C
  BY <1>1 DEF Arguments, Copied
<1>3. PICK b : b = LeftCall(a)
  OBVIOUS
<1>4. b \in A /\ b.n = t.child["left"][a.n] /\ f[b] \in C
  BY <1>1, <1>3, CallsAreProper
<1>5. PICK c : c = RightCall(nslots, a, f[b])
  OBVIOUS
<1>6. c \in A /\ c.n = t.child["right"][a.n] /\ f[c] \in C
  BY <1>1, <1>4, <1>5, CallsAreProper
<1>7. Copying(f, nslots, a) \in C
  BY <1>2, <1>3, <1>5, <1>6, CopyingCalls
<1>8. ASSUME NEW g,
             \A e \in A : (\E d \in Sides : e.n = t.child[d][a.n]) => f[e] = g[e]
      PROVE  Copying(f, nslots, a) = Copying(g, nslots, a)
  <2>1. f[b] = g[b] /\ f[c] = g[c]
    BY <1>4, <1>6, <1>8, TwoSides
  <2>2. /\ Copying(f, nslots, a) = IF a.n = nil \/ a.idx >= nslots
                                   THEN [arr |-> a.arr, idx |-> a.idx] ELSE f[c]
        /\ Copying(g, nslots, a) = IF a.n = nil \/ a.idx >= nslots
                                   THEN [arr |-> a.arr, idx |-> a.idx] ELSE g[c]
    BY <1>3, <1>5, <2>1, CopyingCalls
  <2> QED BY <2>1, <2>2
<1> QED BY <1>1, <1>7, <1>8

(* f is what in_order_copy returns for the nodes of S and the sentinel.    *)
Copies(f, nslots, S) ==
  /\ f \in [Arguments(nslots) -> Copied(nslots)]
  /\ \A a \in Arguments(nslots) :
       a.n \in S \cup {nil} => f[a] = Copying(f, nslots, a)

(* The children of what is under a node are under it too, or missing.      *)
LEMMA ChildrenUnder ==
  ASSUME NEW L, NEW U, Links(t, L), Under(t, L, U), NEW v \in L, NEW m \in U[v], NEW d \in Sides
  PROVE  t.child[d][m] \in U[v] \cup {nil}
<1>1. m \in L
  BY NilIsNoNode DEF Under, Links
<1>2. U[m] \subseteq U[v]
  BY UnderIsClosed
<1>3. t.child[d][m] # nil => t.child[d][m] \in L /\ t.child[d][m] \in U[t.child[d][m]]
  BY <1>1, Children
<1>4. U[t.child[d][m]] \subseteq U[m]
  BY <1>1, TwoSides DEF Under
<1> QED BY <1>2, <1>3, <1>4

(* Two such functions, for the children of a node, give one for the node.  *)
LEMMA CopiesJoin ==
  ASSUME NEW L, NEW U, Links(t, L), Under(t, L, U), NEW n \in L, NEW nslots \in Nat,
         NEW f, Copies(f, nslots, U[t.child["left"][n]]),
         NEW h, Copies(h, nslots, U[t.child["right"][n]])
  PROVE  \E g : Copies(g, nslots, U[n])
<1> USE TwoSides, NilIsNoNode
<1> DEFINE A == Arguments(nslots)
           C == Copied(nslots)
           P == U[t.child["left"][n]]
           Q == U[t.child["right"][n]]
           e == [a \in A |-> IF a.n \in P \cup {nil} THEN f[a] ELSE h[a]]
           g == [a \in A |-> IF a.n = n THEN Copying(e, nslots, a) ELSE e[a]]
<1>1. /\ t \in Tree /\ n # nil
      /\ U[n] = {n} \cup P \cup Q /\ n \notin P /\ n \notin Q /\ P \cap Q = {}
      /\ P \subseteq L /\ Q \subseteq L /\ nil \notin L
  BY DEF Links, Under
<1>2. /\ f \in [A -> C] /\ \A a \in A : a.n \in P \cup {nil} => f[a] = Copying(f, nslots, a)
      /\ h \in [A -> C] /\ \A a \in A : a.n \in Q \cup {nil} => h[a] = Copying(h, nslots, a)
  BY DEF Copies
<1>3. \A v \in {t.child["left"][n], t.child["right"][n]} : v = nil \/ v \in L
  BY DEF Links
<1>4. \A d \in Sides : /\ \A m \in P : t.child[d][m] \in P \cup {nil}
                       /\ \A m \in Q : t.child[d][m] \in Q \cup {nil}
  BY <1>3, ChildrenUnder DEF Under
<1>5. \A d \in Sides : t.child[d][n] # n
  BY <1>1, Children
<1> HIDE DEF A, C, P, Q
<1>6. e \in [A -> C] /\ \A a \in A : e[a] = IF a.n \in P \cup {nil} THEN f[a] ELSE h[a]
  BY <1>2
<1> HIDE DEF e
<1>7. \A a \in A : Copying(e, nslots, a) \in C
  BY <1>1, <1>6, CopyingIsLocal DEF A, C
<1>8. /\ g \in [A -> C]
      /\ \A a \in A : g[a] = IF a.n = n THEN Copying(e, nslots, a) ELSE e[a]
  BY <1>6, <1>7
<1> HIDE DEF g
<1>9. \A a \in A : a.n = nil => f[a] = h[a]
  BY <1>2 DEF Copying
<1>10. ASSUME NEW a \in A, a.n \in P \cup {nil}
       PROVE  g[a] = f[a]
  BY <1>1, <1>6, <1>8, <1>10
<1>11. ASSUME NEW a \in A, a.n \in Q \cup {nil}
       PROVE  g[a] = h[a]
  BY <1>1, <1>6, <1>8, <1>9, <1>11
<1>12. ASSUME NEW a \in A, a.n \in U[n] \cup {nil}
       PROVE  g[a] = Copying(g, nslots, a)
  <2>1. CASE a.n = nil
    <3>1. g[a] = f[a] /\ f[a] = [arr |-> a.arr, idx |-> a.idx]
      BY <1>2, <1>10, <2>1 DEF Copying
    <3> QED BY <2>1, <3>1 DEF Copying
  <2>2. CASE a.n \in P
    <3>1. ASSUME NEW b \in A, \E d \in Sides : b.n = t.child[d][a.n]
          PROVE  f[b] = g[b]
      BY <1>4, <1>10, <2>2, <3>1
    <3>2. Copying(f, nslots, a) = Copying(g, nslots, a)
      BY <1>1, <1>2, <1>8, <3>1, CopyingIsLocal DEF A, C
    <3> QED BY <1>2, <1>10, <2>2, <3>2
  <2>3. CASE a.n \in Q
    <3>1. ASSUME NEW b \in A, \E d \in Sides : b.n = t.child[d][a.n]
          PROVE  h[b] = g[b]
      BY <1>4, <1>11, <2>3, <3>1
    <3>2. Copying(h, nslots, a) = Copying(g, nslots, a)
      BY <1>1, <1>2, <1>8, <3>1, CopyingIsLocal DEF A, C
    <3> QED BY <1>2, <1>11, <2>3, <3>2
  <2>4. CASE a.n = n
    <3>1. ASSUME NEW b \in A, \E d \in Sides : b.n = t.child[d][a.n]
          PROVE  e[b] = g[b]
      BY <1>5, <1>8, <2>4, <3>1
    <3>2. Copying(e, nslots, a) = Copying(g, nslots, a)
      BY <1>1, <1>6, <1>8, <3>1, CopyingIsLocal DEF A, C
    <3> QED BY <1>8, <2>4, <3>2
  <2> QED BY <1>1, <1>12, <2>1, <2>2, <2>3, <2>4
<1> QED BY <1>8, <1>12 DEF Copies, A, C

(* Such a function exists for any tree: by induction over it.              *)
LEMMA CopiesExist ==
  ASSUME NEW L, NEW U, Links(t, L), Under(t, L, U), NEW nslots \in Nat
  PROVE  \E f : Copies(f, nslots, L)
<1> USE TwoSides, NilIsNoNode
<1> DEFINE Some(n) == \E f : Copies(f, nslots, U[n])
           T == {n \in L : ~Some(n)}
<1>1. U[nil] = {} /\ U[t.root] = L /\ t.root \in L \cup {nil}
  BY DEF Under, Links
<1>2. Some(nil)
  <2> DEFINE f == [a \in Arguments(nslots) |-> [arr |-> a.arr, idx |-> a.idx]]
  <2>1. \A a \in Arguments(nslots) : [arr |-> a.arr, idx |-> a.idx] \in Copied(nslots)
    BY DEF Arguments, Copied
  <2>2. f \in [Arguments(nslots) -> Copied(nslots)]
    BY <2>1
  <2>3. \A a \in Arguments(nslots) : f[a] = [arr |-> a.arr, idx |-> a.idx]
    OBVIOUS
  <2> HIDE DEF f
  <2>4. Copies(f, nslots, {})
    BY <2>2, <2>3 DEF Copies, Copying
  <2> QED BY <1>1, <2>4
<1>3. T = {}
  <2>1. SUFFICES ASSUME T # {} PROVE FALSE
    OBVIOUS
  <2>2. T \subseteq L
    OBVIOUS
  <2>3. PICK n \in T : \A d \in Sides : t.child[d][n] \notin T
    <3> HIDE DEF T
    <3> QED BY <2>1, <2>2, Lowest
  <2> HIDE DEF Some
  <2>4. n \in L /\ ~Some(n)
    BY <2>3
  <2>5. \A d \in Sides : t.child[d][n] \in L \cup {nil}
    BY <2>4 DEF Links
  <2>6. \A d \in Sides : Some(t.child[d][n])
    BY <1>2, <2>3, <2>5
  <2>7. Some(t.child["left"][n]) /\ Some(t.child["right"][n])
    BY <2>6
  <2>8. Some(n)
    BY <2>4, <2>7, CopiesJoin DEF Some
  <2> QED BY <2>4, <2>8
<1> HIDE DEF Some
<1>4. Some(t.root)
  BY <1>1, <1>2, <1>3
<1> QED BY <1>1, <1>4 DEF Some

(* in_order_copy is such a function.                                       *)
LEMMA InOrderCopyIs ==
  ASSUME NEW L, NEW U, Links(t, L), Under(t, L, U), Inward(t, L), NEW nslots \in Nat
  PROVE  Copies(in_order_copy(nslots), nslots, L)
<1> USE TwoSides, NilIsNoNode
<1> DEFINE A == Arguments(nslots)
           C == Copied(nslots)
           F(f) == [a \in A |-> Copying(f, nslots, a)]
           f == in_order_copy(nslots)
<1>1. PICK g : Copies(g, nslots, L)
  BY CopiesExist
<1>2. t \in Tree /\ \A d \in Sides : \A n \in Ref : t.child[d][n] \in L \cup {nil}
  BY DEF Links, Inward
<1>3. g \in [A -> C] /\ \A a \in A : a.n \in L \cup {nil} => g[a] = Copying(g, nslots, a)
  BY <1>1 DEF Copies
<1>4. PICK e : e = F(g)
  OBVIOUS
<1> HIDE DEF C
<1>5. e \in [A -> C] /\ \A a \in A : e[a] = Copying(g, nslots, a)
  BY <1>2, <1>3, <1>4, CopyingIsLocal DEF C
<1>6. \A a \in A : a.n \in Ref
  BY DEF Arguments
<1> HIDE DEF A
<1>7. ASSUME NEW a \in A PROVE e[a] = Copying(e, nslots, a)
  <2>1. ASSUME NEW b \in A, \E d \in Sides : b.n = t.child[d][a.n]
        PROVE  g[b] = e[b]
    BY <1>2, <1>3, <1>5, <1>6, <2>1
  <2>2. Copying(g, nslots, a) = Copying(e, nslots, a)
    BY <1>2, <1>3, <1>5, <2>1, CopyingIsLocal DEF A, C
  <2> QED BY <1>5, <2>2
<1>8. e = F(e)
  BY <1>5, <1>7
<1>9. f = CHOOSE x : x = F(x)
  BY DEF in_order_copy, Copying, A
<1>10. f = F(f)
  <2> HIDE DEF F, f
  <2> QED BY <1>8, <1>9
<1> HIDE DEF f
<1>11. \A a \in A : f[a] = Copying(f, nslots, a)
  BY <1>10
<1>12. ASSUME NEW a \in A,
              \A b \in A : (\E d \in Sides : b.n = t.child[d][a.n]) => e[b] = f[b]
       PROVE  e[a] = f[a]
  BY <1>2, <1>5, <1>7, <1>11, <1>12, CopyingIsLocal DEF A, C
<1>13. \A a \in A : a.n = nil => e[a] = f[a]
  BY <1>7, <1>11 DEF Copying
<1> DEFINE T == {n \in L : \E a \in A : a.n = n /\ e[a] # f[a]}
<1>14. T = {}
  <2>1. SUFFICES ASSUME T # {} PROVE FALSE
    OBVIOUS
  <2>2. T \subseteq L
    OBVIOUS
  <2>3. PICK n \in T : \A d \in Sides : t.child[d][n] \notin T
    <3> HIDE DEF T
    <3> QED BY <2>1, <2>2, Lowest
  <2>4. PICK a \in A : a.n = n /\ e[a] # f[a]
    BY <2>3
  <2>5. \A d \in Sides : t.child[d][n] \in L \cup {nil}
    BY <2>3 DEF Links
  <2>6. ASSUME NEW b \in A, \E d \in Sides : b.n = t.child[d][n] PROVE e[b] = f[b]
    BY <1>13, <2>3, <2>5, <2>6
  <2> QED BY <1>12, <2>4, <2>6
<1>15. \A a \in A : a.n \in L \cup {nil} => e[a] = f[a]
  BY <1>13, <1>14
<1>16. \A a \in A : e[a] = f[a]
  BY <1>2, <1>6, <1>12, <1>15
<1>17. f \in [A -> C]
  BY <1>5, <1>10, <1>16
<1> QED BY <1>11, <1>17 DEF Copies, A, C, f

(* In S, v is the key that comes after i others.                           *)
Ranked(S, v, i) ==
  /\ \E m \in S : t.key[m] = v
  /\ Cardinality({m \in S : t.key[m] < v}) <= i
  /\ Cardinality({m \in S : t.key[m] <= v}) > i

(* The nodes of S have been copied from slot a.idx on, as far as there are *)
(* slots.                                                                  *)
InOrder(S, nslots, a, r) ==
  LET next == a.idx + Cardinality(S)
  IN  /\ r \in Copied(nslots)
      /\ IF next <= nslots THEN r.idx = next ELSE r.idx >= nslots
      /\ \A i \in 0 .. nslots :
           IF a.idx <= i /\ i < next /\ i < nslots THEN Ranked(S, r.arr[i], i - a.idx)
           ELSE r.arr[i] = a.arr[i]

(* The sizes of three sets that are apart add up.                          *)
LEMMA SizesAdd ==
  ASSUME NEW P, NEW Q, IsFiniteSet(P), IsFiniteSet(Q), NEW n, n \notin P, n \notin Q,
         P \cap Q = {}
  PROVE  /\ IsFiniteSet({n} \cup P \cup Q)
         /\ Cardinality(P) \in Nat /\ Cardinality(Q) \in Nat
         /\ Cardinality({n} \cup P \cup Q) = Cardinality(P) + 1 + Cardinality(Q)
<1>1. Cardinality(P) \in Nat /\ Cardinality(Q) \in Nat
  BY FS_CardinalityType
<1>2. IsFiniteSet(P \cup Q) /\ Cardinality(P \cup Q) = Cardinality(P) + Cardinality(Q)
  <2>1. Cardinality(P \cap Q) = 0
    BY FS_EmptySet
  <2>2. /\ IsFiniteSet(P \cup Q)
        /\ Cardinality(P \cup Q) = Cardinality(P) + Cardinality(Q) - Cardinality(P \cap Q)
    BY FS_Union
  <2> QED BY <1>1, <2>1, <2>2
<1>3. /\ IsFiniteSet((P \cup Q) \cup {n})
      /\ Cardinality((P \cup Q) \cup {n}) = Cardinality(P \cup Q) + 1
  BY <1>2, FS_AddElement
<1>4. {n} \cup P \cup Q = (P \cup Q) \cup {n}
  OBVIOUS
<1> QED BY <1>1, <1>2, <1>3, <1>4

(* A node, those that may stand left of it and those that may stand right: *)
(* the ranks in the whole.                                                 *)
LEMMA RanksJoin ==
  ASSUME t \in Tree, NEW P, NEW Q, IsFiniteSet(P), IsFiniteSet(Q), NEW n \in Ref,
         P \subseteq Ref, Q \subseteq Ref, n \notin P, n \notin Q, P \cap Q = {},
         \A m \in P : t.key[m] <= t.key[n], \A m \in Q : t.key[n] <= t.key[m]
  PROVE  LET S == {n} \cup P \cup Q
         IN  /\ \A v, i \in Int : Ranked(P, v, i) => Ranked(S, v, i)
             /\ Ranked(S, t.key[n], Cardinality(P))
             /\ \A v, i \in Int : Ranked(Q, v, i) => Ranked(S, v, Cardinality(P) + 1 + i)
<1> DEFINE S == {n} \cup P \cup Q
           Less(X, v) == {m \in X : t.key[m] < v}
           UpTo(X, v) == {m \in X : t.key[m] <= v}
<1>1. \A m \in S : t.key[m] \in Int
  BY KeysAreIntegers
<1>2. IsFiniteSet(S) /\ Cardinality(P) \in Nat /\ P \subseteq S /\ Q \subseteq S /\ n \in S
  BY SizesAdd
<1>3. \A X \in {P, Q, S} : \A Y \in SUBSET X :
        IsFiniteSet(Y) /\ Cardinality(Y) \in Nat /\ Cardinality(Y) <= Cardinality(X)
  BY <1>2, FS_Subset, FS_CardinalityType
<1>4. \A X \in {P, Q, S} : \A v : Less(X, v) \in SUBSET X /\ UpTo(X, v) \in SUBSET X
  OBVIOUS
<1>5. \A X \in {P, Q, S} : \A v : /\ IsFiniteSet(Less(X, v)) /\ IsFiniteSet(UpTo(X, v))
                                  /\ Cardinality(Less(X, v)) \in Nat
                                  /\ Cardinality(UpTo(X, v)) \in Nat
  <2> HIDE DEF S, Less, UpTo
  <2> QED BY <1>3, <1>4
<1>6. ASSUME NEW v \in Int, NEW i \in Int, Ranked(P, v, i) PROVE Ranked(S, v, i)
  <2>1. PICK m \in P : t.key[m] = v
    BY <1>6 DEF Ranked
  <2>2. v <= t.key[n] /\ \A k \in Q : v <= t.key[k]
    BY <1>1, <2>1
  <2>3. Less(S, v) = Less(P, v)
    BY <1>1, <2>2
  <2>4. UpTo(P, v) \in SUBSET UpTo(S, v)
    OBVIOUS
  <2>5. Cardinality(UpTo(P, v)) <= Cardinality(UpTo(S, v))
    <3> HIDE DEF UpTo, S
    <3> QED BY <1>5, <2>4, FS_Subset
  <2>6. Cardinality(Less(P, v)) <= i /\ Cardinality(UpTo(P, v)) > i
    BY <1>6 DEF Ranked
  <2>7. Cardinality(Less(S, v)) <= i /\ Cardinality(UpTo(S, v)) > i
    <3> HIDE DEF UpTo, Less, S
    <3> QED BY <1>5, <2>3, <2>5, <2>6
  <2> QED BY <2>1, <2>7 DEF Ranked
<1>7. Ranked(S, t.key[n], Cardinality(P))
  <2>1. PICK v : v = t.key[n]
    OBVIOUS
  <2>2. Less(S, v) \in SUBSET P
    BY <1>1, <2>1
  <2>3. P \cup {n} \in SUBSET UpTo(S, v)
    BY <1>1, <2>1
  <2>4. Cardinality(P \cup {n}) = Cardinality(P) + 1
    BY FS_AddElement
  <2>5. Cardinality(Less(S, v)) <= Cardinality(P)
    <3> HIDE DEF Less, S
    <3> QED BY <1>3, <2>2
  <2>6. Cardinality(UpTo(S, v)) >= Cardinality(P \cup {n})
    <3> HIDE DEF UpTo, S
    <3>1. IsFiniteSet(UpTo(S, v)) /\ Cardinality(UpTo(S, v)) \in Nat
      BY <1>5
    <3>2. Cardinality(P \cup {n}) <= Cardinality(UpTo(S, v))
      BY <2>3, <3>1, FS_Subset
    <3> QED BY <1>2, <2>4, <3>1, <3>2
  <2>7. Cardinality(Less(S, v)) <= Cardinality(P) /\ Cardinality(UpTo(S, v)) > Cardinality(P)
    <3> HIDE DEF UpTo, Less, S
    <3> QED BY <1>2, <1>5, <2>4, <2>5, <2>6
  <2>8. \E m \in S : t.key[m] = v
    BY <2>1
  <2> QED BY <2>1, <2>7, <2>8 DEF Ranked
<1>8. ASSUME NEW v \in Int, NEW i \in Int, Ranked(Q, v, i)
      PROVE  Ranked(S, v, Cardinality(P) + 1 + i)
  <2>1. PICK m \in Q : t.key[m] = v
    BY <1>8 DEF Ranked
  <2>2. t.key[n] <= v /\ \A k \in P : t.key[k] <= v
    BY <1>1, <2>1
  <2>3. UpTo(S, v) = {n} \cup P \cup UpTo(Q, v)
    BY <1>1, <2>2
  <2>4. Less(S, v) \in SUBSET ({n} \cup P \cup Less(Q, v))
    OBVIOUS
  <2>5. \A X \in SUBSET Q : /\ n \notin X /\ P \cap X = {}
    OBVIOUS
  <2>6. \A X \in SUBSET Q :
          /\ IsFiniteSet({n} \cup P \cup X)
          /\ Cardinality({n} \cup P \cup X) = Cardinality(P) + 1 + Cardinality(X)
    BY <1>3, <2>5, SizesAdd
  <2>7. Less(Q, v) \in SUBSET Q /\ UpTo(Q, v) \in SUBSET Q
    OBVIOUS
  <2> HIDE DEF Less, UpTo, S
  <2>8. Cardinality(UpTo(S, v)) = Cardinality(P) + 1 + Cardinality(UpTo(Q, v))
    BY <2>3, <2>6, <2>7
  <2>9. Cardinality(Less(S, v)) <= Cardinality(P) + 1 + Cardinality(Less(Q, v))
    <3>1. Cardinality(Less(S, v)) <= Cardinality({n} \cup P \cup Less(Q, v))
      BY <2>4, <2>6, <2>7, FS_Subset
    <3> QED BY <2>6, <2>7, <3>1
  <2>10. Cardinality(Less(Q, v)) <= i /\ Cardinality(UpTo(Q, v)) > i
    BY <1>8 DEF Ranked, Less, UpTo
  <2>11. /\ Cardinality(Less(S, v)) <= Cardinality(P) + 1 + i
         /\ Cardinality(UpTo(S, v)) > Cardinality(P) + 1 + i
    BY <1>2, <1>5, <2>8, <2>9, <2>10
  <2>12. \E k \in S : t.key[k] = v
    BY <1>2, <2>1
  <2> QED BY <2>11, <2>12 DEF Ranked, Less, UpTo
<1> QED BY <1>6, <1>7, <1>8

(* A call copies the nodes under its node, if its own calls do so.         *)
LEMMA CopyStep ==
  ASSUME NEW L, NEW U, Links(t, L), Under(t, L, U), Ordered(t, L, U), NEW n \in L,
         NEW nslots \in Nat, NEW f, Copies(f, nslots, L),
         \A b \in Arguments(nslots) : \A d \in Sides :
           b.n = t.child[d][n] => InOrder(U[b.n], nslots, b, f[b]),
         NEW a \in Arguments(nslots), a.n = n
  PROVE  InOrder(U[n], nslots, a, f[a])
<1> USE TwoSides, NilIsNoNode
<1>1. PICK A, C : A = Arguments(nslots) /\ C = Copied(nslots)
  OBVIOUS
<1>2. PICK P, Q : P = U[t.child["left"][n]] /\ Q = U[t.child["right"][n]]
  OBVIOUS
<1>3. /\ t \in Tree /\ n # nil /\ n \in Ref /\ IsFiniteSet(L)
      /\ U[n] = {n} \cup P \cup Q /\ n \notin P /\ n \notin Q /\ P \cap Q = {}
      /\ P \subseteq L /\ Q \subseteq L /\ L \subseteq Ref
  BY <1>2 DEF Links, Under
<1>4. IsFiniteSet(P) /\ IsFiniteSet(Q)
  BY <1>3, FS_Subset
<1>5. /\ \A m \in P : t.key[m] <= t.key[n]
      /\ \A m \in Q : t.key[n] <= t.key[m]
  BY <1>2 DEF Ordered, Before
<1>6. PICK p, q : p = Cardinality(P) /\ q = Cardinality(Q)
  OBVIOUS
<1>7. p \in Nat /\ q \in Nat /\ Cardinality(U[n]) = p + 1 + q
  BY <1>3, <1>4, <1>6, SizesAdd
<1>8. /\ \A v, i \in Int : Ranked(P, v, i) => Ranked(U[n], v, i)
      /\ Ranked(U[n], t.key[n], p)
      /\ \A v, i \in Int : Ranked(Q, v, i) => Ranked(U[n], v, p + 1 + i)
  <2>1. P \subseteq Ref /\ Q \subseteq Ref
    BY <1>3
  <2>2. LET S == {n} \cup P \cup Q
        IN  /\ \A v, i \in Int : Ranked(P, v, i) => Ranked(S, v, i)
            /\ Ranked(S, t.key[n], Cardinality(P))
            /\ \A v, i \in Int : Ranked(Q, v, i) => Ranked(S, v, Cardinality(P) + 1 + i)
    <3> HIDE DEF Ref
    <3> QED BY <1>3, <1>4, <1>5, <2>1, RanksJoin
  <2>3. U[n] = {n} \cup P \cup Q
    BY <1>3
  <2> QED BY <1>6, <2>2, <2>3, Zenon
<1>9. /\ f \in [A -> C] /\ f[a] = Copying(f, nslots, a)
      /\ a.idx \in Nat /\ a.arr \in Arrays(nslots)
  BY <1>1, <1>3 DEF Copies, Arguments
<1>10. CASE a.idx >= nslots
  <2>1. f[a] = [arr |-> a.arr, idx |-> a.idx]
    BY <1>9, <1>10 DEF Copying
  <2>2. f[a] \in Copied(nslots)
    BY <1>1, <1>9
  <2> QED BY <1>7, <1>9, <1>10, <2>1, <2>2 DEF InOrder
<1>11. CASE a.idx < nslots
  <2>1. PICK b, l : b = LeftCall(a) /\ l = f[b]
    OBVIOUS
  <2>2. b \in A /\ b.n = t.child["left"][n] /\ b.arr = a.arr /\ b.idx = a.idx /\ l \in C
    BY <1>1, <1>3, <1>9, <2>1, CallsAreProper
  <2>3. InOrder(P, nslots, b, l)
    BY <1>1, <1>2, <2>1, <2>2
  <2>4. PICK c, r : c = RightCall(nslots, a, l) /\ r = f[c]
    OBVIOUS
  <2>5. /\ c \in A /\ c.n = t.child["right"][n] /\ c.idx = l.idx + 1
        /\ c.arr = Stored(nslots, a, l)
    BY <1>1, <1>3, <2>2, <2>4, CallsAreProper
  <2>6. InOrder(Q, nslots, c, r)
    BY <1>1, <1>2, <2>4, <2>5
  <2>7. f[a] = r
    BY <1>3, <1>9, <1>11, <2>1, <2>4, CopyingCalls
  <2>8. l.idx \in Nat /\ l.arr \in [0 .. nslots -> Int \cup {NULL}]
    BY <1>1, <2>2 DEF Copied, Arrays
  <2>9. \A i \in 0 .. nslots :
          c.arr[i] = IF l.idx < nslots /\ i = l.idx THEN t.key[n] ELSE l.arr[i]
    BY <2>5, <2>8 DEF Stored
  <2>10. /\ r \in Copied(nslots) /\ r.idx \in Nat
         /\ IF a.idx + p <= nslots THEN l.idx = a.idx + p ELSE l.idx >= nslots
         /\ IF l.idx + 1 + q <= nslots THEN r.idx = l.idx + 1 + q ELSE r.idx >= nslots
    BY <1>6, <2>2, <2>3, <2>5, <2>6 DEF InOrder, Copied
  <2>11. IF a.idx + (p + 1 + q) <= nslots THEN r.idx = a.idx + (p + 1 + q) ELSE r.idx >= nslots
    BY <1>7, <1>9, <2>8, <2>10
  <2>12. \A i \in 0 .. nslots :
           IF a.idx <= i /\ i < a.idx + p /\ i < nslots THEN Ranked(P, l.arr[i], i - a.idx)
           ELSE l.arr[i] = a.arr[i]
    BY <1>6, <2>2, <2>3 DEF InOrder
  <2>13. \A i \in 0 .. nslots :
           IF l.idx + 1 <= i /\ i < l.idx + 1 + q /\ i < nslots
           THEN Ranked(Q, r.arr[i], i - (l.idx + 1))
           ELSE r.arr[i] = c.arr[i]
    BY <1>6, <2>5, <2>6 DEF InOrder
  <2>14. \A S \in {P, Q} : \A v, i : Ranked(S, v, i) => v \in Int
    <3>1. \A m \in P \cup Q : t.key[m] \in Int
      BY <1>3, KeysAreIntegers
    <3> QED BY <3>1 DEF Ranked
  <2>15. ASSUME NEW i \in 0 .. nslots
         PROVE  IF a.idx <= i /\ i < a.idx + (p + 1 + q) /\ i < nslots
                THEN Ranked(U[n], r.arr[i], i - a.idx)
                ELSE r.arr[i] = a.arr[i]
    <3>1. CASE i < a.idx \/ i >= nslots \/ i >= a.idx + (p + 1 + q)
      <4>1. r.arr[i] = c.arr[i]
        BY <1>7, <1>9, <2>8, <2>10, <2>13, <3>1
      <4>2. c.arr[i] = l.arr[i]
        <5>1. ~(l.idx < nslots /\ i = l.idx)
          BY <1>7, <1>9, <1>11, <2>8, <2>10, <3>1
        <5> QED BY <2>9, <5>1
      <4>3. l.arr[i] = a.arr[i]
        BY <1>7, <1>9, <2>12, <3>1
      <4> QED BY <1>7, <1>9, <3>1, <4>1, <4>2, <4>3
    <3>2. CASE a.idx <= i /\ i < a.idx + p /\ i < nslots
      <4>1. Ranked(P, l.arr[i], i - a.idx)
        BY <2>12, <3>2
      <4>2. i < l.idx
        BY <1>7, <1>9, <2>8, <2>10, <3>2
      <4>3. r.arr[i] = l.arr[i]
        BY <1>7, <2>8, <2>9, <2>13, <4>2
      <4>4. Ranked(U[n], l.arr[i], i - a.idx)
        BY <1>8, <1>9, <2>14, <4>1
      <4> QED BY <1>7, <1>9, <3>2, <4>3, <4>4
    <3>3. CASE i = a.idx + p /\ i < nslots
      <4>1. l.idx = i
        BY <1>7, <1>9, <2>10, <3>3
      <4>2. r.arr[i] = t.key[n]
        BY <1>7, <2>8, <2>9, <2>13, <3>3, <4>1
      <4>3. i - a.idx = p
        BY <1>7, <1>9, <3>3
      <4> QED BY <1>7, <1>8, <1>9, <3>3, <4>2, <4>3
    <3>4. CASE a.idx + p < i /\ i < a.idx + (p + 1 + q) /\ i < nslots
      <4>1. l.idx = a.idx + p
        BY <1>7, <1>9, <2>10, <3>4
      <4>2. Ranked(Q, r.arr[i], i - (l.idx + 1))
        BY <1>7, <1>9, <2>13, <3>4, <4>1
      <4>3. r.arr[i] \in Int /\ i - (l.idx + 1) \in Int
        BY <2>8, <2>14, <4>2
      <4>4. Ranked(U[n], r.arr[i], p + 1 + (i - (l.idx + 1)))
        BY <1>8, <4>2, <4>3
      <4>5. p + 1 + (i - (l.idx + 1)) = i - a.idx
        BY <1>7, <1>9, <4>1
      <4> QED BY <1>7, <1>9, <3>4, <4>4, <4>5
    <3> QED BY <1>7, <1>9, <3>1, <3>2, <3>3, <3>4
  <2> QED BY <1>7, <2>7, <2>10, <2>11, <2>15 DEF InOrder
<1> QED BY <1>9, <1>10, <1>11

(* in_order_copy copies what is under the node it is called for.           *)
LEMMA CopiesInOrder ==
  ASSUME NEW L, NEW U, Links(t, L), Under(t, L, U), Ordered(t, L, U), Inward(t, L),
         NEW nslots \in Nat, NEW a \in Arguments(nslots), a.n \in L \cup {nil}
  PROVE  InOrder(U[a.n], nslots, a, in_order_copy(nslots)[a])
<1> USE TwoSides, NilIsNoNode
<1>1. PICK f, A : f = in_order_copy(nslots) /\ A = Arguments(nslots)
  OBVIOUS
<1>2. Copies(f, nslots, L)
  BY <1>1, InOrderCopyIs
<1> DEFINE Right(b) == InOrder(U[b.n], nslots, b, f[b])
           T == {n \in L : \E b \in A : b.n = n /\ ~Right(b)}
<1>3. ASSUME NEW b \in A, b.n = nil PROVE Right(b)
  <2>1. f[b] = [arr |-> b.arr, idx |-> b.idx] /\ f[b] \in Copied(nslots)
    BY <1>1, <1>2, <1>3 DEF Copies, Copying
  <2>2. U[b.n] = {} /\ Cardinality({}) = 0
    BY <1>3, FS_EmptySet DEF Under
  <2>3. b.idx \in Nat
    BY <1>1 DEF Arguments
  <2> QED BY <2>1, <2>2, <2>3 DEF InOrder
<1> HIDE DEF Right
<1>4. T = {}
  <2>1. SUFFICES ASSUME T # {} PROVE FALSE
    OBVIOUS
  <2>2. T \subseteq L
    OBVIOUS
  <2>3. PICK n \in T : \A d \in Sides : t.child[d][n] \notin T
    <3> HIDE DEF T
    <3> QED BY <2>1, <2>2, Lowest
  <2>4. PICK b \in A : b.n = n /\ ~Right(b)
    BY <2>3
  <2>5. n \in L /\ \A d \in Sides : t.child[d][n] \in L \cup {nil}
    BY <2>3 DEF Links
  <2>6. ASSUME NEW c \in A, NEW d \in Sides, c.n = t.child[d][n] PROVE Right(c)
    BY <1>3, <2>3, <2>5, <2>6
  <2>7. Right(b)
    BY <1>1, <1>2, <2>4, <2>5, <2>6, CopyStep DEF Right
  <2> QED BY <2>4, <2>7
<1>5. Right(a)
  BY <1>1, <1>3, <1>4
<1> QED BY <1>1, <1>5 DEF Right

(* What rbtree_to_array leaves in the caller's array.                      *)
LEMMA ToArraySortedFollows == IInv => ToArraySorted
<1> SUFFICES ASSUME IInv, call = Idle PROVE ToArraySorted
  BY DEF ToArraySorted
<1>1. PICK U, B, gap : IInvAt(U, B, gap)
  BY DEF IInv
<1>2. Linked = live
  BY DEF Linked, Detached, Idle
<1>3. /\ Links(t, live) /\ Under(t, live, U) /\ Ordered(t, live, U) /\ Inward(t, live)
      /\ \A m \in live : t.key[m] \in Key
  BY <1>1, <1>2, Invariants DEF IInvAt
<1>4. /\ IsFiniteSet(live) /\ U[t.root] = live /\ t.root \in live \cup {nil} /\ live \subseteq Node
  BY <1>3 DEF Links, Under
<1>5. PICK count : count = Cardinality(live)
  OBVIOUS
<1>6. count \in Nat
  BY <1>4, <1>5, FS_CardinalityType
<1>7. ASSUME NEW n \in 0 .. count + 1, NEW arr, arr = rbtree_to_array(n)
      PROVE  \A i \in 0 .. n :
               IF i < n /\ i < count THEN Ranked(live, arr[i], i) ELSE arr[i] = NULL
  <2>1. PICK given : given = [i \in 0 .. n |-> NULL]
    OBVIOUS
  <2>2. n \in Nat /\ \A i \in 0 .. n : given[i] = NULL
    BY <1>6, <2>1
  <2>3. CASE n = 0
    BY <1>6, <1>7, <2>1, <2>2, <2>3 DEF rbtree_to_array
  <2>4. CASE n # 0
    <3>1. PICK a : a = [n |-> t.root, arr |-> given, idx |-> 0]
      OBVIOUS
    <3>2. a \in Arguments(n) /\ a.n = t.root /\ a.arr = given /\ a.idx = 0
      <4>1. given \in Arrays(n)
        BY <2>1 DEF Arrays
      <4>2. t.root \in Ref
        BY <1>4, NilIsNoNode
      <4> HIDE DEF Ref, Arrays
      <4> QED BY <3>1, <4>1, <4>2 DEF Arguments
    <3>3. arr = in_order_copy(n)[a].arr
      BY <1>7, <2>1, <2>4, <3>1 DEF rbtree_to_array
    <3>4. InOrder(live, n, a, in_order_copy(n)[a])
      BY <1>3, <1>4, <2>2, <3>2, CopiesInOrder
    <3>5. \A i \in 0 .. n :
            IF 0 <= i /\ i < 0 + count /\ i < n THEN Ranked(live, arr[i], i - 0)
            ELSE arr[i] = given[i]
      BY <1>5, <3>2, <3>3, <3>4 DEF InOrder
    <3> QED
      <4>1. ASSUME NEW i \in 0 .. n
            PROVE  IF i < n /\ i < count THEN Ranked(live, arr[i], i) ELSE arr[i] = NULL
        <5>1. 0 <= i /\ 0 + count = count /\ i - 0 = i
          BY <1>6, <2>2
        <5> QED BY <2>2, <3>5, <5>1
      <4> QED BY <4>1
  <2> QED BY <2>3, <2>4
<1>8. ASSUME NEW n \in 0 .. count + 1, NEW arr, arr = rbtree_to_array(n),
             NEW stored, stored = {i \in 0 .. n : arr[i] # NULL}
      PROVE  /\ stored = 0 .. (IF n < count THEN n ELSE count) - 1
             /\ \A i \in stored : Ranked(live, arr[i], i)
  <2>1. \A i \in 0 .. n : Ranked(live, arr[i], i) => arr[i] # NULL
    BY <1>3, ArrayAssumption DEF Ranked
  <2>2. \A i \in 0 .. n : i \in stored <=> i < n /\ i < count
    BY <1>7, <1>8, <2>1
  <2>3. n \in Nat /\ stored \subseteq 0 .. n
    BY <1>6, <1>8
  <2>4. \A i \in stored : Ranked(live, arr[i], i)
    BY <1>7, <1>8, <2>2, <2>3
  <2>5. stored = 0 .. (IF n < count THEN n ELSE count) - 1
    <3>1. PICK k \in Nat : k = IF n < count THEN n ELSE count
      BY <1>6, <2>3
    <3>2. \A i \in 0 .. n : i \in stored <=> i < k
      BY <1>6, <2>2, <2>3, <3>1
    <3>3. k <= n
      BY <1>6, <2>3, <3>1
    <3>4. \A i \in stored : i \in 0 .. k - 1
      BY <2>3, <3>2
    <3>5. \A i \in 0 .. k - 1 : i \in stored
      BY <2>3, <3>2, <3>3
    <3>6. stored = 0 .. k - 1
      BY <3>4, <3>5, Zenon
    <3> QED BY <3>1, <3>6
  <2> QED BY <2>4, <2>5
<1>9. ASSUME NEW n \in 0 .. count + 1
      PROVE  LET arr == rbtree_to_array(n)
                 stored == {i \in 0 .. n : arr[i] # NULL}
             IN  /\ stored = 0 .. (IF n < count THEN n ELSE count) - 1
                 /\ \A i \in stored :
                      /\ Cardinality({m \in live : t.key[m] < arr[i]}) <= i
                      /\ Cardinality({m \in live : t.key[m] <= arr[i]}) > i
  BY <1>8 DEF Ranked
<1> QED BY <1>5, <1>9 DEF ToArraySorted

(* rbtree_to_array fills an array of any size with the smallest keys in    *)
(* order, each as often as the tree holds it, and writes nothing else.     *)
THEOREM ArraySorted == Spec => []ToArraySorted
<1> QED BY ToArraySortedFollows, Invariance, PTL
=============================================================================
