---------------------------- MODULE BlocksProof ----------------------------
(***************************************************************************)
(* What the operations of Blocks do to a chain of blocks, for every heap   *)
(* size and every layout.  Each lemma speaks of one region of the heap,    *)
(* from a block p to the block (or epilogue) e: the operation rewrites the *)
(* region and nothing else, and the chain is whole again afterwards.       *)
(***************************************************************************)
EXTENDS Blocks, TLAPS

Memory == [Addr -> Word]

(* m2 differs from m only in the words of the blocks from p up to e.       *)
SameOutside(m, m2, p, e) ==
  m2 \in Memory /\ \A a \in Addr : a < p - 1 \/ a > e - 2 => m2[a] = m[a]

(* m2 makes one block of the region from p to e.                           *)
Joined(m, m2, p, e, alloc) ==
  /\ SameOutside(m, m2, p, e)
  /\ m2[p - 1] = PACK(e - p, alloc)
  /\ m2[e - 2] = PACK(e - p, alloc)

(* The allocated blocks, without the prologue.                             *)
Held(m, S) == {p \in S \ {prologue_payload} : ~IsFree(m, p)}

(* A heap as mm.c leaves it between two operations.                        *)
Heap(m, brk, S) ==
  m \in Memory /\ IsChain(m, brk, S) /\ NoFreeNeighbours(m, S)

(* The blocks in K keep their tags and their payload.                      *)
Keeps(m, m2, K) ==
  \A r \in K : /\ m2[r - 1] = m[r - 1]
               /\ \A a \in r .. r + BlockSize(m, r) - 3 : m2[a] = m[a]

(* Sums and differences of even numbers are even.                          *)
LEMMA EvenArithmetic ==
  ASSUME NEW a \in Int, NEW b \in Int, a % 2 = 0, b % 2 = 0
  PROVE  (a + b) % 2 = 0 /\ (a - b) % 2 = 0
  OBVIOUS

----------------------------------------------------------------------------
(* Reading a chain *)

(* A block of a chain lies inside the heap, and get_size reads its size.   *)
LEMMA BlockInHeap ==
  ASSUME NEW m \in Memory, NEW brk, NEW S, IsChain(m, brk, S), NEW p \in S
  PROVE  /\ brk \in Nat /\ brk <= MAX_HEAP /\ brk >= 4 /\ p \in Nat /\ p >= 2
         /\ BlockSize(m, p) \in Nat /\ BlockSize(m, p) >= 2
         /\ p + BlockSize(m, p) <= brk
         /\ p - 1 \in Addr /\ p + BlockSize(m, p) - 2 \in Addr
         /\ get_size(m, p - 1) = BlockSize(m, p)
         /\ m[p + BlockSize(m, p) - 2] = m[p - 1]
<1>1. /\ brk \in 4 .. MAX_HEAP
      /\ p \in 2 .. brk - 2
      /\ BlockSize(m, p) \in 2 .. MAX_HEAP /\ BlockSize(m, p) % 2 = 0
      /\ m[p + BlockSize(m, p) - 2] = m[p - 1]
      /\ p + BlockSize(m, p) \in S \cup {brk}
  BY DEF IsChain, TagsMatch
<1>2. p + BlockSize(m, p) <= brk
  BY <1>1 DEF IsChain
<1>3. get_size(m, p - 1) = BlockSize(m, p)
  BY <1>1 DEF get_size, BlockSize
<1> QED BY <1>1, <1>2, <1>3, MaxHeapAssumption DEF Addr

(* get_next_payload_pointer leads to the next block or to the epilogue.    *)
LEMMA NextBlock ==
  ASSUME NEW m \in Memory, NEW brk, NEW S, IsChain(m, brk, S), NEW p \in S
  PROVE  /\ get_next_payload_pointer(m, p) = p + BlockSize(m, p)
         /\ p + BlockSize(m, p) \in S \cup {brk}
  BY BlockInHeap DEF get_next_payload_pointer, IsChain, TagsMatch

(* get_prev_payload_pointer inverts it.                                    *)
LEMMA PrevBlock ==
  ASSUME NEW m \in Memory, NEW brk, NEW S, IsChain(m, brk, S),
         NEW p \in S \cup {brk}, p # prologue_payload
  PROVE  \E q \in S : /\ q + BlockSize(m, q) = p
                      /\ get_prev_payload_pointer(m, p) = q
                      /\ m[p - 2] = m[q - 1]
<1>1. PICK q \in S : q + BlockSize(m, q) = p
  BY DEF IsChain, BlocksTile
<1>2. /\ q \in Nat /\ BlockSize(m, q) \in Nat
      /\ get_size(m, q - 1) = BlockSize(m, q)
      /\ m[q + BlockSize(m, q) - 2] = m[q - 1]
  BY BlockInHeap
<1>2a. p - 2 = q + BlockSize(m, q) - 2
  BY <1>1, <1>2
<1>3. m[p - 2] = m[q - 1]
  BY <1>2, <1>2a
<1>4. get_size(m, p - 2) = BlockSize(m, q)
  BY <1>2, <1>3 DEF get_size
<1>5. get_prev_payload_pointer(m, p) = q
  BY <1>1, <1>2, <1>4 DEF get_prev_payload_pointer
<1> QED BY <1>1, <1>3, <1>5

----------------------------------------------------------------------------
(* Rewriting a region *)

(* Blocks before p end at p, blocks from e on start behind the region:     *)
(* what is rewritten between p and e is none of their words.               *)
LEMMA OutsideRegion ==
  ASSUME NEW m \in Memory, NEW brk, NEW S, IsChain(m, brk, S),
         NEW p \in S, NEW e \in S \cup {brk}, p < e,
         NEW m2, SameOutside(m, m2, p, e),
         NEW r \in S, r < p \/ r >= e
  PROVE  /\ m2[r - 1] = m[r - 1]
         /\ BlockSize(m2, r) = BlockSize(m, r)
         /\ \A a \in r .. r + BlockSize(m, r) - 2 : m2[a] = m[a]
<1>1. /\ p \in Nat /\ p >= 2 /\ r \in Nat /\ r >= 2 /\ r - 1 \in Addr
      /\ BlockSize(m, r) \in Nat /\ BlockSize(m, r) >= 2
      /\ r + BlockSize(m, r) <= brk /\ brk <= MAX_HEAP /\ brk \in Nat
      /\ e \in Nat
  BY BlockInHeap
<1>2. r < p => r + BlockSize(m, r) <= p
  BY DEF IsChain, BlocksTile
<1>3. m2[r - 1] = m[r - 1]
  BY <1>1 DEF SameOutside
<1>4. ASSUME NEW a \in r .. r + BlockSize(m, r) - 2
      PROVE  m2[a] = m[a]
  <2>1. a \in Addr
    BY <1>1, MaxHeapAssumption DEF Addr
  <2>2. a < p - 1 \/ a > e - 2
    BY <1>1, <1>2
  <2> QED BY <2>1, <2>2 DEF SameOutside
<1> QED BY <1>3, <1>4 DEF BlockSize

(* The blocks that remain when the region from p to e becomes one block.   *)
Kept(S, p, e) == {r \in S : r <= p \/ r >= e}

(* Joining the blocks from p up to e leaves a chain.                       *)
LEMMA JoinChain ==
  ASSUME NEW m \in Memory, NEW brk, NEW S, IsChain(m, brk, S),
         NEW p \in S, p # prologue_payload, NEW e \in S \cup {brk}, p < e,
         NEW alloc \in {0, 1}, NEW m2, Joined(m, m2, p, e, alloc)
  PROVE  /\ IsChain(m2, brk, Kept(S, p, e))
         /\ m2 \in Memory
         /\ BlockSize(m2, p) = e - p
         /\ IsFree(m2, p) <=> alloc = 0
         /\ \A r \in Kept(S, p, e) \ {p} :
               /\ m2[r - 1] = m[r - 1]
               /\ BlockSize(m2, r) = BlockSize(m, r)
               /\ \A a \in r .. r + BlockSize(m, r) - 2 : m2[a] = m[a]
<1> DEFINE S2 == Kept(S, p, e)
<1>1. /\ brk \in 4 .. MAX_HEAP /\ brk % 2 = 0
      /\ \A r \in S : r \in 2 .. brk - 2 /\ r % 2 = 0
      /\ prologue_payload \in S
      /\ m[prologue_payload - 1] = PACK(2, 1)
      /\ m[brk - 1] = PACK(0, 1)
  BY DEF IsChain
<1>2. \A r \in S : /\ BlockSize(m, r) \in 2 .. MAX_HEAP
                   /\ BlockSize(m, r) % 2 = 0
                   /\ m[r + BlockSize(m, r) - 2] = m[r - 1]
                   /\ r + BlockSize(m, r) \in S \cup {brk}
  BY DEF IsChain, TagsMatch
<1>3. /\ \A q, r \in S : q < r => q + BlockSize(m, q) <= r
      /\ \A r \in S \cup {brk} :
            r = prologue_payload \/ \E q \in S : q + BlockSize(m, q) = r
  BY DEF IsChain, BlocksTile
<1>4. m2 \in Memory /\ SameOutside(m, m2, p, e)
  BY DEF Joined, SameOutside
<1>5. \A r \in S2 \ {p} :
         /\ r \in S
         /\ m2[r - 1] = m[r - 1]
         /\ BlockSize(m2, r) = BlockSize(m, r)
         /\ \A a \in r .. r + BlockSize(m, r) - 2 : m2[a] = m[a]
  <2> TAKE r \in S2 \ {p}
  <2>1. r \in S /\ (r < p \/ r >= e)
    BY <1>1 DEF Kept
  <2> QED BY <1>4, <2>1, OutsideRegion
<1>6. BlockSize(m2, p) = e - p /\ (IsFree(m2, p) <=> alloc = 0)
  BY DEF Joined, BlockSize, IsFree, PACK
<1>7. /\ p \in 3 .. brk - 2 /\ p % 2 = 0 /\ p \in S2
      /\ e \in 2 .. brk /\ e % 2 = 0 /\ e - p >= 2 /\ e \in S2 \cup {brk}
  BY <1>1 DEF prologue_payload, Kept
<1>8. /\ \A r \in S2 : r \in 2 .. brk - 2 /\ r % 2 = 0
      /\ prologue_payload \in S2
  BY <1>1, <1>7 DEF Kept, prologue_payload
<1>9. m2[prologue_payload - 1] = PACK(2, 1) /\ m2[brk - 1] = PACK(0, 1)
  <2>1. prologue_payload \in S2 \ {p}
    BY <1>8
  <2>2. brk - 1 \in Addr /\ brk - 1 > e - 2
    BY <1>1, <1>7, MaxHeapAssumption DEF Addr
  <2> QED BY <1>1, <1>4, <1>5, <2>1, <2>2 DEF SameOutside
<1>10. TagsMatch(m2, brk, S2)
  <2> SUFFICES ASSUME NEW r \in S2
               PROVE  /\ BlockSize(m2, r) \in 2 .. MAX_HEAP
                      /\ BlockSize(m2, r) % 2 = 0
                      /\ m2[r + BlockSize(m2, r) - 2] = m2[r - 1]
                      /\ r + BlockSize(m2, r) \in S2 \cup {brk}
    BY DEF TagsMatch
  <2>1. CASE r = p
    <3>1. p + (e - p) = e /\ e - p \in 2 .. MAX_HEAP
      BY <1>1, <1>7, MaxHeapAssumption
    <3>1a. (e - p) % 2 = 0
      BY <1>7, EvenArithmetic
    <3>2. m2[p + (e - p) - 2] = m2[p - 1]
      BY <1>7, <3>1 DEF Joined
    <3> QED BY <1>6, <1>7, <2>1, <3>1, <3>1a, <3>2
  <2>2. CASE r # p
    <3>1. /\ r \in S /\ m2[r - 1] = m[r - 1]
          /\ BlockSize(m2, r) = BlockSize(m, r)
          /\ \A a \in r .. r + BlockSize(m, r) - 2 : m2[a] = m[a]
      BY <1>5, <2>2
    <3>2. /\ BlockSize(m, r) \in 2 .. MAX_HEAP /\ BlockSize(m, r) % 2 = 0
          /\ m[r + BlockSize(m, r) - 2] = m[r - 1]
          /\ r + BlockSize(m, r) \in S \cup {brk}
          /\ r \in 2 .. brk - 2
      BY <1>1, <1>2, <3>1
    <3>3. m2[r + BlockSize(m, r) - 2] = m2[r - 1]
      BY <3>1, <3>2
    <3>4. r < p => r + BlockSize(m, r) <= p
      BY <1>3, <3>1
    <3>5. r < p \/ r >= e
      BY <1>7, <2>2, <3>2 DEF Kept
    <3>6. r + BlockSize(m, r) \in S2 \cup {brk}
      BY <1>7, <3>2, <3>4, <3>5 DEF Kept
    <3> QED BY <3>1, <3>2, <3>3, <3>6
  <2> QED BY <2>1, <2>2
<1>11. \A q, r \in S2 : q < r => q + BlockSize(m2, q) <= r
  <2> TAKE q, r \in S2
  <2>1. CASE q = p
    BY <1>6, <1>7, <1>8, <2>1 DEF Kept
  <2>2. CASE q # p
    BY <1>3, <1>5, <2>2 DEF Kept
  <2> QED BY <2>1, <2>2
<1>12. ASSUME NEW r \in S2 \cup {brk}, r # prologue_payload
       PROVE  \E q \in S2 : q + BlockSize(m2, q) = r
  <2>1. PICK q \in S : q + BlockSize(m, q) = r
    BY <1>3, <1>12 DEF Kept
  <2>2. q \in 2 .. brk - 2 /\ BlockSize(m, q) \in 2 .. MAX_HEAP /\ r \in 2 .. brk
    BY <1>1, <1>2, <1>8
  <2>3. CASE r = e
    BY <1>6, <1>7, <2>3
  <2>4. CASE r <= p
    <3>1. q \in S2 /\ q # p
      BY <1>7, <2>1, <2>2, <2>4 DEF Kept
    <3> QED BY <1>5, <2>1, <3>1
  <2>5. CASE r > e
    <3>1. e \in S /\ (q < e => q + BlockSize(m, q) <= e)
      BY <1>3, <1>7, <2>2, <2>5
    <3>2. q \in S2 /\ q # p
      BY <1>7, <2>1, <2>2, <2>5, <3>1 DEF Kept
    <3> QED BY <1>5, <2>1, <3>2
  <2> QED BY <1>7, <2>2, <2>3, <2>4, <2>5 DEF Kept
<1>13. IsChain(m2, brk, S2)
  BY <1>1, <1>8, <1>9, <1>10, <1>11, <1>12 DEF IsChain, BlocksTile
<1> QED BY <1>4, <1>5, <1>6, <1>13

(* Cutting the block p at x leaves a chain with x as one block more.       *)
LEMMA SplitChain ==
  ASSUME NEW m \in Memory, NEW brk, NEW S, IsChain(m, brk, S),
         NEW p \in S, p # prologue_payload, NEW e, e = p + BlockSize(m, p),
         NEW x \in Nat, x >= p + 2, x <= e - 2, x % 2 = 0,
         NEW m2, SameOutside(m, m2, p, e),
         m2[p - 1] = PACK(x - p, 1), m2[x - 2] = PACK(x - p, 1),
         m2[x - 1] = PACK(e - x, 0), m2[e - 2] = PACK(e - x, 0)
  PROVE  /\ IsChain(m2, brk, S \cup {x})
         /\ x \notin S
         /\ BlockSize(m2, p) = x - p /\ ~IsFree(m2, p)
         /\ BlockSize(m2, x) = e - x /\ IsFree(m2, x)
         /\ \A r \in S \ {p} :
               /\ m2[r - 1] = m[r - 1]
               /\ BlockSize(m2, r) = BlockSize(m, r)
               /\ \A a \in r .. r + BlockSize(m, r) - 2 : m2[a] = m[a]
<1> DEFINE S2 == S \cup {x}
<1>1. /\ brk \in 4 .. MAX_HEAP /\ brk % 2 = 0
      /\ \A r \in S : r \in 2 .. brk - 2 /\ r % 2 = 0
      /\ prologue_payload \in S
      /\ m[prologue_payload - 1] = PACK(2, 1)
      /\ m[brk - 1] = PACK(0, 1)
  BY DEF IsChain
<1>2. \A r \in S : /\ BlockSize(m, r) \in 2 .. MAX_HEAP
                   /\ BlockSize(m, r) % 2 = 0
                   /\ m[r + BlockSize(m, r) - 2] = m[r - 1]
                   /\ r + BlockSize(m, r) \in S \cup {brk}
  BY DEF IsChain, TagsMatch
<1>3. /\ \A q, r \in S : q < r => q + BlockSize(m, q) <= r
      /\ \A r \in S \cup {brk} :
            r = prologue_payload \/ \E q \in S : q + BlockSize(m, q) = r
  BY DEF IsChain, BlocksTile
<1>4. /\ p \in 3 .. brk - 2 /\ p % 2 = 0
      /\ e \in S \cup {brk} /\ e \in 2 .. brk /\ e % 2 = 0 /\ p < e
  BY <1>1, <1>2 DEF prologue_payload
<1>5. \A r \in S \ {p} : r < p \/ r >= e
  BY <1>1, <1>3, <1>4
<1>6. \A r \in S \ {p} :
         /\ m2[r - 1] = m[r - 1]
         /\ BlockSize(m2, r) = BlockSize(m, r)
         /\ \A a \in r .. r + BlockSize(m, r) - 2 : m2[a] = m[a]
  BY <1>4, <1>5, OutsideRegion
<1>7. x \notin S
  BY <1>1, <1>4, <1>5
<1>8. /\ BlockSize(m2, p) = x - p /\ ~IsFree(m2, p)
      /\ BlockSize(m2, x) = e - x /\ IsFree(m2, x)
  BY DEF BlockSize, IsFree, PACK
<1>9. /\ x - p \in 2 .. MAX_HEAP /\ e - x \in 2 .. MAX_HEAP
      /\ p + (x - p) = x /\ x + (e - x) = e /\ x \in 2 .. brk - 2
      /\ p + (x - p) - 2 = x - 2 /\ x + (e - x) - 2 = e - 2
  BY <1>1, <1>4, MaxHeapAssumption
<1>10. (x - p) % 2 = 0 /\ (e - x) % 2 = 0
  <2>1. x \in Int /\ p \in Int /\ e \in Int
    BY <1>1, <1>4, MaxHeapAssumption
  <2> QED BY <1>4, <2>1, EvenArithmetic
<1>11. /\ \A r \in S2 : r \in 2 .. brk - 2 /\ r % 2 = 0
       /\ prologue_payload \in S2
  BY <1>1, <1>9
<1>12. m2[prologue_payload - 1] = PACK(2, 1) /\ m2[brk - 1] = PACK(0, 1)
  <2>1. brk - 1 \in Addr /\ brk - 1 > e - 2
    BY <1>1, <1>4, MaxHeapAssumption DEF Addr
  <2> QED BY <1>1, <1>6, <2>1 DEF SameOutside
<1>13. TagsMatch(m2, brk, S2)
  <2> SUFFICES ASSUME NEW r \in S2
               PROVE  /\ BlockSize(m2, r) \in 2 .. MAX_HEAP
                      /\ BlockSize(m2, r) % 2 = 0
                      /\ m2[r + BlockSize(m2, r) - 2] = m2[r - 1]
                      /\ r + BlockSize(m2, r) \in S2 \cup {brk}
    BY DEF TagsMatch
  <2>1. CASE r = p
    <3>1. m2[p + (x - p) - 2] = m2[p - 1]
      BY <1>9
    <3> QED BY <1>8, <1>9, <1>10, <2>1, <3>1
  <2>2. CASE r = x
    <3>1. m2[x + (e - x) - 2] = m2[x - 1]
      BY <1>9
    <3> QED BY <1>4, <1>8, <1>9, <1>10, <2>2, <3>1
  <2>3. CASE r \in S \ {p}
    <3>1. r + BlockSize(m, r) - 2 \in r .. r + BlockSize(m, r) - 2
      BY <1>1, <1>2, <2>3
    <3>2. m2[r + BlockSize(m, r) - 2] = m2[r - 1]
      BY <1>2, <1>6, <2>3, <3>1
    <3> QED BY <1>2, <1>6, <2>3, <3>2
  <2> QED BY <2>1, <2>2, <2>3
<1>14. \A q, r \in S2 : q < r => q + BlockSize(m2, q) <= r
  <2> TAKE q, r \in S2
  <2>1. CASE q = p \/ q = x
    BY <1>1, <1>4, <1>5, <1>8, <1>9, <2>1
  <2>2. CASE q \in S \ {p} /\ r \in S
    BY <1>3, <1>6, <2>2
  <2>3. CASE q \in S \ {p} /\ r = x
    <3>1. BlockSize(m2, q) = BlockSize(m, q) /\ (q < p => q + BlockSize(m, q) <= p)
      BY <1>3, <1>6, <2>3
    <3>2. BlockSize(m, q) \in Nat /\ q \in Nat
      BY <1>1, <1>2, <2>3
    <3> QED BY <1>4, <1>5, <1>9, <2>3, <3>1, <3>2
  <2> QED BY <2>1, <2>2, <2>3
<1>15. ASSUME NEW r \in S2 \cup {brk}, r # prologue_payload
       PROVE  \E q \in S2 : q + BlockSize(m2, q) = r
  <2>1. CASE r = x
    BY <1>8, <1>9, <2>1
  <2>2. CASE r \in S \cup {brk}
    <3>1. PICK q \in S : q + BlockSize(m, q) = r
      BY <1>3, <1>15, <2>2
    <3>2. CASE q = p
      BY <1>8, <1>9, <3>1, <3>2
    <3>3. CASE q # p
      BY <1>6, <3>1, <3>3
    <3> QED BY <3>2, <3>3
  <2> QED BY <2>1, <2>2
<1>16. IsChain(m2, brk, S2)
  BY <1>1, <1>11, <1>12, <1>13, <1>14, <1>15 DEF IsChain, BlocksTile
<1> QED BY <1>6, <1>7, <1>8, <1>16

(* A new free block above the old break, with a new epilogue, leaves a     *)
(* chain up to the new break.                                              *)
LEMMA ExtendChain ==
  ASSUME NEW m \in Memory, NEW brk, NEW S, IsChain(m, brk, S),
         NEW e \in 4 .. MAX_HEAP, e >= brk + 2, e % 2 = 0,
         NEW m2 \in Memory,
         \A a \in Addr : a < brk - 1 => m2[a] = m[a],
         m2[brk - 1] = PACK(e - brk, 0), m2[e - 2] = PACK(e - brk, 0),
         m2[e - 1] = PACK(0, 1)
  PROVE  /\ IsChain(m2, e, S \cup {brk})
         /\ brk \notin S
         /\ BlockSize(m2, brk) = e - brk /\ IsFree(m2, brk)
         /\ \A r \in S :
               /\ m2[r - 1] = m[r - 1]
               /\ BlockSize(m2, r) = BlockSize(m, r)
               /\ \A a \in r .. r + BlockSize(m, r) - 2 : m2[a] = m[a]
<1> DEFINE S2 == S \cup {brk}
<1>1. /\ brk \in 4 .. MAX_HEAP /\ brk % 2 = 0
      /\ \A r \in S : r \in 2 .. brk - 2 /\ r % 2 = 0
      /\ prologue_payload \in S
      /\ m[prologue_payload - 1] = PACK(2, 1)
  BY DEF IsChain
<1>2. \A r \in S : /\ BlockSize(m, r) \in 2 .. MAX_HEAP
                   /\ BlockSize(m, r) % 2 = 0
                   /\ m[r + BlockSize(m, r) - 2] = m[r - 1]
                   /\ r + BlockSize(m, r) \in S \cup {brk}
  BY DEF IsChain, TagsMatch
<1>3. /\ \A q, r \in S : q < r => q + BlockSize(m, q) <= r
      /\ \A r \in S \cup {brk} :
            r = prologue_payload \/ \E q \in S : q + BlockSize(m, q) = r
  BY DEF IsChain, BlocksTile
<1>4. brk \notin S
  BY <1>1
<1>5. \A r \in S :
         /\ m2[r - 1] = m[r - 1]
         /\ BlockSize(m2, r) = BlockSize(m, r)
         /\ \A a \in r .. r + BlockSize(m, r) - 2 : m2[a] = m[a]
  <2> TAKE r \in S
  <2>1. /\ r \in Nat /\ r >= 2 /\ BlockSize(m, r) \in Nat
        /\ r + BlockSize(m, r) <= brk /\ brk <= MAX_HEAP /\ r - 1 \in Addr
    BY BlockInHeap
  <2>2. m2[r - 1] = m[r - 1]
    BY <1>1, <2>1
  <2>3. ASSUME NEW a \in r .. r + BlockSize(m, r) - 2
        PROVE  m2[a] = m[a]
    <3>1. a \in Addr /\ a < brk - 1
      BY <1>1, <2>1, MaxHeapAssumption DEF Addr
    <3> QED BY <3>1
  <2> QED BY <2>2, <2>3 DEF BlockSize
<1>6. BlockSize(m2, brk) = e - brk /\ IsFree(m2, brk)
  BY DEF BlockSize, IsFree, PACK
<1>7. (e - brk) % 2 = 0
  BY <1>1, EvenArithmetic
<1>8. /\ \A r \in S2 : r \in 2 .. e - 2 /\ r % 2 = 0
      /\ prologue_payload \in S2
  BY <1>1
<1>9. m2[prologue_payload - 1] = PACK(2, 1)
  BY <1>1, <1>5
<1>10. TagsMatch(m2, e, S2)
  <2> SUFFICES ASSUME NEW r \in S2
               PROVE  /\ BlockSize(m2, r) \in 2 .. MAX_HEAP
                      /\ BlockSize(m2, r) % 2 = 0
                      /\ m2[r + BlockSize(m2, r) - 2] = m2[r - 1]
                      /\ r + BlockSize(m2, r) \in S2 \cup {e}
    BY DEF TagsMatch
  <2>1. CASE r = brk
    <3>1. /\ brk + (e - brk) = e /\ e - brk \in 2 .. MAX_HEAP
          /\ brk + (e - brk) - 2 = e - 2
      BY <1>1, MaxHeapAssumption
    <3>2. m2[brk + (e - brk) - 2] = m2[brk - 1]
      BY <3>1
    <3> QED BY <1>6, <1>7, <2>1, <3>1, <3>2
  <2>2. CASE r \in S
    <3>1. r + BlockSize(m, r) - 2 \in r .. r + BlockSize(m, r) - 2
      BY <1>1, <1>2, <2>2
    <3>2. m2[r + BlockSize(m, r) - 2] = m2[r - 1]
      BY <1>2, <1>5, <2>2, <3>1
    <3> QED BY <1>2, <1>5, <2>2, <3>2
  <2> QED BY <2>1, <2>2
<1>11. \A q, r \in S2 : q < r => q + BlockSize(m2, q) <= r
  <2> TAKE q, r \in S2
  <2>1. CASE q \in S /\ r \in S
    BY <1>3, <1>5, <2>1
  <2>2. CASE q \in S /\ r = brk
    BY <1>5, <2>2, BlockInHeap
  <2>3. CASE q = brk
    BY <1>1, <2>3
  <2> QED BY <2>1, <2>2, <2>3
<1>12. ASSUME NEW r \in S2 \cup {e}, r # prologue_payload
       PROVE  \E q \in S2 : q + BlockSize(m2, q) = r
  <2>1. CASE r = e
    BY <1>1, <1>6, <2>1
  <2>2. CASE r \in S \cup {brk}
    <3>1. PICK q \in S : q + BlockSize(m, q) = r
      BY <1>3, <1>12, <2>2
    <3> QED BY <1>5, <3>1
  <2> QED BY <2>1, <2>2
<1>13. IsChain(m2, e, S2)
  BY <1>8, <1>9, <1>10, <1>11, <1>12 DEF IsChain, BlocksTile
<1> QED BY <1>4, <1>5, <1>6, <1>13

----------------------------------------------------------------------------
(* The operations of mm.c *)

(* Retagging writes the header and the footer of the new size.             *)
LEMMA TagBlock ==
  ASSUME NEW m \in Memory, NEW p \in Nat, p - 1 \in Addr,
         NEW size \in Nat, size >= 2, size % 2 = 0, p + size - 2 \in Addr,
         NEW alloc \in {0, 1}
  PROVE  LET m2 == tag_block(m, p, size, alloc)
         IN  /\ m2 \in Memory
             /\ m2[p - 1] = PACK(size, alloc)
             /\ m2[p + size - 2] = PACK(size, alloc)
             /\ \A a \in Addr : a # p - 1 /\ a # p + size - 2 => m2[a] = m[a]
<1> DEFINE m1 == update_value(m, p - 1, PACK(size, alloc))
<1>1. PACK(size, alloc) \in Word
  BY DEF PACK, Word
<1>2. /\ m1 \in Memory /\ m1[p - 1] = PACK(size, alloc)
      /\ \A a \in Addr : a # p - 1 => m1[a] = m[a]
  BY <1>1 DEF update_value, Memory
<1>3. get_size(m1, p - 1) = size
  BY <1>2 DEF get_size, PACK
<1>4. tag_block(m, p, size, alloc)
        = update_value(m1, p + size - 2, PACK(size, alloc))
  BY <1>3 DEF tag_block, get_header_pointer, get_footer_pointer
<1>5. p - 1 # p + size - 2
  OBVIOUS
<1> HIDE DEF m1
<1> QED BY <1>1, <1>2, <1>4, <1>5 DEF update_value, Memory

(* Merging the free block p: coalesce makes one free block of it and of    *)
(* its free neighbours, and returns where that block starts.               *)
LEMMA CoalesceJoins ==
  ASSUME NEW m \in Memory, NEW brk, NEW S, IsChain(m, brk, S),
         NEW p \in S, p # prologue_payload, IsFree(m, p),
         \A q, r \in S \ {p} : q + BlockSize(m, q) = r
            => ~(IsFree(m, q) /\ IsFree(m, r))
  PROVE  LET c == coalesce(m, p)
         IN  \E e \in S \cup {brk} :
               /\ c.ptr \in S /\ c.ptr # prologue_payload
               /\ c.ptr <= p /\ p + BlockSize(m, p) <= e
               /\ Joined(m, c.mem, c.ptr, e, 0)
               /\ \A r \in S : c.ptr <= r /\ r < e => IsFree(m, r)
               /\ \A q \in S : q + BlockSize(m, q) = c.ptr => ~IsFree(m, q)
               /\ e \in S => ~IsFree(m, e)
<1> DEFINE size == BlockSize(m, p)
           next == p + size
<1>1. PICK prev \in S : /\ prev + BlockSize(m, prev) = p
                        /\ get_prev_payload_pointer(m, p) = prev
                        /\ m[p - 2] = m[prev - 1]
  BY PrevBlock
<1> DEFINE psize == BlockSize(m, prev)
<1>2. /\ p \in Nat /\ size \in Nat /\ size >= 2 /\ next <= brk
      /\ p - 1 \in Addr /\ p + size - 2 \in Addr /\ get_size(m, p - 1) = size
      /\ m[p + size - 2] = m[p - 1]
      /\ prev \in Nat /\ psize \in Nat /\ psize >= 2
      /\ prev - 1 \in Addr /\ prev >= 2 /\ get_size(m, prev - 1) = psize
      /\ brk \in Nat /\ brk <= MAX_HEAP
  BY BlockInHeap
<1>3. /\ next \in S \cup {brk} /\ get_next_payload_pointer(m, p) = next
      /\ next - 1 \in Addr
  <2>1. next - 1 \in Addr
    BY <1>2, MaxHeapAssumption DEF Addr
  <2> QED BY <2>1, NextBlock
<1>4. /\ \A q, r \in S : q < r => q + BlockSize(m, q) <= r
      /\ size % 2 = 0 /\ psize % 2 = 0 /\ m[brk - 1] = PACK(0, 1)
      /\ \A r \in S : r \in Nat /\ r < brk
      /\ \A r \in S : BlockSize(m, r) \in Nat /\ BlockSize(m, r) % 2 = 0
  BY <1>2 DEF IsChain, TagsMatch, BlocksTile
<1>5. is_allocated(m, get_footer_pointer(m, prev)) <=> ~IsFree(m, prev)
  <2>1. get_footer_pointer(m, prev) = p - 2
    BY <1>1, <1>2 DEF get_footer_pointer, get_header_pointer
  <2>2. m[prev - 1] \in Word
    BY <1>2 DEF Memory
  <2> QED BY <1>1, <2>1, <2>2 DEF is_allocated, IsFree, Word
<1>6. is_allocated(m, get_header_pointer(next)) <=> ~IsFree(m, next)
  <2>1. m[next - 1] \in Word
    BY <1>3 DEF Memory
  <2> QED BY <2>1 DEF is_allocated, IsFree, get_header_pointer, Word
<1>7. ~IsFree(m, next) \/ next \in S
  BY <1>3, <1>4 DEF IsFree, PACK
<1>8. m[p - 1] = PACK(size, 0)
  <2>1. m[p - 1] \in Word
    BY <1>2 DEF Memory
  <2> QED BY <2>1 DEF IsFree, BlockSize, PACK, Word
<1>9. \A r \in S : prev <= r /\ r < next => r = prev \/ r = p
  BY <1>1, <1>2, <1>4
<1>9a. \A q \in S : q + BlockSize(m, q) = p => q = prev
  BY <1>1, <1>2, <1>4, BlockInHeap
<1>10. IsFree(m, prev) =>
         /\ prev # prologue_payload
         /\ \A q \in S : q + BlockSize(m, q) = prev => ~IsFree(m, q)
  <2>1. prev # p
    BY <1>1, <1>2
  <2>2. \A q \in S : q + BlockSize(m, q) = prev => q # p
    BY <1>1, <1>2
  <2>3. m[prologue_payload - 1] = PACK(2, 1)
    BY DEF IsChain
  <2> QED BY <2>1, <2>2, <2>3 DEF IsFree, PACK
<1> DEFINE nsize == BlockSize(m, next)
<1>11. ASSUME IsFree(m, next)
       PROVE  /\ next \in S /\ nsize \in Nat /\ nsize >= 2 /\ nsize % 2 = 0
              /\ get_size(m, next - 1) = nsize
              /\ next + nsize \in S \cup {brk}
              /\ next + nsize <= brk /\ next + nsize - 2 \in Addr
              /\ get_size(m, get_footer_pointer(m, next)) = nsize
              /\ next + nsize \in S => ~IsFree(m, next + nsize)
              /\ \A r \in S : prev <= r /\ r < next + nsize
                    => r = prev \/ r = p \/ r = next
  <2>1. next \in S
    BY <1>7, <1>11
  <2>2. /\ nsize \in Nat /\ nsize >= 2 /\ get_size(m, next - 1) = nsize
        /\ next + nsize <= brk /\ next + nsize - 2 \in Addr
        /\ m[next + nsize - 2] = m[next - 1]
    BY <2>1, BlockInHeap
  <2>3. next + nsize \in S \cup {brk}
    BY <2>1, NextBlock
  <2>4. get_footer_pointer(m, next) = next + nsize - 2
    BY <2>2 DEF get_footer_pointer, get_header_pointer
  <2>5. get_size(m, get_footer_pointer(m, next)) = nsize
    BY <2>2, <2>4 DEF get_size
  <2>6. next + nsize \in S => ~IsFree(m, next + nsize)
    BY <1>2, <1>11, <2>1, <2>2
  <2>7. \A r \in S : prev <= r /\ r < next + nsize => r = prev \/ r = p \/ r = next
    BY <1>1, <1>2, <1>4, <2>1, <2>2
  <2> QED BY <1>4, <2>1, <2>2, <2>3, <2>5, <2>6, <2>7
<1>12. CASE ~IsFree(m, prev) /\ ~IsFree(m, next)
  <2>1. coalesce(m, p) = [mem |-> m, ptr |-> p]
    BY <1>1, <1>3, <1>5, <1>6, <1>12 DEF coalesce
  <2>2. Joined(m, m, p, next, 0)
    <3>1. next - p = size /\ next - 2 = p + size - 2
      BY <1>2
    <3> QED BY <1>2, <1>8, <3>1 DEF Joined, SameOutside
  <2>3. \A r \in S : p <= r /\ r < next => r = p
    BY <1>1, <1>2, <1>4
  <2> QED BY <1>3, <1>9a, <1>12, <2>1, <2>2, <2>3, <1>2
<1>13. CASE ~IsFree(m, prev) /\ IsFree(m, next)
  <2> DEFINE total == size + nsize
             m2 == tag_block(m, p, total, 0)
  <2>1. coalesce(m, p) = [mem |-> m2, ptr |-> p]
    BY <1>1, <1>2, <1>3, <1>5, <1>6, <1>11, <1>13
    DEF coalesce, get_header_pointer
  <2>2. /\ total \in Nat /\ total >= 2 /\ total % 2 = 0
        /\ p + total = next + nsize /\ p + total - 2 = next + nsize - 2
    BY <1>2, <1>4, <1>11, <1>13, EvenArithmetic
  <2>3. Joined(m, m2, p, next + nsize, 0)
    <3>1. /\ m2 \in Memory /\ m2[p - 1] = PACK(total, 0)
          /\ m2[p + total - 2] = PACK(total, 0)
          /\ \A a \in Addr : a # p - 1 /\ a # p + total - 2 => m2[a] = m[a]
      BY <1>2, <1>11, <1>13, <2>2, TagBlock
    <3>2. \A a \in Addr : a < p - 1 \/ a > (next + nsize) - 2
             => a # p - 1 /\ a # p + total - 2
      BY <1>2, <1>11, <1>13, <2>2, MaxHeapAssumption DEF Addr
    <3>3. (next + nsize) - p = total /\ (next + nsize) - 2 = p + total - 2
      BY <1>2, <1>11, <1>13
    <3> QED BY <3>1, <3>2, <3>3 DEF Joined, SameOutside
  <2>4. \A r \in S : p <= r /\ r < next + nsize => IsFree(m, r)
    <3>1. \A r \in S : p <= r => prev <= r /\ r # prev
      BY <1>1, <1>2, <1>4
    <3> QED BY <1>11, <1>13, <3>1
  <2>5. next <= next + nsize
    BY <1>2, <1>11, <1>13
  <2> QED BY <1>2, <1>9a, <1>11, <1>13, <2>1, <2>3, <2>4, <2>5
<1>14. CASE IsFree(m, prev) /\ ~IsFree(m, next)
  <2> DEFINE total == size + psize
             m1 == update_value(m, prev - 1, PACK(total, 0))
             m2 == update_value(m1, p + size - 2, PACK(total, 0))
  <2>1. PACK(total, 0) \in Word
    BY <1>2 DEF PACK, Word
  <2>2. /\ m1 \in Memory /\ m1[prev - 1] = PACK(total, 0)
        /\ \A a \in Addr : a # prev - 1 => m1[a] = m[a]
    BY <1>2, <2>1 DEF update_value, Memory
  <2>3. get_size(m1, p - 1) = size
    <3>1. p - 1 # prev - 1
      BY <1>1, <1>2
    <3> QED BY <1>2, <2>2, <3>1 DEF get_size
  <2>4. coalesce(m, p) = [mem |-> m2, ptr |-> prev]
    BY <1>1, <1>2, <1>3, <1>5, <1>6, <1>14, <2>3
    DEF coalesce, get_header_pointer, get_footer_pointer
  <2>5. /\ m2 \in Memory /\ m2[p + size - 2] = PACK(total, 0)
        /\ m2[prev - 1] = PACK(total, 0)
        /\ \A a \in Addr : a # prev - 1 /\ a # p + size - 2 => m2[a] = m[a]
    <3>1. p + size - 2 # prev - 1
      BY <1>1, <1>2
    <3> HIDE DEF m1
    <3> QED BY <1>2, <2>1, <2>2, <3>1 DEF update_value, Memory
  <2>6. Joined(m, m2, prev, next, 0)
    <3>1. next - prev = total /\ next - 2 = p + size - 2
      BY <1>1, <1>2
    <3>2. \A a \in Addr : a < prev - 1 \/ a > next - 2
             => a # prev - 1 /\ a # p + size - 2
      BY <1>1, <1>2, MaxHeapAssumption DEF Addr
    <3> QED BY <2>5, <3>1, <3>2 DEF Joined, SameOutside
  <2>7. \A r \in S : prev <= r /\ r < next => IsFree(m, r)
    BY <1>9, <1>14
  <2> QED BY <1>1, <1>2, <1>3, <1>10, <1>14, <2>4, <2>6, <2>7
<1>15. CASE IsFree(m, prev) /\ IsFree(m, next)
  <2> DEFINE total == size + psize + nsize
             m1 == update_value(m, prev - 1, PACK(total, 0))
             m2 == update_value(m1, next + nsize - 2, PACK(total, 0))
  <2>1. PACK(total, 0) \in Word
    BY <1>2, <1>11, <1>15 DEF PACK, Word
  <2>2. /\ m1 \in Memory /\ m1[prev - 1] = PACK(total, 0)
        /\ \A a \in Addr : a # prev - 1 => m1[a] = m[a]
    BY <1>2, <2>1 DEF update_value, Memory
  <2>3. get_size(m1, next - 1) = nsize
    <3>1. next - 1 # prev - 1
      BY <1>1, <1>2
    <3> QED BY <1>3, <1>11, <1>15, <2>2, <3>1 DEF get_size
  <2>4. coalesce(m, p) = [mem |-> m2, ptr |-> prev]
    BY <1>1, <1>2, <1>3, <1>5, <1>6, <1>11, <1>15, <2>3
    DEF coalesce, get_header_pointer, get_footer_pointer
  <2>5. /\ m2 \in Memory /\ m2[next + nsize - 2] = PACK(total, 0)
        /\ m2[prev - 1] = PACK(total, 0)
        /\ \A a \in Addr : a # prev - 1 /\ a # next + nsize - 2 => m2[a] = m[a]
    <3>1. next + nsize - 2 # prev - 1
      BY <1>1, <1>2, <1>11, <1>15
    <3> HIDE DEF m1
    <3> QED BY <1>2, <1>11, <1>15, <2>1, <2>2, <3>1 DEF update_value, Memory
  <2>6. Joined(m, m2, prev, next + nsize, 0)
    <3>1. /\ (next + nsize) - prev = total
          /\ (next + nsize) - 2 = next + nsize - 2
      BY <1>1, <1>2, <1>11, <1>15
    <3>2. \A a \in Addr : a < prev - 1 \/ a > (next + nsize) - 2
             => a # prev - 1 /\ a # next + nsize - 2
      BY <1>1, <1>2, <1>11, <1>15, MaxHeapAssumption DEF Addr
    <3> QED BY <2>5, <3>1, <3>2 DEF Joined, SameOutside
  <2>7. \A r \in S : prev <= r /\ r < next + nsize => IsFree(m, r)
    BY <1>11, <1>15
  <2>8. next <= next + nsize /\ prev <= p
    BY <1>1, <1>2, <1>11, <1>15
  <2> QED BY <1>1, <1>10, <1>11, <1>15, <2>4, <2>6, <2>7, <2>8
<1> QED BY <1>12, <1>13, <1>14, <1>15

(* coalesce leaves a heap without free neighbours, touches no allocated    *)
(* block, and returns a free block at least as large as p.                 *)
LEMMA CoalesceKeepsHeap ==
  ASSUME NEW m \in Memory, NEW brk, NEW S, IsChain(m, brk, S),
         NEW p \in S, p # prologue_payload, IsFree(m, p),
         \A q, r \in S \ {p} : q + BlockSize(m, q) = r
            => ~(IsFree(m, q) /\ IsFree(m, r))
  PROVE  LET c == coalesce(m, p)
         IN  \E S2 : /\ Heap(c.mem, brk, S2) /\ S2 \subseteq S
                     /\ Held(c.mem, S2) = Held(m, S)
                     /\ Keeps(m, c.mem, Held(m, S))
                     /\ c.ptr \in S2 \ {prologue_payload}
                     /\ IsFree(c.mem, c.ptr)
                     /\ BlockSize(c.mem, c.ptr) >= BlockSize(m, p)
<1> DEFINE m2 == coalesce(m, p).mem
           p0 == coalesce(m, p).ptr
<1>1. PICK e \in S \cup {brk} :
        /\ p0 \in S /\ p0 # prologue_payload
        /\ p0 <= p /\ p + BlockSize(m, p) <= e
        /\ Joined(m, m2, p0, e, 0)
        /\ \A r \in S : p0 <= r /\ r < e => IsFree(m, r)
        /\ \A q \in S : q + BlockSize(m, q) = p0 => ~IsFree(m, q)
        /\ e \in S => ~IsFree(m, e)
  BY CoalesceJoins
<1> HIDE DEF m2, p0
<1> DEFINE S2 == Kept(S, p0, e)
<1>2. /\ \A r \in S : r \in Nat /\ BlockSize(m, r) \in Nat /\ BlockSize(m, r) >= 2
      /\ e \in Nat
  BY BlockInHeap
<1>3. p0 < e
  BY <1>1, <1>2
<1>4. /\ IsChain(m2, brk, S2) /\ m2 \in Memory
      /\ BlockSize(m2, p0) = e - p0 /\ IsFree(m2, p0)
      /\ \A r \in S2 \ {p0} :
            /\ m2[r - 1] = m[r - 1]
            /\ BlockSize(m2, r) = BlockSize(m, r)
            /\ \A a \in r .. r + BlockSize(m, r) - 2 : m2[a] = m[a]
  BY <1>1, <1>3, JoinChain
<1>5. /\ S2 \subseteq S /\ p0 \in S2
      /\ \A r \in S2 \ {p0} : (IsFree(m2, r) <=> IsFree(m, r)) /\ (r < p0 \/ r >= e)
  BY <1>1, <1>2, <1>4 DEF Kept, IsFree
<1>6. NoFreeNeighbours(m2, S2)
  <2> SUFFICES ASSUME NEW q \in S2, NEW r \in S2, q + BlockSize(m2, q) = r
               PROVE  ~(IsFree(m2, q) /\ IsFree(m2, r))
    BY DEF NoFreeNeighbours
  <2>1. CASE q = p0
    <3>1. r = e /\ r # p0
      BY <1>1, <1>2, <1>3, <1>4, <2>1
    <3> QED BY <1>1, <1>5, <3>1
  <2>2. CASE q # p0 /\ r = p0
    BY <1>1, <1>4, <1>5, <2>2
  <2>3. CASE q # p0 /\ r # p0
    <3>1. q # p /\ r # p
      BY <1>1, <1>2, <1>5, <2>3
    <3> QED BY <1>4, <1>5, <2>3, <3>1
  <2> QED BY <2>1, <2>2, <2>3
<1>7. Held(m, S) \subseteq S2 \ {p0}
  <2> SUFFICES ASSUME NEW r \in Held(m, S)
               PROVE  r \in S2 \ {p0}
    OBVIOUS
  <2>1. r \in S /\ ~IsFree(m, r) /\ r \in Nat /\ p0 \in Nat
    BY <1>1, <1>2 DEF Held
  <2>2. ~(p0 <= r /\ r < e)
    BY <1>1, <2>1
  <2> QED BY <1>2, <1>3, <2>1, <2>2 DEF Kept
<1>8. Held(m2, S2) = Held(m, S)
  BY <1>4, <1>5, <1>7 DEF Held
<1>9. Keeps(m, m2, Held(m, S))
  <2> SUFFICES ASSUME NEW r \in Held(m, S)
               PROVE  /\ m2[r - 1] = m[r - 1]
                      /\ \A a \in r .. r + BlockSize(m, r) - 3 : m2[a] = m[a]
    BY DEF Keeps
  <2>1. r \in S2 \ {p0} /\ r \in Nat /\ BlockSize(m, r) \in Nat
    BY <1>2, <1>7 DEF Held
  <2> QED BY <1>4, <2>1
<1>10. BlockSize(m2, p0) >= BlockSize(m, p)
  BY <1>1, <1>2, <1>4
<1>11. Heap(m2, brk, S2)
  BY <1>4, <1>6 DEF Heap
<1> QED BY <1>1, <1>4, <1>5, <1>8, <1>9, <1>10, <1>11 DEF m2, p0

(* mm_free gives back one block and leaves the others alone.               *)
LEMMA FreeKeepsHeap ==
  ASSUME NEW m, NEW brk, NEW S, Heap(m, brk, S), NEW p \in Held(m, S)
  PROVE  \E S2 : /\ Heap(mm_free(m, p), brk, S2)
                 /\ Held(mm_free(m, p), S2) = Held(m, S) \ {p}
                 /\ Keeps(m, mm_free(m, p), Held(m, S) \ {p})
<1> DEFINE size == BlockSize(m, p)
           m1 == tag_block(m, p, size, 0)
<1>1. m \in Memory /\ IsChain(m, brk, S) /\ NoFreeNeighbours(m, S)
  BY DEF Heap
<1>2. p \in S /\ p # prologue_payload /\ ~IsFree(m, p)
  BY DEF Held
<1>3. /\ p \in Nat /\ size \in Nat /\ size >= 2 /\ p - 1 \in Addr
      /\ p + size - 2 \in Addr /\ get_size(m, p - 1) = size /\ size % 2 = 0
      /\ p + size \in S \cup {brk}
  BY <1>1, <1>2, BlockInHeap DEF IsChain, TagsMatch
<1>4. mm_free(m, p) = coalesce(m1, p).mem
  BY <1>3 DEF mm_free, get_header_pointer
<1>5. /\ m1 \in Memory /\ m1[p - 1] = PACK(size, 0)
      /\ m1[p + size - 2] = PACK(size, 0)
      /\ \A a \in Addr : a # p - 1 /\ a # p + size - 2 => m1[a] = m[a]
  BY <1>1, <1>3, TagBlock
<1>6. Joined(m, m1, p, p + size, 0)
  <2>1. (p + size) - p = size /\ (p + size) - 2 = p + size - 2
    BY <1>3
  <2>2. \A a \in Addr : a < p - 1 \/ a > (p + size) - 2
           => a # p - 1 /\ a # p + size - 2
    BY <1>3, MaxHeapAssumption DEF Addr
  <2> HIDE DEF m1, size
  <2> QED BY <1>5, <2>1, <2>2 DEF Joined, SameOutside
<1>7. Kept(S, p, p + size) = S
  <2>1. \A r \in S : r \in Nat /\ (p < r => p + size <= r)
    BY <1>1, <1>2, BlockInHeap DEF IsChain, BlocksTile
  <2> QED BY <1>3, <2>1 DEF Kept
<1> HIDE DEF m1
<1>8. /\ IsChain(m1, brk, S) /\ BlockSize(m1, p) = size /\ IsFree(m1, p)
      /\ \A r \in S \ {p} :
            /\ m1[r - 1] = m[r - 1]
            /\ BlockSize(m1, r) = BlockSize(m, r)
            /\ \A a \in r .. r + BlockSize(m, r) - 2 : m1[a] = m[a]
  <2>1. p < p + size /\ (p + size) - p = size
    BY <1>3
  <2> QED BY <1>1, <1>2, <1>3, <1>6, <1>7, <2>1, JoinChain
<1>9. \A r \in S \ {p} : IsFree(m1, r) <=> IsFree(m, r)
  BY <1>8 DEF IsFree
<1>10. \A q, r \in S \ {p} : q + BlockSize(m1, q) = r
          => ~(IsFree(m1, q) /\ IsFree(m1, r))
  BY <1>1, <1>8, <1>9 DEF NoFreeNeighbours
<1>11. PICK S2 : /\ Heap(coalesce(m1, p).mem, brk, S2)
                 /\ Held(coalesce(m1, p).mem, S2) = Held(m1, S)
                 /\ Keeps(m1, coalesce(m1, p).mem, Held(m1, S))
  BY <1>2, <1>5, <1>8, <1>10, CoalesceKeepsHeap
<1>12. Held(m1, S) = Held(m, S) \ {p}
  BY <1>8, <1>9 DEF Held
<1>13. Keeps(m, coalesce(m1, p).mem, Held(m, S) \ {p})
  <2> DEFINE m2 == coalesce(m1, p).mem
  <2> HIDE DEF m2
  <2> SUFFICES ASSUME NEW r \in Held(m, S) \ {p}
               PROVE  /\ m2[r - 1] = m[r - 1]
                      /\ \A a \in r .. r + BlockSize(m, r) - 3 : m2[a] = m[a]
    BY DEF Keeps, m2
  <2>1. /\ m2[r - 1] = m1[r - 1]
        /\ \A a \in r .. r + BlockSize(m1, r) - 3 : m2[a] = m1[a]
    BY <1>11, <1>12 DEF Keeps, m2
  <2>2. r \in S \ {p}
    BY DEF Held
  <2>3. r \in Nat /\ BlockSize(m, r) \in Nat
    BY <1>1, <2>2, BlockInHeap
  <2> QED BY <1>8, <2>1, <2>2, <2>3
<1> QED BY <1>4, <1>11, <1>12, <1>13

(* place allocates the free block p for a request of asize words, and      *)
(* leaves the rest, if it is large enough, as a free block.                *)
LEMMA PlaceKeepsHeap ==
  ASSUME NEW m, NEW brk, NEW S, Heap(m, brk, S),
         NEW p \in S, p # prologue_payload, IsFree(m, p),
         NEW asize \in Nat, asize >= 2, asize % 2 = 0,
         asize <= BlockSize(m, p)
  PROVE  LET m2 == place(m, p, asize)
         IN  \E S2 : /\ Heap(m2, brk, S2)
                     /\ Held(m2, S2) = Held(m, S) \cup {p}
                     /\ p \notin Held(m, S)
                     /\ BlockSize(m2, p) >= asize
                     /\ Keeps(m, m2, Held(m, S))
<1> DEFINE m2 == place(m, p, asize)
           csize == BlockSize(m, p)
           e == p + csize
<1>1. m \in Memory /\ IsChain(m, brk, S) /\ NoFreeNeighbours(m, S)
  BY DEF Heap
<1>2. /\ p \in Nat /\ p >= 2 /\ csize \in Nat /\ csize >= 2 /\ p - 1 \in Addr
      /\ p + csize - 2 \in Addr /\ get_size(m, p - 1) = csize
      /\ csize % 2 = 0 /\ e \in S \cup {brk} /\ e <= brk
      /\ brk \in Nat /\ brk <= MAX_HEAP /\ p % 2 = 0
  BY <1>1, BlockInHeap DEF IsChain, TagsMatch
<1>3. \A q, r \in S : q + BlockSize(m, q) = r => ~(IsFree(m, q) /\ IsFree(m, r))
  BY <1>1 DEF NoFreeNeighbours
<1>4. /\ p \notin Held(m, S)
      /\ \A r \in S : r \in Nat /\ BlockSize(m, r) \in Nat
  BY <1>1, BlockInHeap DEF Held
<1>5. ASSUME NEW k \in Memory, NEW T,
             T \ {p} \subseteq S,
             \A r \in S \ {p} :
               /\ k[r - 1] = m[r - 1]
               /\ \A a \in r .. r + BlockSize(m, r) - 2 : k[a] = m[a]
      PROVE  Keeps(m, k, Held(m, S))
  <2> SUFFICES ASSUME NEW r \in Held(m, S)
               PROVE  /\ k[r - 1] = m[r - 1]
                      /\ \A a \in r .. r + BlockSize(m, r) - 3 : k[a] = m[a]
    BY DEF Keeps
  <2>1. r \in S \ {p} /\ r \in Nat /\ BlockSize(m, r) \in Nat
    BY <1>4 DEF Held
  <2> QED BY <1>5, <2>1
<1>6. CASE csize - asize >= 3
  <2> DEFINE x == p + asize
             m1 == tag_block(m, p, asize, 1)
             k == tag_block(m1, x, csize - asize, 0)
  <2>1. /\ x \in Nat /\ x >= p + 2 /\ x <= e - 2 /\ x % 2 = 0
        /\ csize - asize \in Nat /\ csize - asize >= 2
        /\ (csize - asize) % 2 = 0
        /\ x - p = asize /\ e - x = csize - asize
        /\ x - 2 = p + asize - 2 /\ e - 2 = x + (csize - asize) - 2
    <3>1. (csize - asize) % 2 = 0 /\ (p + asize) % 2 = 0
      BY <1>2, EvenArithmetic
    <3> QED BY <1>2, <1>6, <3>1
  <2>2. /\ x - 2 \in Addr /\ x - 1 \in Addr /\ e - 2 \in Addr
        /\ x - 2 # p - 1 /\ x - 1 # p - 1 /\ x - 2 # e - 2 /\ p - 1 # e - 2
        /\ x - 1 # x - 2
    BY <1>2, <2>1, MaxHeapAssumption DEF Addr
  <2>3. /\ m1 \in Memory /\ m1[p - 1] = PACK(asize, 1) /\ m1[x - 2] = PACK(asize, 1)
        /\ \A a \in Addr : a # p - 1 /\ a # x - 2 => m1[a] = m[a]
    <3>1. /\ m1 \in Memory /\ m1[p - 1] = PACK(asize, 1)
          /\ m1[p + asize - 2] = PACK(asize, 1)
          /\ \A a \in Addr : a # p - 1 /\ a # p + asize - 2 => m1[a] = m[a]
      <4>1. p + asize - 2 \in Addr
        BY <1>2, <1>6, MaxHeapAssumption DEF Addr
      <4> QED BY <1>1, <1>2, <4>1, TagBlock
    <3> HIDE DEF m1, x
    <3> QED BY <2>1, <3>1
  <2>4. get_next_payload_pointer(m1, p) = x
    BY <2>3 DEF get_next_payload_pointer, get_size, PACK
  <2>5. m2 = k
    BY <1>2, <1>6, <2>4 DEF place, get_header_pointer
  <2> HIDE DEF m1
  <2>6. /\ k \in Memory
        /\ k[x - 1] = PACK(csize - asize, 0) /\ k[e - 2] = PACK(csize - asize, 0)
        /\ \A a \in Addr : a # x - 1 /\ a # e - 2 => k[a] = m1[a]
    BY <2>1, <2>2, <2>3, TagBlock
  <2> HIDE DEF k
  <2>7. k[p - 1] = PACK(asize, 1) /\ k[x - 2] = PACK(asize, 1)
    BY <1>2, <2>2, <2>3, <2>6
  <2>8. SameOutside(m, k, p, e)
    <3>1. \A a \in Addr : a < p - 1 \/ a > e - 2
             => a # p - 1 /\ a # x - 2 /\ a # x - 1 /\ a # e - 2
      BY <1>2, <2>1, MaxHeapAssumption DEF Addr
    <3> QED BY <2>3, <2>6, <3>1 DEF SameOutside
  <2>9. /\ IsChain(k, brk, S \cup {x}) /\ x \notin S
        /\ BlockSize(k, p) = asize /\ ~IsFree(k, p)
        /\ BlockSize(k, x) = csize - asize /\ IsFree(k, x)
        /\ \A r \in S \ {p} :
              /\ k[r - 1] = m[r - 1]
              /\ BlockSize(k, r) = BlockSize(m, r)
              /\ \A a \in r .. r + BlockSize(m, r) - 2 : k[a] = m[a]
    <3> HIDE DEF x, e
    <3>1. /\ k[p - 1] = PACK(x - p, 1) /\ k[x - 2] = PACK(x - p, 1)
          /\ k[x - 1] = PACK(e - x, 0) /\ k[e - 2] = PACK(e - x, 0)
      BY <2>1, <2>6, <2>7
    <3>2. e = p + BlockSize(m, p)
      BY DEF e
    <3>3. /\ IsChain(k, brk, S \cup {x}) /\ x \notin S
          /\ BlockSize(k, p) = x - p /\ ~IsFree(k, p)
          /\ BlockSize(k, x) = e - x /\ IsFree(k, x)
          /\ \A r \in S \ {p} :
                /\ k[r - 1] = m[r - 1]
                /\ BlockSize(k, r) = BlockSize(m, r)
                /\ \A a \in r .. r + BlockSize(m, r) - 2 : k[a] = m[a]
      BY <1>1, <2>1, <2>8, <3>1, <3>2, SplitChain
    <3> QED BY <2>1, <3>3
  <2>10. \A r \in S \ {p} : IsFree(k, r) <=> IsFree(m, r)
    BY <2>9 DEF IsFree
  <2>11. NoFreeNeighbours(k, S \cup {x})
    <3> SUFFICES ASSUME NEW q \in S \cup {x}, NEW r \in S \cup {x},
                        q + BlockSize(k, q) = r
                 PROVE  ~(IsFree(k, q) /\ IsFree(k, r))
      BY DEF NoFreeNeighbours
    <3>1. CASE q = p \/ r = p
      BY <2>9, <3>1
    <3>2. CASE q = x /\ r # p
      <4>1. r = e
        BY <1>2, <2>1, <2>9, <3>2
      <4>2. r \in S \ {p}
        BY <1>2, <2>1, <3>2, <4>1
      <4>3. ~IsFree(m, r)
        BY <1>3, <4>1, <4>2
      <4> QED BY <2>10, <4>2, <4>3
    <3>3. CASE r = x /\ q # p /\ q # x
      <4>1. q \in S \ {p} /\ q + BlockSize(m, q) = x
        BY <2>9, <3>3
      <4>2. q < p => q + BlockSize(m, q) <= p
        BY <1>1, <4>1 DEF IsChain, BlocksTile
      <4>3. p < q => e <= q
        BY <1>1, <4>1 DEF IsChain, BlocksTile
      <4> QED BY <1>2, <1>4, <2>1, <4>1, <4>2, <4>3
    <3>4. CASE q \in S \ {p} /\ r \in S \ {p}
      BY <1>3, <2>9, <2>10, <3>4
    <3> QED BY <3>1, <3>2, <3>3, <3>4
  <2>12. Held(k, S \cup {x}) = Held(m, S) \cup {p}
    BY <2>9, <2>10 DEF Held
  <2>13. Keeps(m, k, Held(m, S))
    BY <1>5, <2>6, <2>9
  <2> HIDE DEF m2
  <2>14. Heap(k, brk, S \cup {x})
    BY <2>6, <2>9, <2>11 DEF Heap
  <2>15. BlockSize(k, p) >= asize
    BY <2>9
  <2> QED BY <1>4, <2>5, <2>12, <2>13, <2>14, <2>15 DEF m2
<1>7. CASE ~(csize - asize >= 3)
  <2>1. m2 = tag_block(m, p, csize, 1)
    BY <1>2, <1>7 DEF place, get_header_pointer
  <2> HIDE DEF m2
  <2>2. /\ m2 \in Memory /\ m2[p - 1] = PACK(csize, 1)
        /\ m2[p + csize - 2] = PACK(csize, 1)
        /\ \A a \in Addr : a # p - 1 /\ a # p + csize - 2 => m2[a] = m[a]
    BY <1>1, <1>2, <2>1, TagBlock
  <2>3. Joined(m, m2, p, e, 1)
    <3>1. (p + csize) - p = csize /\ (p + csize) - 2 = p + csize - 2
      BY <1>2
    <3>2. \A a \in Addr : a < p - 1 \/ a > (p + csize) - 2
             => a # p - 1 /\ a # p + csize - 2
      BY <1>2, MaxHeapAssumption DEF Addr
    <3> QED BY <2>2, <3>1, <3>2 DEF Joined, SameOutside
  <2>4. Kept(S, p, e) = S
    <3>1. \A r \in S : p < r => e <= r
      BY <1>1 DEF IsChain, BlocksTile
    <3>2. \A r \in S : r <= p \/ r >= e
      BY <1>2, <1>4, <3>1
    <3> HIDE DEF e
    <3> QED BY <3>2 DEF Kept
  <2>5. /\ IsChain(m2, brk, S) /\ BlockSize(m2, p) = csize /\ ~IsFree(m2, p)
        /\ \A r \in S \ {p} :
              /\ m2[r - 1] = m[r - 1]
              /\ BlockSize(m2, r) = BlockSize(m, r)
              /\ \A a \in r .. r + BlockSize(m, r) - 2 : m2[a] = m[a]
    <3>1. p < e /\ e - p = csize
      BY <1>2
    <3> HIDE DEF e
    <3> QED BY <1>1, <1>2, <2>3, <2>4, <3>1, JoinChain
  <2>6. \A r \in S \ {p} : IsFree(m2, r) <=> IsFree(m, r)
    BY <2>5 DEF IsFree
  <2>7. NoFreeNeighbours(m2, S)
    BY <1>3, <2>5, <2>6 DEF NoFreeNeighbours
  <2>8. Held(m2, S) = Held(m, S) \cup {p}
    BY <2>5, <2>6 DEF Held
  <2>9. Keeps(m, m2, Held(m, S))
    BY <1>5, <2>2, <2>5
  <2> QED BY <1>2, <1>4, <2>2, <2>5, <2>7, <2>8, <2>9 DEF Heap, m2
<1> QED BY <1>6, <1>7

(* extend_heap, when the break can move, adds a free block of at least the *)
(* size asked for, merged with a free block before the old break.          *)
LEMMA ExtendKeepsHeap ==
  ASSUME NEW m, NEW brk, NEW S, Heap(m, brk, S),
         NEW words \in Nat, words >= 2,
         ~sbrk_fails(brk, align_size(words))
  PROVE  LET x == extend_heap(m, brk, words)
         IN  /\ x.brk = brk + align_size(words)
             /\ \E S2 : /\ Heap(x.mem, x.brk, S2)
                        /\ Held(x.mem, S2) = Held(m, S)
                        /\ Keeps(m, x.mem, Held(m, S))
                        /\ x.ptr \in S2 \ {prologue_payload}
                        /\ IsFree(x.mem, x.ptr)
                        /\ BlockSize(x.mem, x.ptr) >= words
<1> DEFINE size == align_size(words)
           e == brk + size
           m1 == tag_block(m, brk, size, 0)
           m2 == update_value(m1, e - 1, PACK(0, 1))
           c == coalesce(m2, brk)
<1>1. m \in Memory /\ IsChain(m, brk, S) /\ NoFreeNeighbours(m, S)
  BY DEF Heap
<1>2. size \in Nat /\ size >= words /\ size >= 2 /\ size % 2 = 0
  BY DEF align_size
<1>3. /\ brk \in Nat /\ brk >= 4 /\ brk % 2 = 0 /\ brk <= MAX_HEAP
      /\ e <= MAX_HEAP
  BY <1>1, <1>2, MaxHeapAssumption DEF IsChain, sbrk_fails
<1> HIDE DEF size
<1>4. /\ e \in 4 .. MAX_HEAP /\ e >= brk + 2 /\ e - brk = size
      /\ brk - 1 \in Addr /\ brk + size - 2 \in Addr /\ e - 1 \in Addr
      /\ e - 2 = brk + size - 2 /\ e - 1 # e - 2 /\ e - 1 # brk - 1
  BY <1>2, <1>3, MaxHeapAssumption DEF Addr
<1>5. e % 2 = 0
  BY <1>2, <1>3, EvenArithmetic
<1>6. /\ m1 \in Memory /\ m1[brk - 1] = PACK(size, 0)
      /\ m1[brk + size - 2] = PACK(size, 0)
      /\ \A a \in Addr : a # brk - 1 /\ a # brk + size - 2 => m1[a] = m[a]
  BY <1>1, <1>2, <1>3, <1>4, TagBlock
<1>7. get_next_payload_pointer(m1, brk) = e
  BY <1>2, <1>6 DEF get_next_payload_pointer, get_size, PACK
<1>8. extend_heap(m, brk, words) = [mem |-> c.mem, brk |-> e, ptr |-> c.ptr]
  BY <1>7 DEF extend_heap, get_header_pointer, size
<1> HIDE DEF m1, e
<1>9. /\ m2 \in Memory /\ m2[e - 1] = PACK(0, 1)
      /\ \A a \in Addr : a # e - 1 => m2[a] = m1[a]
  <2>1. PACK(0, 1) \in Word
    BY DEF PACK, Word
  <2> QED BY <1>4, <1>6, <2>1 DEF update_value, Memory
<1> HIDE DEF m2
<1>10. /\ m2[brk - 1] = PACK(e - brk, 0) /\ m2[e - 2] = PACK(e - brk, 0)
       /\ \A a \in Addr : a < brk - 1 => m2[a] = m[a]
  <2>1. \A a \in Addr : a < brk - 1
           => a # brk - 1 /\ a # brk + size - 2 /\ a # e - 1
    BY <1>2, <1>3, <1>4, MaxHeapAssumption DEF Addr
  <2> QED BY <1>4, <1>6, <1>9, <2>1
<1>11. /\ IsChain(m2, e, S \cup {brk}) /\ brk \notin S
       /\ BlockSize(m2, brk) = e - brk /\ IsFree(m2, brk)
       /\ \A r \in S :
             /\ m2[r - 1] = m[r - 1]
             /\ BlockSize(m2, r) = BlockSize(m, r)
             /\ \A a \in r .. r + BlockSize(m, r) - 2 : m2[a] = m[a]
  BY <1>1, <1>4, <1>5, <1>9, <1>10, ExtendChain
<1>12. \A r \in S : IsFree(m2, r) <=> IsFree(m, r)
  BY <1>11 DEF IsFree
<1>13. \A q, r \in (S \cup {brk}) \ {brk} : q + BlockSize(m2, q) = r
          => ~(IsFree(m2, q) /\ IsFree(m2, r))
  BY <1>1, <1>11, <1>12 DEF NoFreeNeighbours
<1>14. brk # prologue_payload
  BY <1>3 DEF prologue_payload
<1>15. PICK S2 : /\ Heap(c.mem, e, S2)
                 /\ Held(c.mem, S2) = Held(m2, S \cup {brk})
                 /\ Keeps(m2, c.mem, Held(m2, S \cup {brk}))
                 /\ c.ptr \in S2 \ {prologue_payload}
                 /\ IsFree(c.mem, c.ptr)
                 /\ BlockSize(c.mem, c.ptr) >= BlockSize(m2, brk)
  BY <1>9, <1>11, <1>13, <1>14, CoalesceKeepsHeap
<1>16. Held(m2, S \cup {brk}) = Held(m, S)
  BY <1>11, <1>12 DEF Held
<1> HIDE DEF c
<1>17. Keeps(m, c.mem, Held(m, S))
  <2> SUFFICES ASSUME NEW r \in Held(m, S)
               PROVE  /\ c.mem[r - 1] = m[r - 1]
                      /\ \A a \in r .. r + BlockSize(m, r) - 3 : c.mem[a] = m[a]
    BY DEF Keeps
  <2>1. /\ c.mem[r - 1] = m2[r - 1]
        /\ \A a \in r .. r + BlockSize(m2, r) - 3 : c.mem[a] = m2[a]
    BY <1>15, <1>16 DEF Keeps
  <2>2. r \in S
    BY DEF Held
  <2>3. r \in Nat /\ BlockSize(m, r) \in Nat
    BY <1>1, <2>2, BlockInHeap
  <2> QED BY <1>11, <2>1, <2>2, <2>3
<1>18. BlockSize(c.mem, c.ptr) >= words
  <2>1. BlockSize(c.mem, c.ptr) \in Nat
    BY <1>15, BlockInHeap DEF Heap
  <2> QED BY <1>2, <1>4, <1>11, <1>15, <2>1
<1> QED BY <1>8, <1>15, <1>16, <1>17, <1>18 DEF e, size

(* A refused extension changes nothing and returns NULL.                   *)
LEMMA ExtendRefused ==
  ASSUME NEW m, NEW brk, NEW words, sbrk_fails(brk, align_size(words))
  PROVE  extend_heap(m, brk, words) = [mem |-> m, brk |-> brk, ptr |-> NULL]
  BY DEF extend_heap

(* Writing the payload of an allocated block disturbs no tag.              *)
LEMMA WriteKeepsHeap ==
  ASSUME NEW m, NEW brk, NEW S, Heap(m, brk, S), NEW p \in Held(m, S),
         NEW m2 \in Memory,
         \A a \in Addr : a \notin p .. p + BlockSize(m, p) - 3 => m2[a] = m[a]
  PROVE  /\ Heap(m2, brk, S) /\ Held(m2, S) = Held(m, S)
         /\ BlockSize(m2, p) = BlockSize(m, p)
         /\ Keeps(m, m2, Held(m, S) \ {p})
<1> DEFINE size == BlockSize(m, p)
           e == p + size
<1>1. m \in Memory /\ IsChain(m, brk, S) /\ NoFreeNeighbours(m, S)
  BY DEF Heap
<1>2. p \in S /\ p # prologue_payload /\ ~IsFree(m, p)
  BY DEF Held
<1>3. /\ p \in Nat /\ p >= 2 /\ size \in Nat /\ size >= 2 /\ p - 1 \in Addr
      /\ p + size - 2 \in Addr /\ m[p + size - 2] = m[p - 1]
      /\ p + size \in S \cup {brk}
  BY <1>1, <1>2, BlockInHeap, NextBlock
<1>4. m[p - 1] = PACK(size, 1)
  <2>1. m[p - 1] \in Word
    BY <1>1, <1>3 DEF Memory
  <2> QED BY <1>2, <2>1 DEF IsFree, BlockSize, PACK, Word
<1>5. Joined(m, m2, p, e, 1)
  <2>1. e - p = size /\ e - 2 = p + size - 2
    BY <1>3
  <2>2. p - 1 \notin p .. p + size - 3 /\ p + size - 2 \notin p .. p + size - 3
    BY <1>3
  <2>3. m2[p - 1] = PACK(size, 1) /\ m2[p + size - 2] = PACK(size, 1)
    BY <1>3, <1>4, <2>2
  <2>4. \A a \in Addr : a < p - 1 \/ a > e - 2 => a \notin p .. p + size - 3
    BY <1>3, MaxHeapAssumption DEF Addr
  <2> HIDE DEF e, size
  <2>5. \A a \in Addr : a \notin p .. p + size - 3 => m2[a] = m[a]
    BY DEF size
  <2> QED BY <2>1, <2>3, <2>4, <2>5 DEF Joined, SameOutside
<1>6. Kept(S, p, e) = S
  <2>1. \A r \in S : r \in Nat /\ (p < r => e <= r)
    BY <1>1, <1>2, BlockInHeap DEF IsChain, BlocksTile
  <2>2. \A r \in S : r <= p \/ r >= e
    BY <1>3, <2>1
  <2> HIDE DEF e
  <2> QED BY <2>2 DEF Kept
<1>7. /\ IsChain(m2, brk, S) /\ BlockSize(m2, p) = size /\ ~IsFree(m2, p)
      /\ \A r \in S \ {p} :
            /\ m2[r - 1] = m[r - 1]
            /\ BlockSize(m2, r) = BlockSize(m, r)
            /\ \A a \in r .. r + BlockSize(m, r) - 2 : m2[a] = m[a]
  <2>1. p < e /\ e - p = size /\ e \in S \cup {brk}
    BY <1>3
  <2> HIDE DEF e
  <2> QED BY <1>1, <1>2, <1>5, <1>6, <2>1, JoinChain
<1>8. \A r \in S : IsFree(m2, r) <=> IsFree(m, r)
  BY <1>2, <1>7 DEF IsFree
<1>9. NoFreeNeighbours(m2, S)
  BY <1>1, <1>7, <1>8 DEF NoFreeNeighbours
<1>10. Held(m2, S) = Held(m, S)
  BY <1>8 DEF Held
<1>11. Keeps(m, m2, Held(m, S) \ {p})
  <2> SUFFICES ASSUME NEW r \in Held(m, S) \ {p}
               PROVE  /\ m2[r - 1] = m[r - 1]
                      /\ \A a \in r .. r + BlockSize(m, r) - 3 : m2[a] = m[a]
    BY DEF Keeps
  <2>1. r \in S \ {p}
    BY DEF Held
  <2>2. r \in Nat /\ BlockSize(m, r) \in Nat
    BY <1>1, <2>1, BlockInHeap
  <2> QED BY <1>7, <2>1, <2>2
<1> QED BY <1>7, <1>9, <1>10, <1>11 DEF Heap

(* The heap mm_init writes before its first extension: a prologue and an   *)
(* epilogue.                                                               *)
LEMMA EmptyHeap ==
  ASSUME NEW m \in Memory, MAX_HEAP >= 4,
         m[1] = PACK(2, 1), m[2] = PACK(2, 1), m[3] = PACK(0, 1)
  PROVE  Heap(m, 4, {prologue_payload}) /\ Held(m, {prologue_payload}) = {}
<1>1. IsChain(m, 4, {prologue_payload})
  BY MaxHeapAssumption
  DEF IsChain, TagsMatch, BlocksTile, prologue_payload, BlockSize, PACK
<1>2. NoFreeNeighbours(m, {prologue_payload})
  BY DEF NoFreeNeighbours, IsFree, prologue_payload, PACK
<1> QED BY <1>1, <1>2 DEF Heap, Held
=============================================================================
