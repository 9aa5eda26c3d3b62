---------------------------- MODULE MMHeapProof ----------------------------
(***************************************************************************)
(* The safety properties of MMHeap for every heap size, every set of block *)
(* ids and every set of request sizes.                                     *)
(*                                                                         *)
(* The inductive invariant IInv says which blocks the boundary tags        *)
(* describe (HeapInv) and what the client's blocks hold.  BlocksProof      *)
(* shows what each operation of mm.c does to a chain; the lemmas below     *)
(* follow its result through the driver's handler.                         *)
(***************************************************************************)
EXTENDS MMHeap, BlocksProof

(* The blocks the client holds.                                            *)
LiveBlocks == {blocks[i] : i \in Live}

(* Every live block is an allocated block of its own, with room for the    *)
(* request; there is no other allocated block.                             *)
LiveMatch(m, S) ==
  /\ Held(m, S) = LiveBlocks
  /\ \A i \in Live :
       /\ block_sizes[i] \in Request
       /\ block_sizes[i] + 2 <= BlockSize(m, blocks[i])
       /\ \A j \in Live : blocks[j] = blocks[i] => j = i

HeapInv(S) == Heap(mem, mem_brk, S) /\ LiveMatch(mem, S) /\ SearchedInVain(S)

(* mm_realloc reaches mm_malloc only to move the block to a larger one, so *)
(* that memcpy's oldsize words fit there, and for an id the driver can     *)
(* read back.                                                              *)
RoomToCopy ==
  call.op = "realloc" => /\ call.size > oldsize(mem, blocks[call.index])
                         /\ ReadsBack(call.index)

IInv ==
  /\ TypeOK
  /\ TraceValid
  /\ DataIntact
  /\ RoomToCopy
  /\ ~Started => Live = {} /\ call = Idle
  /\ Started => mem_brk > 4
  /\ Started => \E S : HeapInv(S)

----------------------------------------------------------------------------
(* The driver's checks *)

(* align_size never shrinks a request and yields a multiple of DOUBLE_SIZE.*)
LEMMA AlignSize ==
  ASSUME NEW n \in Nat
  PROVE  align_size(n) \in Nat /\ align_size(n) >= n /\ align_size(n) % 2 = 0
  BY DEF align_size

(* add_range finds nothing wrong with the payload of an allocated block,   *)
(* other allocated blocks being in the list.                               *)
LEMMA RangeAccepted ==
  ASSUME NEW m, NEW brk, NEW S, Heap(m, brk, S),
         NEW p \in Held(m, S), NEW n \in Nat, n >= 1, n + 2 <= BlockSize(m, p),
         NEW K,
         \A j \in K : /\ blocks[j] \in Held(m, S) \ {p}
                      /\ block_sizes[j] \in Nat
                      /\ block_sizes[j] + 2 <= BlockSize(m, blocks[j])
  PROVE  add_range(p, n, brk, K) = "running"
<1>1. m \in Memory /\ IsChain(m, brk, S)
  BY DEF Heap
<1>2. /\ p \in S /\ p \in Nat /\ p >= 2 /\ BlockSize(m, p) \in Nat
      /\ p + BlockSize(m, p) <= brk /\ brk \in Nat
  BY <1>1, BlockInHeap DEF Held
<1>3. p \in 0 .. brk - 1 /\ p + n - 1 \in 0 .. brk - 1
  BY <1>2
<1>4. ASSUME NEW j \in K
      PROVE  /\ p \notin blocks[j] .. blocks[j] + block_sizes[j] - 1
             /\ p + n - 1 \notin blocks[j] .. blocks[j] + block_sizes[j] - 1
  <2> DEFINE q == blocks[j]
  <2>1. q \in S /\ q # p /\ block_sizes[j] \in Nat /\ block_sizes[j] + 2 <= BlockSize(m, q)
    BY DEF Held
  <2>2. q \in Nat /\ BlockSize(m, q) \in Nat
    BY <1>1, <2>1, BlockInHeap
  <2>3. /\ p < q => p + BlockSize(m, p) <= q
        /\ q < p => q + BlockSize(m, q) <= p
    BY <1>1, <1>2, <2>1 DEF IsChain, BlocksTile
  <2> HIDE DEF q
  <2>4. CASE p < q
    BY <1>2, <2>1, <2>2, <2>3, <2>4 DEF q
  <2>5. CASE q < p
    BY <1>2, <2>1, <2>2, <2>3, <2>5 DEF q
  <2> QED BY <1>2, <2>1, <2>2, <2>4, <2>5
<1> QED BY <1>3, <1>4 DEF add_range, range

(* The block of a live id is one of the client's.                          *)
LEMMA LiveHeld ==
  ASSUME NEW m, NEW S, LiveMatch(m, S), NEW i \in Live
  PROVE  blocks[i] \in Held(m, S)
  BY DEF LiveMatch, LiveBlocks

(* memset changes the payload it fills and nothing else.                   *)
LEMMA Memset ==
  ASSUME NEW m \in Memory, NEW lo, NEW n, NEW w \in Word
  PROVE  /\ memset(m, lo, n, w) \in Memory
         /\ \A a \in Addr : memset(m, lo, n, w)[a]
                              = IF a \in lo .. lo + n - 1 THEN w ELSE m[a]
  BY DEF memset, Memory

(* The byte pattern of memset is a word like any other.                    *)
LEMMA FillIsWord ==
  ASSUME NEW i \in Index
  PROVE  Fill[i] \in Word
<1>1. fill(i) \in Nat
  BY IndexAssumption, CharAssumption DEF fill
<1>2. 2 * MAX_HEAP * fill(i) \in Nat /\ fill(i) % 2 \in {0, 1}
  BY <1>1, MaxHeapAssumption
<1> QED BY <1>2 DEF Fill, Word

(* A trace asks for at least one word.                                     *)
LEMMA RequestPositive ==
  ASSUME NEW n \in Request
  PROVE  n \in Nat /\ n >= 1 /\ n + 2 \in Nat
  BY RequestAssumption

(* What IInv says while the program is in mm_malloc.                       *)
LEMMA InCall ==
  ASSUME IInv, Searching
  PROVE  /\ call.index \in Index /\ call.size \in Request
         /\ call.size \in Nat /\ call.size >= 1
         /\ call.asize = align_size(call.size + 2)
         /\ call.asize \in Nat /\ call.asize >= call.size + 2
         /\ call.asize % 2 = 0
         /\ call.op \in {"alloc", "realloc"}
         /\ call.op = "realloc" <=> call.index \in Live
         /\ status = "running" /\ Started
<1>1. /\ call \in [op : {"alloc", "realloc"}, index : Index, size : Request,
                  asize : Nat, bp : 2 .. MAX_HEAP]
      /\ call.asize = align_size(call.size + 2)
      /\ call.op = "realloc" <=> call.index \in Live
      /\ status = "running"
  BY DEF IInv, TypeOK, Searching
<1>1a. call.size \in Request /\ call.index \in Index /\ call.op \in {"alloc", "realloc"}
  BY <1>1
<1>2. call.size \in Nat /\ call.size >= 1 /\ call.size + 2 \in Nat
  BY <1>1a, RequestPositive
<1>3. Started
  BY <1>1 DEF Started, InitFailed
<1> QED BY <1>1, <1>1a, <1>2, <1>3, AlignSize

(* The driver accepts the block p that mm_malloc or mm_realloc returns in  *)
(* memory m, and the invariant holds for the client's new blocks.          *)
LEMMA ReceiveInv ==
  ASSUME IInv, Searching,
         NEW m, NEW brk, NEW S, NEW p, brk >= mem_brk,
         Heap(m, brk, S), p \in Held(m, S), call.size + 2 <= BlockSize(m, p),
         Held(m, S) = {blocks[j] : j \in Live \ {call.index}} \cup {p},
         \A j \in Live \ {call.index} : blocks[j] # p,
         Keeps(mem, m, {blocks[j] : j \in Live \ {call.index}}),
         call.op = "realloc" => preserved(m, p, call.index, call.size),
         Receive(m, brk, p)
  PROVE  IInv' /\ status' = "running"
<1> DEFINE i == call.index
           n == call.size
           others == Live \ {i}
           m2 == memset(m, p, n, Fill[i])
<1>1. /\ i \in Index /\ n \in Request /\ n \in Nat /\ n >= 1 /\ Started
  BY InCall
<1>2. /\ m \in Memory /\ IsChain(m, brk, S)
      /\ p \in S /\ p # prologue_payload
  BY DEF Heap, Held
<1>3. /\ p \in Nat /\ p >= 2 /\ p <= MAX_HEAP /\ BlockSize(m, p) \in Nat
      /\ p + BlockSize(m, p) <= brk /\ brk \in Nat /\ brk <= MAX_HEAP
  BY <1>2, BlockInHeap, MaxHeapAssumption
<1>4. PICK S0 : HeapInv(S0)
  BY <1>1 DEF IInv
<1>5. \A j \in others :
         /\ j \in Index /\ blocks[j] \in Held(m, S) \ {p}
         /\ block_sizes[j] \in Request /\ block_sizes[j] \in Nat
         /\ BlockSize(m, blocks[j]) = BlockSize(mem, blocks[j])
         /\ block_sizes[j] + 2 <= BlockSize(m, blocks[j])
         /\ \A k \in Live : blocks[k] = blocks[j] => k = j
  <2> TAKE j \in others
  <2>1. /\ block_sizes[j] \in Request
        /\ block_sizes[j] + 2 <= BlockSize(mem, blocks[j])
        /\ \A k \in Live : blocks[k] = blocks[j] => k = j
    BY <1>4 DEF HeapInv, LiveMatch
  <2>2. m[blocks[j] - 1] = mem[blocks[j] - 1]
    BY DEF Keeps
  <2> QED BY <2>1, <2>2, RequestAssumption DEF BlockSize, Live
<1>6. add_range(p, n, brk, others) = "running"
  BY <1>1, <1>5, RangeAccepted
<1>7. status' = "running"
  BY <1>6 DEF Receive
<1>8. /\ mem' = m2 /\ mem_brk' = brk /\ call' = Idle
      /\ blocks' = [blocks EXCEPT ![i] = p]
      /\ block_sizes' = [block_sizes EXCEPT ![i] = n]
  BY <1>7 DEF Receive
<1>9. /\ blocks \in [Index -> 0 .. MAX_HEAP]
      /\ block_sizes \in [Index -> Request \cup {0}]
  BY DEF IInv, TypeOK
<1>10. /\ Live' = others \cup {i}
       /\ blocks'[i] = p /\ block_sizes'[i] = n
       /\ \A j \in others : blocks'[j] = blocks[j] /\ block_sizes'[j] = block_sizes[j]
  BY <1>1, <1>3, <1>8, <1>9 DEF Live, NULL
<1>11. m2 \in Memory /\ \A a \in Addr : m2[a] = IF a \in p .. p + n - 1 THEN Fill[i] ELSE m[a]
  BY <1>1, <1>2, FillIsWord, Memset
<1> HIDE DEF m2
<1>12. /\ Heap(m2, brk, S) /\ Held(m2, S) = Held(m, S)
       /\ BlockSize(m2, p) = BlockSize(m, p)
       /\ Keeps(m, m2, Held(m, S) \ {p})
  <2>1. \A a \in Addr : a \notin p .. p + BlockSize(m, p) - 3 => m2[a] = m[a]
    BY <1>1, <1>3, <1>11
  <2> QED BY <1>11, <2>1, WriteKeepsHeap
<1>13. TypeOK'
  BY <1>1, <1>3, <1>7, <1>8, <1>9, <1>11 DEF TypeOK, Memory, Idle
<1>14. TraceValid' /\ RoomToCopy' /\ Started'
  BY <1>7, <1>8
  DEF TraceValid, RoomToCopy, Started, Idle, InitFailed, OutsideHeap, Overlap, DataLost
<1>15. DataIntact'
  <2> SUFFICES ASSUME NEW j \in Live',
                      NEW a \in blocks'[j] .. blocks'[j] + block_sizes'[j] - 1
               PROVE  m2[a] = Fill[j]
    BY <1>8 DEF DataIntact, Fill
  <2>1. CASE j = i
    <3>1. a \in Addr
      BY <1>1, <1>3, <1>10, <2>1, MaxHeapAssumption DEF Addr
    <3> QED BY <1>10, <1>11, <2>1, <3>1
  <2>2. CASE j # i
    <3>1. /\ j \in others
          /\ a \in blocks[j] .. blocks[j] + block_sizes[j] - 1
      BY <1>10, <2>2
    <3>2. mem[a] = Fill[j]
      BY <3>1 DEF IInv, DataIntact
    <3>3. blocks[j] \in Nat /\ BlockSize(m, blocks[j]) \in Nat
      BY <1>2, <1>5, <3>1, BlockInHeap DEF Held
    <3>4. a \in blocks[j] .. blocks[j] + BlockSize(m, blocks[j]) - 3
      BY <1>5, <3>1, <3>3
    <3>5. m[a] = mem[a]
      BY <1>5, <3>1, <3>4 DEF Keeps
    <3>6. m2[a] = m[a]
      BY <1>5, <1>12, <3>1, <3>4 DEF Keeps
    <3> QED BY <3>2, <3>5, <3>6
  <2> QED BY <2>1, <2>2
<1>16. HeapInv(S)'
  <2>1. Heap(mem', mem_brk', S)
    BY <1>8, <1>12
  <2>2. Held(m2, S) = LiveBlocks'
    BY <1>10, <1>12 DEF LiveBlocks
  <2>3. \A j \in Live' :
           /\ block_sizes'[j] \in Request
           /\ block_sizes'[j] + 2 <= BlockSize(m2, blocks'[j])
           /\ \A k \in Live' : blocks'[k] = blocks'[j] => k = j
    <3> TAKE j \in Live'
    <3>1. CASE j = i
      BY <1>1, <1>5, <1>10, <1>12, <3>1
    <3>2. CASE j # i
      <4>1. j \in others
        BY <1>10, <3>2
      <4>2. m2[blocks[j] - 1] = m[blocks[j] - 1]
        BY <1>5, <1>12, <4>1 DEF Keeps
      <4>3. BlockSize(m2, blocks[j]) = BlockSize(m, blocks[j])
        BY <4>2 DEF BlockSize
      <4> QED BY <1>5, <1>10, <4>1, <4>3
    <3> QED BY <3>1, <3>2
  <2>4. SearchedInVain(S)'
    BY <1>8 DEF SearchedInVain, Searching
  <2>5. LiveMatch(mem, S)'
    BY <1>8, <2>2, <2>3 DEF LiveMatch
  <2> QED BY <2>1, <2>4, <2>5 DEF HeapInv
<1>17. mem_brk' > 4
  BY <1>1, <1>3, <1>8 DEF IInv, TypeOK
<1> QED BY <1>7, <1>13, <1>14, <1>15, <1>16, <1>17 DEF IInv

(* mm_malloc has allocated block p in memory m, beside the client's live   *)
(* blocks: the rest of the handler, with the copy and the release of a     *)
(* realloc, ends with the invariant.                                       *)
LEMMA PlacedInv ==
  ASSUME IInv, Searching,
         NEW m, NEW brk, NEW S, NEW p, brk >= mem_brk,
         Heap(m, brk, S),
         Held(m, S) = LiveBlocks \cup {p}, p \notin LiveBlocks,
         call.asize <= BlockSize(m, p),
         Keeps(mem, m, LiveBlocks),
         Placed(m, brk, p)
  PROVE  IInv' /\ status' = "running"
<1> DEFINE i == call.index
           n == call.size
           others == {blocks[j] : j \in Live \ {i}}
<1>1. /\ i \in Index /\ n \in Request /\ n \in Nat /\ n >= 1 /\ Started
      /\ call.asize \in Nat /\ call.asize >= n + 2
      /\ call.op = "realloc" <=> i \in Live
  BY InCall
<1>2. p \in Held(m, S) /\ m \in Memory /\ IsChain(m, brk, S) /\ p \in S
  BY DEF Heap, Held
<1>3. /\ p \in Nat /\ p >= 2 /\ p - 1 \in Addr /\ BlockSize(m, p) \in Nat
      /\ p + BlockSize(m, p) <= brk /\ brk \in Nat /\ brk <= MAX_HEAP
  BY <1>2, BlockInHeap
<1>4. n + 2 <= BlockSize(m, p)
  BY <1>1, <1>3
<1>5. CASE call.op # "realloc"
  <2>1. Live \ {i} = Live
    BY <1>1, <1>5
  <2>2. /\ Held(m, S) = others \cup {p} /\ \A j \in Live \ {i} : blocks[j] # p
        /\ Keeps(mem, m, others)
    BY <2>1 DEF LiveBlocks
  <2>3. Receive(m, brk, p)
    BY <1>5 DEF Placed
  <2> QED BY <1>2, <1>4, <1>5, <2>2, <2>3, ReceiveInv
<1>6. CASE call.op = "realloc"
  <2> DEFINE old == blocks[i]
             count == oldsize(mem, old)
             m2 == memcpy(m, p, old, count)
             m3 == mm_free(m2, old)
  <2>1. PICK S0 : HeapInv(S0)
    BY <1>1 DEF IInv
  <2>2. /\ i \in Live /\ old \in LiveBlocks /\ old # p
        /\ block_sizes[i] \in Request /\ block_sizes[i] \in Nat
        /\ block_sizes[i] + 2 <= BlockSize(mem, old)
        /\ \A j \in Live : blocks[j] = old => j = i
    BY <1>1, <1>6, <2>1, RequestPositive DEF HeapInv, LiveMatch, LiveBlocks
  <2>3. /\ mem \in Memory /\ old \in S0 /\ old \in Nat /\ old >= 2
        /\ BlockSize(mem, old) \in Nat /\ BlockSize(mem, old) >= 2
        /\ get_size(mem, old - 1) = BlockSize(mem, old)
    BY <2>1, <2>2, BlockInHeap DEF HeapInv, LiveMatch, Heap, Held
  <2>4. /\ count = BlockSize(mem, old) - 2 /\ count \in Nat
        /\ block_sizes[i] <= count
    BY <2>2, <2>3 DEF oldsize, get_header_pointer
  <2>5. n > count
    BY <1>6 DEF IInv, RoomToCopy
  <2>6. /\ m[old - 1] = mem[old - 1] /\ BlockSize(m, old) = BlockSize(mem, old)
        /\ \A a \in old .. old + count - 1 : m[a] = mem[a]
    <3>1. m[old - 1] = mem[old - 1]
      BY <2>2 DEF Keeps
    <3>2. \A a \in old .. old + BlockSize(mem, old) - 3 : m[a] = mem[a]
      BY <2>2 DEF Keeps
    <3>3. old + BlockSize(mem, old) - 3 = old + count - 1
      BY <2>3, <2>4
    <3> HIDE DEF count, old
    <3> QED BY <3>1, <3>2, <3>3 DEF BlockSize
  <2>7. /\ old \in S /\ old + BlockSize(m, old) <= brk
        /\ old \in Held(m, S)
    BY <1>2, <2>2, BlockInHeap DEF Held
  <2>8. /\ m2 \in Memory
        /\ \A a \in Addr : a \notin p .. p + count - 1 => m2[a] = m[a]
        /\ \A k \in 0 .. count - 1 : m2[p + k] = m[old + k]
    <3>1. \A a \in Addr : a \in p .. p + count - 1 => old + (a - p) \in Addr
      BY <1>3, <2>3, <2>4, <2>6, <2>7, MaxHeapAssumption DEF Addr
    <3>2. \A k \in 0 .. count - 1 :
             p + k \in Addr /\ p + k \in p .. p + count - 1 /\ old + ((p + k) - p) = old + k
      BY <1>3, <1>4, <2>3, <2>4, <2>5, <1>1, MaxHeapAssumption DEF Addr
    <3> HIDE DEF count, old
    <3> QED BY <1>2, <3>1, <3>2 DEF memcpy, Memory
  <2> HIDE DEF m2
  <2>9. /\ Heap(m2, brk, S) /\ Held(m2, S) = Held(m, S)
        /\ BlockSize(m2, p) = BlockSize(m, p)
        /\ Keeps(m, m2, Held(m, S) \ {p})
    <3>1. \A a \in Addr : a \notin p .. p + BlockSize(m, p) - 3 => m2[a] = m[a]
      BY <1>1, <1>3, <1>4, <2>4, <2>5, <2>8
    <3> QED BY <1>2, <2>8, <3>1, WriteKeepsHeap
  <2>10. PICK S3 : /\ Heap(m3, brk, S3)
                   /\ Held(m3, S3) = Held(m2, S) \ {old}
                   /\ Keeps(m2, m3, Held(m2, S) \ {old})
    BY <2>7, <2>9, FreeKeepsHeap
  <2> HIDE DEF m3
  <2>11. LiveBlocks \ {old} = others
    BY <2>2 DEF LiveBlocks
  <2>12. /\ Held(m3, S3) = others \cup {p} /\ p \in Held(m3, S3)
         /\ \A j \in Live \ {i} : blocks[j] # p
    BY <2>2, <2>9, <2>10, <2>11 DEF LiveBlocks
  <2>13. m3[p - 1] = m2[p - 1]
         /\ \A a \in p .. p + BlockSize(m, p) - 3 : m3[a] = m2[a]
    <3>1. p \in Held(m2, S) \ {old}
      BY <1>2, <2>2, <2>9
    <3> QED BY <2>9, <2>10, <3>1 DEF Keeps
  <2>14. n + 2 <= BlockSize(m3, p)
    BY <1>4, <2>9, <2>13 DEF BlockSize
  <2>15. Keeps(mem, m3, others)
    <3> SUFFICES ASSUME NEW r \in others
                 PROVE  /\ m3[r - 1] = mem[r - 1]
                        /\ \A a \in r .. r + BlockSize(mem, r) - 3 : m3[a] = mem[a]
      BY DEF Keeps
    <3>1. r \in LiveBlocks /\ r # old /\ r # p /\ r \in Held(m, S) \ {p}
          /\ r \in Held(m2, S) \ {old}
      BY <2>9, <2>11
    <3>2. m[r - 1] = mem[r - 1]
          /\ \A a \in r .. r + BlockSize(mem, r) - 3 : m[a] = mem[a]
      BY <3>1 DEF Keeps
    <3>3. m2[r - 1] = m[r - 1]
          /\ \A a \in r .. r + BlockSize(m, r) - 3 : m2[a] = m[a]
      BY <2>9, <3>1 DEF Keeps
    <3>4. m3[r - 1] = m2[r - 1]
          /\ \A a \in r .. r + BlockSize(m2, r) - 3 : m3[a] = m2[a]
      BY <2>10, <3>1 DEF Keeps
    <3>5. BlockSize(m, r) = BlockSize(mem, r) /\ BlockSize(m2, r) = BlockSize(mem, r)
      BY <3>2, <3>3 DEF BlockSize
    <3> QED BY <3>2, <3>3, <3>4, <3>5
  <2>16. preserved(m3, p, i, n)
    <3>0. ReadsBack(i)
      BY <1>6 DEF IInv, RoomToCopy
    <3> SUFFICES ASSUME NEW k \in 0 .. block_sizes[i] - 1, k < n
                 PROVE  m3[p + k] = Fill[i]
      BY <3>0 DEF preserved
    <3>1. k \in 0 .. count - 1 /\ k \in Nat
      BY <2>2, <2>4
    <3>2. /\ p + k \in p .. p + BlockSize(m, p) - 3
          /\ old + k \in old .. old + count - 1
          /\ old + k \in old .. old + block_sizes[i] - 1
      BY <1>3, <1>4, <2>2, <2>3, <2>4, <2>5, <1>1, <3>1
    <3>3. mem[old + k] = Fill[i]
      BY <2>2, <3>2 DEF IInv, DataIntact
    <3> HIDE DEF count, old
    <3> QED BY <2>6, <2>8, <2>13, <3>1, <3>2, <3>3
  <2>17. Receive(m3, brk, p)
    BY <1>6 DEF Placed, m3, m2
  <2> QED BY <2>10, <2>12, <2>14, <2>15, <2>16, <2>17, ReceiveInv
<1> QED BY <1>5, <1>6

----------------------------------------------------------------------------
(* The steps *)

(* Where the search stands: at a block of the chain, or at the epilogue,   *)
(* whose size is 0.                                                        *)
LEMMA AtBlockInChain ==
  ASSUME NEW m \in Memory, NEW brk, NEW S, IsChain(m, brk, S),
         NEW p \in S \cup {brk}
  PROVE  /\ p \in S => /\ get_size(m, get_header_pointer(p)) = BlockSize(m, p)
                       /\ get_size(m, get_header_pointer(p)) > 0
                       /\ is_allocated(m, get_header_pointer(p)) <=> ~IsFree(m, p)
         /\ p = brk => ~(get_size(m, get_header_pointer(p)) > 0)
<1>1. ASSUME p \in S
      PROVE  /\ get_size(m, p - 1) = BlockSize(m, p)
             /\ get_size(m, p - 1) > 0
             /\ is_allocated(m, p - 1) <=> ~IsFree(m, p)
  <2>1. /\ get_size(m, p - 1) = BlockSize(m, p) /\ BlockSize(m, p) >= 2
        /\ p - 1 \in Addr /\ BlockSize(m, p) \in Nat
    BY <1>1, BlockInHeap
  <2>2. m[p - 1] \in Word
    BY <2>1 DEF Memory
  <2> QED BY <2>1, <2>2 DEF is_allocated, IsFree, Word
<1>2. ASSUME p = brk
      PROVE  ~(get_size(m, p - 1) > 0)
  BY <1>2 DEF IsChain, get_size, PACK
<1> QED BY <1>1, <1>2 DEF get_header_pointer

(* mem_reset_brk and mm_init build the chain of one free block.            *)
LEMMA StartTraceInv ==
  ASSUME IInv, StartTrace
  PROVE  IInv'
<1> DEFINE heap == mm_init(mem)
           m1 == update_value(mem, 0, PACK(0, 0))
           m2 == update_value(m1, 1, PACK(2, 1))
           m3 == update_value(m2, 2, PACK(2, 1))
           m4 == update_value(m3, 3, PACK(0, 1))
<1>1. /\ mem' = heap.mem /\ mem_brk' = heap.brk /\ call' = Idle
      /\ blocks' = [j \in Index |-> NULL] /\ block_sizes' = [j \in Index |-> 0]
      /\ status' = IF heap.ptr = NULL THEN InitFailed ELSE "running"
  BY DEF StartTrace
<1>2. mem \in Memory
  BY DEF IInv, TypeOK, Memory
<1>3. Live' = {} /\ LiveBlocks' = {}
  BY <1>1 DEF Live, LiveBlocks
<1>4. /\ DataIntact' /\ RoomToCopy' /\ TraceValid'
  BY <1>1, <1>3 DEF DataIntact, RoomToCopy, TraceValid, Idle, InitFailed,
                    OutsideHeap, Overlap, DataLost
<1>5. /\ heap.mem \in Memory /\ heap.brk \in 0 .. MAX_HEAP
      /\ heap.ptr # NULL =>
            /\ heap.brk > 4
            /\ \E S : Heap(heap.mem, heap.brk, S) /\ Held(heap.mem, S) = {}
  <2>1. CASE sbrk_fails(0, 4)
    BY <1>2, <2>1, MaxHeapAssumption DEF mm_init
  <2>2. CASE ~sbrk_fails(0, 4)
    <3>1. MAX_HEAP >= 4
      BY <2>2, MaxHeapAssumption DEF sbrk_fails
    <3>2. PACK(0, 0) \in Word /\ PACK(2, 1) \in Word /\ PACK(0, 1) \in Word
      BY DEF PACK, Word
    <3>3. 0 \in Addr /\ 1 \in Addr /\ 2 \in Addr /\ 3 \in Addr
      BY <3>1, MaxHeapAssumption DEF Addr
    <3>4. /\ m4 \in Memory
          /\ m4[1] = PACK(2, 1) /\ m4[2] = PACK(2, 1) /\ m4[3] = PACK(0, 1)
      BY <1>2, <3>2, <3>3 DEF update_value, Memory
    <3> HIDE DEF m4
    <3>5. heap = extend_heap(m4, 4, CHUNKSIZE)
      BY <2>2 DEF mm_init, m4
    <3>6. Heap(m4, 4, {prologue_payload}) /\ Held(m4, {prologue_payload}) = {}
      BY <3>1, <3>4, EmptyHeap
    <3>7. CASE sbrk_fails(4, align_size(CHUNKSIZE))
      BY <3>1, <3>4, <3>5, <3>7, ExtendRefused, MaxHeapAssumption
    <3>8. CASE ~sbrk_fails(4, align_size(CHUNKSIZE))
      <4>1. CHUNKSIZE \in Nat /\ CHUNKSIZE >= 2
        BY ChunkAssumption
      <4> DEFINE x == extend_heap(m4, 4, CHUNKSIZE)
      <4>1a. x.brk = 4 + align_size(CHUNKSIZE) /\ align_size(CHUNKSIZE) >= 2
        <5>1. align_size(CHUNKSIZE) \in Nat /\ align_size(CHUNKSIZE) >= CHUNKSIZE
          BY <4>1, AlignSize
        <5> QED BY <3>6, <3>8, <4>1, <5>1, ExtendKeepsHeap
      <4>1b. \E S2 : /\ Heap(x.mem, x.brk, S2)
                     /\ Held(x.mem, S2) = Held(m4, {prologue_payload})
        BY <3>6, <3>8, <4>1, ExtendKeepsHeap
      <4> HIDE DEF heap
      <4>2. PICK S : Heap(heap.mem, heap.brk, S) /\ Held(heap.mem, S) = {}
        BY <3>5, <3>6, <4>1b
      <4>3. heap.brk \in 0 .. MAX_HEAP
        BY <4>2, MaxHeapAssumption DEF Heap, IsChain
      <4>4. heap.brk > 4
        BY <3>5, <4>1, <4>1a, AlignSize
      <4> QED BY <4>2, <4>3, <4>4 DEF Heap
    <3> QED BY <3>7, <3>8
  <2> QED BY <2>1, <2>2
<1> HIDE DEF heap
<1>6. TypeOK'
  BY <1>1, <1>5, MaxHeapAssumption DEF TypeOK, Memory, Idle, NULL
<1>7. ASSUME Started' PROVE \E S : HeapInv(S)'
  <2>1. heap.ptr # NULL
    BY <1>1, <1>7 DEF Started, InitFailed
  <2>2. PICK S : Heap(heap.mem, heap.brk, S) /\ Held(heap.mem, S) = {}
    BY <1>5, <2>1
  <2>3. LiveMatch(mem, S)'
    BY <1>1, <1>3, <2>2 DEF LiveMatch
  <2>4. SearchedInVain(S)'
    BY <1>1 DEF SearchedInVain, Searching
  <2> QED BY <1>1, <2>2, <2>3, <2>4 DEF HeapInv
<1>8. Started' => mem_brk' > 4
  BY <1>1, <1>5 DEF Started, InitFailed
<1> QED BY <1>1, <1>3, <1>4, <1>6, <1>7, <1>8 DEF IInv

(* mm_malloc starts its search at the prologue with nothing passed over.   *)
LEMMA StartSearchInv ==
  ASSUME IInv, NEW op \in {"alloc", "realloc"}, NEW i, NEW n \in Request,
         Ready(i), op = "realloc" <=> i \in Live,
         op = "realloc" => n > oldsize(mem, blocks[i]) /\ ReadsBack(i),
         StartSearch(op, i, n)
  PROVE  IInv'
<1>1. /\ call' = [op |-> op, index |-> i, size |-> n, asize |-> align_size(n + 2),
                 bp |-> prologue_payload]
      /\ mem' = mem /\ mem_brk' = mem_brk /\ blocks' = blocks
      /\ block_sizes' = block_sizes /\ status' = status
  BY DEF StartSearch, heapVars, driverVars
<1>2. status = "running" /\ i \in Index /\ Started
  BY DEF Ready, Started, InitFailed
<1>3. PICK S : HeapInv(S)
  BY <1>2 DEF IInv
<1>4. Live' = Live /\ LiveBlocks' = LiveBlocks /\ Started'
  BY <1>1, <1>2 DEF Live, LiveBlocks, Started
<1>5. /\ prologue_payload \in S /\ 2 <= MAX_HEAP
      /\ \A p \in S : ~(p < prologue_payload)
  BY <1>3, MaxHeapAssumption DEF HeapInv, Heap, IsChain, prologue_payload
<1>6. TypeOK'
  <2>1. align_size(n + 2) \in Nat
    BY RequestPositive, AlignSize
  <2>2. prologue_payload \in 2 .. MAX_HEAP
    BY <1>5, MaxHeapAssumption DEF prologue_payload
  <2>3. call' \in [op : {"alloc", "realloc"}, index : Index, size : Request,
                  asize : Nat, bp : 2 .. MAX_HEAP]
    BY <1>1, <1>2, <2>1, <2>2
  <2>4. /\ call'.asize = align_size(call'.size + 2)
        /\ call'.op = "realloc" <=> call'.index \in Live'
    BY <1>1, <1>4
  <2> QED BY <1>1, <1>2, <2>3, <2>4 DEF IInv, TypeOK
<1>7. TraceValid' /\ DataIntact' /\ RoomToCopy'
  BY <1>1, <1>4 DEF IInv, TraceValid, DataIntact, RoomToCopy
<1>8. SearchedInVain(S)'
  BY <1>1, <1>5 DEF SearchedInVain
<1>9. HeapInv(S)'
  BY <1>1, <1>3, <1>4, <1>8 DEF HeapInv, LiveMatch
<1> QED BY <1>1, <1>2, <1>4, <1>6, <1>7, <1>9 DEF IInv

(* mm_free takes the block, and only it, from the client.                  *)
LEMMA FreeInv ==
  ASSUME IInv, NEW i \in Index, Free(i)
  PROVE  IInv'
<1> DEFINE p == blocks[i]
<1>1. /\ i \in Live /\ mem' = mm_free(mem, p) /\ mem_brk' = mem_brk
      /\ blocks' = [blocks EXCEPT ![i] = NULL]
      /\ block_sizes' = [block_sizes EXCEPT ![i] = 0]
      /\ call' = call /\ status' = status /\ status = "running" /\ call = Idle
  BY DEF Free, Ready
<1>2. Started /\ Started'
  BY <1>1 DEF Started, InitFailed
<1>3. PICK S : HeapInv(S)
  BY <1>2 DEF IInv
<1>4. p \in Held(mem, S) /\ Held(mem, S) = LiveBlocks
  BY <1>1, <1>3, LiveHeld DEF HeapInv, LiveMatch
<1>5. PICK S2 : /\ Heap(mem', mem_brk, S2)
                /\ Held(mem', S2) = Held(mem, S) \ {p}
                /\ Keeps(mem, mem', Held(mem, S) \ {p})
  BY <1>1, <1>3, <1>4, FreeKeepsHeap DEF HeapInv
<1>6. /\ blocks \in [Index -> 0 .. MAX_HEAP]
      /\ block_sizes \in [Index -> Request \cup {0}]
  BY DEF IInv, TypeOK
<1>7. /\ Live' = Live \ {i}
      /\ \A j \in Live' : blocks'[j] = blocks[j] /\ block_sizes'[j] = block_sizes[j]
  BY <1>1, <1>6 DEF Live
<1>8. \A j \in Live' :
         /\ j \in Live /\ blocks[j] \in Held(mem, S) \ {p}
         /\ block_sizes[j] \in Request /\ block_sizes[j] \in Nat
         /\ block_sizes[j] + 2 <= BlockSize(mem, blocks[j])
         /\ \A k \in Live : blocks[k] = blocks[j] => k = j
         /\ blocks[j] \in Nat /\ BlockSize(mem, blocks[j]) \in Nat
         /\ BlockSize(mem', blocks[j]) = BlockSize(mem, blocks[j])
  <2> TAKE j \in Live'
  <2>1. /\ j \in Live /\ block_sizes[j] \in Request
        /\ block_sizes[j] + 2 <= BlockSize(mem, blocks[j])
        /\ \A k \in Live : blocks[k] = blocks[j] => k = j
    BY <1>3, <1>7 DEF HeapInv, LiveMatch
  <2>2. blocks[j] \in Held(mem, S) \ {p}
    BY <1>1, <1>3, <1>7, <2>1, LiveHeld DEF HeapInv
  <2>3. mem'[blocks[j] - 1] = mem[blocks[j] - 1]
    BY <1>5, <2>2 DEF Keeps
  <2>4. blocks[j] \in Nat /\ BlockSize(mem, blocks[j]) \in Nat
    BY <1>3, <2>2, BlockInHeap DEF HeapInv, Heap, Held
  <2> QED BY <2>1, <2>2, <2>3, <2>4, RequestPositive DEF BlockSize
<1>9. TypeOK'
  <2>1. mem' \in Memory
    BY <1>5 DEF Heap
  <2> QED BY <1>1, <1>6, <2>1, MaxHeapAssumption
      DEF IInv, TypeOK, Memory, NULL
<1>10. TraceValid' /\ RoomToCopy'
  BY <1>1 DEF IInv, TraceValid, RoomToCopy, Idle
<1>11. DataIntact'
  <2> SUFFICES ASSUME NEW j \in Live',
                      NEW a \in blocks'[j] .. blocks'[j] + block_sizes'[j] - 1
               PROVE  mem'[a] = Fill[j]
    BY DEF DataIntact, Fill
  <2>1. a \in blocks[j] .. blocks[j] + block_sizes[j] - 1
    BY <1>7
  <2>2. mem[a] = Fill[j]
    BY <1>8, <2>1 DEF IInv, DataIntact
  <2>3. a \in blocks[j] .. blocks[j] + BlockSize(mem, blocks[j]) - 3
    BY <1>8, <2>1
  <2> QED BY <1>5, <1>8, <2>2, <2>3 DEF Keeps
<1>12. HeapInv(S2)'
  <2>1. Held(mem', S2) = LiveBlocks'
    BY <1>1, <1>4, <1>5, <1>7, <1>8 DEF LiveBlocks
  <2>2. LiveMatch(mem, S2)'
    BY <1>7, <1>8, <2>1 DEF LiveMatch
  <2>3. SearchedInVain(S2)'
    BY <1>1 DEF SearchedInVain, Searching
  <2> QED BY <1>1, <1>5, <2>2, <2>3 DEF HeapInv
<1> QED BY <1>1, <1>2, <1>9, <1>10, <1>11, <1>12 DEF IInv

(* mm_realloc hands back the block it was given when it is large enough.   *)
LEMMA ReallocInPlaceInv ==
  ASSUME IInv, NEW i \in Index, NEW n \in Request, ReadsBack(i), ReallocInPlace(i, n)
  PROVE  IInv' /\ status' = "running"
<1> DEFINE p == blocks[i]
           m2 == memset(mem, p, n, Fill[i])
<1>1. /\ i \in Live /\ n <= oldsize(mem, p) /\ n \in Nat /\ n >= 1
      /\ mem_brk' = mem_brk /\ blocks' = blocks /\ call' = call
      /\ status = "running" /\ call = Idle
  BY RequestPositive DEF ReallocInPlace, Ready
<1>2. Started
  BY <1>1 DEF Started, InitFailed
<1>3. PICK S : HeapInv(S)
  BY <1>2 DEF IInv
<1>4. /\ Heap(mem, mem_brk, S) /\ p \in Held(mem, S) /\ Held(mem, S) = LiveBlocks
  BY <1>1, <1>3, LiveHeld DEF HeapInv, LiveMatch
<1>5. /\ p \in Nat /\ p >= 2 /\ BlockSize(mem, p) \in Nat
      /\ p + BlockSize(mem, p) <= mem_brk /\ mem_brk \in Nat /\ mem_brk <= MAX_HEAP
      /\ get_size(mem, p - 1) = BlockSize(mem, p) /\ mem \in Memory
  BY <1>4, BlockInHeap DEF Heap, Held
<1>6. n + 2 <= BlockSize(mem, p)
  BY <1>1, <1>5 DEF oldsize, get_header_pointer
<1>7. \A j \in Live :
         /\ block_sizes[j] \in Request /\ block_sizes[j] \in Nat
         /\ block_sizes[j] + 2 <= BlockSize(mem, blocks[j])
         /\ \A k \in Live : blocks[k] = blocks[j] => k = j
         /\ blocks[j] \in Held(mem, S)
         /\ blocks[j] \in Nat /\ BlockSize(mem, blocks[j]) \in Nat
  <2> TAKE j \in Live
  <2>1. /\ block_sizes[j] \in Request
        /\ block_sizes[j] + 2 <= BlockSize(mem, blocks[j])
        /\ \A k \in Live : blocks[k] = blocks[j] => k = j
    BY <1>3 DEF HeapInv, LiveMatch
  <2>2. blocks[j] \in Held(mem, S)
    BY <1>3, LiveHeld DEF HeapInv
  <2>3. blocks[j] \in Nat /\ BlockSize(mem, blocks[j]) \in Nat
    BY <1>4, <2>2, BlockInHeap DEF Heap, Held
  <2> QED BY <2>1, <2>2, <2>3, RequestPositive
<1>8. add_range(p, n, mem_brk, Live \ {i}) = "running"
  <2>1. \A j \in Live \ {i} : blocks[j] # p
    BY <1>1, <1>7
  <2> QED BY <1>1, <1>4, <1>6, <1>7, <2>1, RangeAccepted
<1>9. preserved(mem, p, i, n)
  <2> SUFFICES ASSUME NEW k \in 0 .. block_sizes[i] - 1, k < n
               PROVE  mem[p + k] = Fill[i]
    BY DEF preserved, fill, ReadsBack
  <2>1. p + k \in p .. p + block_sizes[i] - 1
    BY <1>1, <1>5, <1>7
  <2> QED BY <1>1, <2>1 DEF IInv, DataIntact
<1>10. status' = "running"
  BY <1>8, <1>9 DEF ReallocInPlace
<1>11. mem' = m2 /\ block_sizes' = [block_sizes EXCEPT ![i] = n]
  BY <1>10 DEF ReallocInPlace
<1>12. m2 \in Memory
       /\ \A a \in Addr : m2[a] = IF a \in p .. p + n - 1 THEN Fill[i] ELSE mem[a]
  BY <1>5, FillIsWord, Memset
<1> HIDE DEF m2
<1>13. /\ Heap(m2, mem_brk, S) /\ Held(m2, S) = Held(mem, S)
       /\ BlockSize(m2, p) = BlockSize(mem, p)
       /\ Keeps(mem, m2, Held(mem, S) \ {p})
  <2>1. \A a \in Addr : a \notin p .. p + BlockSize(mem, p) - 3 => m2[a] = mem[a]
    BY <1>1, <1>5, <1>6, <1>12
  <2> QED BY <1>4, <1>12, <2>1, WriteKeepsHeap
<1>14. /\ blocks \in [Index -> 0 .. MAX_HEAP]
       /\ block_sizes \in [Index -> Request \cup {0}]
  BY DEF IInv, TypeOK
<1>15. /\ Live' = Live /\ LiveBlocks' = LiveBlocks
       /\ block_sizes'[i] = n
       /\ \A j \in Live \ {i} : block_sizes'[j] = block_sizes[j]
  BY <1>1, <1>11, <1>14 DEF Live, LiveBlocks
<1>16. TypeOK'
  BY <1>1, <1>10, <1>11, <1>12, <1>14 DEF IInv, TypeOK, Memory
<1>17. TraceValid' /\ RoomToCopy' /\ Started'
  BY <1>1, <1>10 DEF TraceValid, RoomToCopy, Started, Idle, InitFailed,
                     OutsideHeap, Overlap, DataLost
<1>18. DataIntact'
  <2> SUFFICES ASSUME NEW j \in Live,
                      NEW a \in blocks[j] .. blocks[j] + block_sizes'[j] - 1
               PROVE  m2[a] = Fill[j]
    BY <1>1, <1>11, <1>15 DEF DataIntact, Fill
  <2>1. CASE j = i
    <3>1. a \in Addr /\ a \in p .. p + n - 1
      BY <1>1, <1>5, <1>6, <1>15, <2>1, MaxHeapAssumption DEF Addr
    <3> QED BY <1>12, <2>1, <3>1
  <2>2. CASE j # i
    <3>1. a \in blocks[j] .. blocks[j] + block_sizes[j] - 1
      BY <1>15, <2>2
    <3>2. mem[a] = Fill[j]
      BY <3>1 DEF IInv, DataIntact
    <3>3. a \in blocks[j] .. blocks[j] + BlockSize(mem, blocks[j]) - 3
      BY <1>7, <3>1
    <3>4. blocks[j] \in Held(mem, S) \ {p}
      BY <1>1, <1>7, <2>2
    <3> QED BY <1>13, <3>2, <3>3, <3>4 DEF Keeps
  <2> QED BY <2>1, <2>2
<1>19. HeapInv(S)'
  <2>1. \A j \in Live : BlockSize(m2, blocks[j]) = BlockSize(mem, blocks[j])
    <3> TAKE j \in Live
    <3>1. CASE blocks[j] = p
      BY <1>13, <3>1
    <3>2. CASE blocks[j] # p
      BY <1>7, <1>13, <3>2 DEF Keeps, BlockSize
    <3> QED BY <3>1, <3>2
  <2>2. \A j \in Live : /\ block_sizes'[j] \in Request
                        /\ block_sizes'[j] + 2 <= BlockSize(m2, blocks[j])
    BY <1>6, <1>7, <1>15, <2>1
  <2>3. LiveMatch(mem, S)'
    BY <1>1, <1>4, <1>7, <1>11, <1>13, <1>15, <2>2 DEF LiveMatch
  <2>4. SearchedInVain(S)'
    BY <1>1 DEF SearchedInVain, Searching
  <2> QED BY <1>1, <1>11, <1>13, <2>3, <2>4 DEF HeapInv
<1> QED BY <1>1, <1>2, <1>10, <1>16, <1>17, <1>18, <1>19 DEF IInv

(* The chain and the place of the search in it.                            *)
LEMMA SearchInChain ==
  ASSUME IInv, Searching
  PROVE  \E S : /\ HeapInv(S) /\ mem \in Memory /\ IsChain(mem, mem_brk, S)
                /\ call.bp \in S \cup {mem_brk}
                /\ AtBlock <=> call.bp \in S
                /\ AtBlock => /\ get_size(mem, header) = BlockSize(mem, call.bp)
                              /\ is_allocated(mem, header) <=> ~IsFree(mem, call.bp)
<1>1. PICK S : HeapInv(S)
  BY InCall DEF IInv
<1>2. /\ mem \in Memory /\ IsChain(mem, mem_brk, S)
      /\ call.bp \in S \cup {mem_brk}
  BY <1>1 DEF HeapInv, Heap, SearchedInVain
<1> QED BY <1>1, <1>2, AtBlockInChain DEF AtBlock, header

(* One more round of the loop in find_fit.                                 *)
LEMMA FindFitNextInv ==
  ASSUME IInv, FindFitNext
  PROVE  IInv'
<1> DEFINE next == call.bp + BlockSize(mem, call.bp)
<1>1. Searching /\ AtBlock /\ ~Fits
  BY DEF FindFitNext
<1>2. PICK S : /\ HeapInv(S) /\ mem \in Memory /\ IsChain(mem, mem_brk, S)
               /\ call.bp \in S
               /\ get_size(mem, header) = BlockSize(mem, call.bp)
               /\ is_allocated(mem, header) <=> ~IsFree(mem, call.bp)
  BY <1>1, SearchInChain
<1>3. /\ next \in S \cup {mem_brk}
      /\ get_next_payload_pointer(mem, call.bp) = next
      /\ call.bp \in Nat /\ BlockSize(mem, call.bp) \in Nat /\ call.bp >= 2
      /\ next <= mem_brk /\ mem_brk \in Nat /\ mem_brk <= MAX_HEAP
      /\ \A p \in S : p \in Nat /\ BlockSize(mem, p) \in Nat
  BY <1>2, NextBlock, BlockInHeap
<1> HIDE DEF next
<1>4. /\ call' = [call EXCEPT !.bp = next]
      /\ mem' = mem /\ mem_brk' = mem_brk /\ blocks' = blocks
      /\ block_sizes' = block_sizes /\ status' = status
  BY <1>3 DEF FindFitNext, heapVars, driverVars
<1>5. Live' = Live /\ LiveBlocks' = LiveBlocks /\ Started
  BY <1>1, <1>4, InCall DEF Live, LiveBlocks
<1>6. /\ call \in [op : {"alloc", "realloc"}, index : Index, size : Request,
                   asize : Nat, bp : 2 .. MAX_HEAP]
      /\ call.asize = align_size(call.size + 2)
      /\ call.op = "realloc" <=> call.index \in Live
      /\ status = "running"
  BY <1>1 DEF IInv, TypeOK, Searching
<1>7. next \in 2 .. MAX_HEAP
  BY <1>3, MaxHeapAssumption DEF next
<1>8. /\ call' \in [op : {"alloc", "realloc"}, index : Index, size : Request,
                    asize : Nat, bp : 2 .. MAX_HEAP]
      /\ call'.op = call.op /\ call'.index = call.index /\ call'.size = call.size
      /\ call'.asize = call.asize /\ call'.bp = next
  BY <1>4, <1>6, <1>7
<1>9. TypeOK'
  BY <1>4, <1>5, <1>6, <1>8 DEF IInv, TypeOK
<1>10. TraceValid' /\ DataIntact' /\ RoomToCopy'
  BY <1>4, <1>5, <1>8 DEF IInv, TraceValid, DataIntact, RoomToCopy
<1>11. SearchedInVain(S)'
  <2>1. next \in S \cup {mem_brk}
    BY <1>3
  <2>2. ASSUME NEW p \in S, p < next, IsFree(mem, p)
        PROVE  BlockSize(mem, p) < call.asize
    <3>1. CASE p < call.bp
      BY <1>1, <1>2, <2>2, <3>1 DEF HeapInv, SearchedInVain
    <3>2. CASE p >= call.bp
      <4>1. p = call.bp
        <5>1. call.bp < p => next <= p
          BY <1>2 DEF next, IsChain, BlocksTile
        <5> QED BY <1>3, <2>2, <3>2, <5>1
      <4>2. ~(call.asize <= BlockSize(mem, p))
        BY <1>1, <1>2, <2>2, <4>1 DEF Fits
      <4> QED BY <1>3, <1>6, <4>2
    <3> QED BY <1>3, <3>1, <3>2
  <2> QED BY <1>4, <1>8, <2>1, <2>2 DEF SearchedInVain
<1>12. HeapInv(S)'
  BY <1>2, <1>4, <1>5, <1>11 DEF HeapInv, LiveMatch
<1> QED BY <1>4, <1>5, <1>9, <1>10, <1>12 DEF IInv, Started

(* place on the block find_fit returns, up to the end of the handler.      *)
LEMMA FindFitHitInv ==
  ASSUME IInv, FindFitHit
  PROVE  IInv' /\ status' = "running"
<1> DEFINE p == call.bp
           m2 == place(mem, p, call.asize)
<1>1. Searching /\ AtBlock /\ Fits /\ Placed(m2, mem_brk, p)
  BY DEF FindFitHit
<1>2. PICK S : /\ HeapInv(S) /\ mem \in Memory /\ IsChain(mem, mem_brk, S)
               /\ p \in S
               /\ get_size(mem, header) = BlockSize(mem, p)
               /\ is_allocated(mem, header) <=> ~IsFree(mem, p)
  BY <1>1, SearchInChain
<1>3. IsFree(mem, p) /\ call.asize <= BlockSize(mem, p)
  BY <1>1, <1>2 DEF Fits
<1>4. p # prologue_payload
  BY <1>2, <1>3 DEF IsChain, IsFree, PACK
<1>5. call.asize \in Nat /\ call.asize >= 2 /\ call.asize % 2 = 0
  BY <1>1, InCall
<1>6. PICK S2 : /\ Heap(m2, mem_brk, S2)
                /\ Held(m2, S2) = Held(mem, S) \cup {p}
                /\ p \notin Held(mem, S)
                /\ BlockSize(m2, p) >= call.asize
                /\ Keeps(mem, m2, Held(mem, S))
  BY <1>2, <1>3, <1>4, <1>5, PlaceKeepsHeap DEF HeapInv
<1>7. Held(mem, S) = LiveBlocks
  BY <1>2 DEF HeapInv, LiveMatch
<1> HIDE DEF m2
<1>8. call.asize <= BlockSize(m2, p)
  <2>1. BlockSize(m2, p) \in Nat
    BY <1>6, BlockInHeap DEF Heap, Held
  <2> QED BY <1>5, <1>6, <2>1
<1>9. mem_brk >= mem_brk
  BY DEF IInv, TypeOK
<1> QED BY <1>1, <1>6, <1>7, <1>8, <1>9, PlacedInv

(* extend_heap and place, up to the end of the handler.                    *)
LEMMA ExtendHeapInv ==
  ASSUME IInv, ExtendHeap
  PROVE  IInv' /\ status' = "running"
<1> DEFINE words == IF call.asize > CHUNKSIZE THEN call.asize ELSE CHUNKSIZE
           x == extend_heap(mem, mem_brk, words)
           m2 == place(x.mem, x.ptr, call.asize)
<1>1. Searching /\ x.ptr # NULL /\ Placed(m2, x.brk, x.ptr)
  BY DEF ExtendHeap, extension
<1>2. PICK S : HeapInv(S)
  BY <1>1, SearchInChain
<1>3. /\ call.asize \in Nat /\ call.asize >= 2 /\ call.asize % 2 = 0
  BY <1>1, InCall
<1>4. words \in Nat /\ words >= 2 /\ words >= call.asize
  BY <1>3, ChunkAssumption
<1> HIDE DEF words
<1>5. ~sbrk_fails(mem_brk, align_size(words))
  <2> SUFFICES ASSUME sbrk_fails(mem_brk, align_size(words))
               PROVE  x.ptr = NULL
    BY <1>1
  <2> QED BY ExtendRefused
<1>5a. x.brk = mem_brk + align_size(words) /\ x.brk >= mem_brk
  <2>1. align_size(words) \in Nat /\ mem_brk \in Nat
    BY <1>4, AlignSize, MaxHeapAssumption DEF IInv, TypeOK
  <2> QED BY <1>2, <1>4, <1>5, <2>1, ExtendKeepsHeap DEF HeapInv
<1>6. PICK S1 : /\ Heap(x.mem, x.brk, S1)
                /\ Held(x.mem, S1) = Held(mem, S)
                /\ Keeps(mem, x.mem, Held(mem, S))
                /\ x.ptr \in S1 /\ x.ptr # prologue_payload
                /\ IsFree(x.mem, x.ptr)
                /\ BlockSize(x.mem, x.ptr) >= words
  BY <1>2, <1>4, <1>5, ExtendKeepsHeap DEF HeapInv
<1> HIDE DEF x
<1>7. call.asize <= BlockSize(x.mem, x.ptr)
  <2>1. BlockSize(x.mem, x.ptr) \in Nat
    BY <1>6, BlockInHeap DEF Heap
  <2> QED BY <1>3, <1>4, <1>6, <2>1
<1>8. PICK S2 : /\ Heap(m2, x.brk, S2)
                /\ Held(m2, S2) = Held(x.mem, S1) \cup {x.ptr}
                /\ x.ptr \notin Held(x.mem, S1)
                /\ BlockSize(m2, x.ptr) >= call.asize
                /\ Keeps(x.mem, m2, Held(x.mem, S1))
  BY <1>3, <1>6, <1>7, PlaceKeepsHeap
<1> HIDE DEF m2
<1>9. Held(mem, S) = LiveBlocks
  BY <1>2 DEF HeapInv, LiveMatch
<1>10. call.asize <= BlockSize(m2, x.ptr)
  <2>1. x.ptr \in S2 /\ m2 \in Memory /\ IsChain(m2, x.brk, S2)
    BY <1>8 DEF Heap, Held
  <2>2. BlockSize(m2, x.ptr) \in Nat
    BY <2>1, BlockInHeap
  <2> QED BY <1>3, <1>8, <2>2
<1>11. Keeps(mem, m2, LiveBlocks)
  <2> SUFFICES ASSUME NEW r \in LiveBlocks
               PROVE  /\ m2[r - 1] = mem[r - 1]
                      /\ \A a \in r .. r + BlockSize(mem, r) - 3 : m2[a] = mem[a]
    BY DEF Keeps
  <2>1. /\ x.mem[r - 1] = mem[r - 1]
        /\ \A a \in r .. r + BlockSize(mem, r) - 3 : x.mem[a] = mem[a]
    BY <1>6, <1>9 DEF Keeps
  <2>2. /\ m2[r - 1] = x.mem[r - 1]
        /\ \A a \in r .. r + BlockSize(x.mem, r) - 3 : m2[a] = x.mem[a]
    BY <1>6, <1>8, <1>9 DEF Keeps
  <2>3. BlockSize(x.mem, r) = BlockSize(mem, r)
    BY <2>1 DEF BlockSize
  <2> QED BY <2>1, <2>2, <2>3
<1> QED BY <1>1, <1>5a, <1>6, <1>8, <1>9, <1>10, <1>11, PlacedInv

(* A refused extension leaves heap and client as they were.                *)
LEMMA OutOfMemoryInv ==
  ASSUME IInv, OutOfMemory
  PROVE  IInv'
<1>1. /\ Searching /\ call' = Idle /\ mem' = mem /\ mem_brk' = mem_brk
      /\ blocks' = blocks /\ block_sizes' = block_sizes
      /\ status' \in {ReallocFailed, MallocFailed}
  BY DEF OutOfMemory, heapVars
<1>2. PICK S : HeapInv(S)
  BY <1>1, InCall DEF IInv
<1>3. Live' = Live /\ LiveBlocks' = LiveBlocks
  BY <1>1 DEF Live, LiveBlocks
<1>4. TypeOK'
  BY <1>1 DEF IInv, TypeOK
<1>5. TraceValid' /\ DataIntact' /\ RoomToCopy' /\ Started'
  BY <1>1, <1>3 DEF IInv, TraceValid, DataIntact, RoomToCopy, Started, Idle,
     InitFailed, MallocFailed, ReallocFailed, OutsideHeap, Overlap, DataLost
<1>6. SearchedInVain(S)'
  BY <1>1 DEF SearchedInVain, Searching
<1>7. HeapInv(S)'
  BY <1>1, <1>2, <1>3, <1>6 DEF HeapInv, LiveMatch
<1>8. mem_brk' > 4
  BY <1>1, InCall DEF IInv
<1> QED BY <1>4, <1>5, <1>7, <1>8 DEF IInv

----------------------------------------------------------------------------
(* The theorems *)

(* Nothing is live before the first trace.                                 *)
LEMMA InitInv == Init => IInv
<1> SUFFICES ASSUME Init PROVE IInv
  OBVIOUS
<1>1. Live = {} /\ call = Idle /\ status = "unstarted"
  BY DEF Init, Live
<1>2. TypeOK
  BY GarbageAssumption, MaxHeapAssumption DEF Init, TypeOK, NULL
<1> QED BY <1>1, <1>2
  DEF IInv, TraceValid, DataIntact, RoomToCopy, Started, Idle,
      OutsideHeap, Overlap, DataLost

(* IInv is inductive: one step per action of the next-state relation.      *)
LEMMA StepInv == IInv /\ [Next]_vars => IInv'
<1> SUFFICES ASSUME IInv, [Next]_vars PROVE IInv'
  OBVIOUS
<1>1. CASE StartTrace
  BY <1>1, StartTraceInv
<1>2. CASE \E i \in Index, n \in Request : BeginAlloc(i, n)
  <2>1. PICK i \in Index, n \in Request : BeginAlloc(i, n)
    BY <1>2
  <2> QED BY <2>1, StartSearchInv DEF BeginAlloc
<1>3. CASE \E i \in Index, n \in Request : ReadsBack(i) /\ BeginRealloc(i, n)
  <2>1. PICK i \in Index, n \in Request : ReadsBack(i) /\ BeginRealloc(i, n)
    BY <1>3
  <2> QED BY <2>1, StartSearchInv DEF BeginRealloc
<1>4. CASE \E i \in Index, n \in Request : ReadsBack(i) /\ ReallocInPlace(i, n)
  BY <1>4, ReallocInPlaceInv
<1>5. CASE \E i \in Index : Free(i)
  BY <1>5, FreeInv
<1>6. CASE FindFit
  BY <1>6, FindFitNextInv, FindFitHitInv, ExtendHeapInv, OutOfMemoryInv DEF FindFit
<1>7. CASE UNCHANGED vars
  <2>1. /\ mem' = mem /\ mem_brk' = mem_brk /\ blocks' = blocks
        /\ block_sizes' = block_sizes /\ call' = call /\ status' = status
    BY <1>7 DEF vars
  <2> QED BY <2>1 DEF IInv, TypeOK, TraceValid, DataIntact, RoomToCopy, Started,
             HeapInv, LiveMatch, LiveBlocks, Live, SearchedInVain, Searching
<1> QED BY <1>1, <1>2, <1>3, <1>4, <1>5, <1>6, <1>7 DEF Next, Realloc

(* The inductive invariant holds of every behaviour of the allocator.      *)
THEOREM Invariance == Spec => []IInv
  BY InitInv, StepInv, PTL DEF Spec

(* A chain's blocks are even addresses of the heap.                        *)
LEMMA ChainIsSubset ==
  ASSUME NEW S, IsChain(mem, mem_brk, S)
  PROVE  S \in SUBSET {p \in Addr : p % 2 = 0}
  BY MaxHeapAssumption DEF IsChain, Addr

(* No handler leaves a variable outside its type: in particular no size    *)
(* computed by place or coalesce wraps, and the break stays in the memory. *)
THEOREM TypeCorrect == Spec => []TypeOK
<1>1. IInv => TypeOK
  BY DEF IInv
<1> QED BY <1>1, Invariance, PTL

(* The boundary tags always form one chain that contains the live blocks.  *)
THEOREM WellFormed == Spec => []HeapWellFormed
<1>1. IInv => HeapWellFormed
  <2> SUFFICES ASSUME IInv, Started
               PROVE  \E S \in SUBSET {p \in Addr : p % 2 = 0} :
                         IsChain(mem, mem_brk, S) /\ LiveInChain(S)
    BY DEF HeapWellFormed
  <2>1. PICK S : HeapInv(S)
    BY DEF IInv
  <2>2. IsChain(mem, mem_brk, S)
    BY <2>1 DEF HeapInv, Heap
  <2>3. LiveInChain(S)
    BY <2>1 DEF HeapInv, LiveMatch, LiveBlocks, Held, LiveInChain
  <2> QED BY <2>2, <2>3, ChainIsSubset
<1> QED BY <1>1, Invariance, PTL

(* Free blocks are always merged with their free neighbours.               *)
THEOREM CoalescedTheorem == Spec => []Coalesced
<1>1. IInv => Coalesced
  <2> SUFFICES ASSUME IInv, Started
               PROVE  \E S \in SUBSET {p \in Addr : p % 2 = 0} :
                         IsChain(mem, mem_brk, S) /\ NoFreeNeighbours(mem, S)
    BY DEF Coalesced
  <2>1. PICK S : HeapInv(S)
    BY DEF IInv
  <2> QED BY <2>1, ChainIsSubset DEF HeapInv, Heap
<1> QED BY <1>1, Invariance, PTL

(* No block stays allocated that the client does not hold.                 *)
THEOREM NoLeakTheorem == Spec => []NoLeak
<1>1. IInv => NoLeak
  <2> SUFFICES ASSUME IInv, Started
               PROVE  \E S \in SUBSET {p \in Addr : p % 2 = 0} :
                         IsChain(mem, mem_brk, S) /\ AllocatedAreLive(S)
    BY DEF NoLeak
  <2>1. PICK S : HeapInv(S)
    BY DEF IInv
  <2>2. AllocatedAreLive(S)
    BY <2>1 DEF HeapInv, LiveMatch, LiveBlocks, Held, AllocatedAreLive
  <2> QED BY <2>1, <2>2, ChainIsSubset DEF HeapInv, Heap
<1> QED BY <1>1, Invariance, PTL

(* find_fit passes over no free block that would do.                       *)
THEOREM FirstFitTheorem == Spec => []FirstFit
<1>1. IInv => FirstFit
  <2> SUFFICES ASSUME IInv, Started
               PROVE  \E S \in SUBSET {p \in Addr : p % 2 = 0} :
                         IsChain(mem, mem_brk, S) /\ SearchedInVain(S)
    BY DEF FirstFit
  <2>1. PICK S : HeapInv(S)
    BY DEF IInv
  <2> QED BY <2>1, ChainIsSubset DEF HeapInv, Heap
<1> QED BY <1>1, Invariance, PTL

(* The driver reports no overlap, no stray payload and no lost data, on    *)
(* any trace whose reallocs are of ids whose low byte is below 128 and     *)
(* leave no splittable rest.                                               *)
THEOREM Valid == Spec => []TraceValid
<1>1. IInv => TraceValid
  BY DEF IInv
<1> QED BY <1>1, Invariance, PTL

(* The client's data stays as written until the client frees it.           *)
THEOREM DataSafe == Spec => []DataIntact
<1>1. IInv => DataIntact
  BY DEF IInv
<1> QED BY <1>1, Invariance, PTL

(* When nothing is live the heap is a single free block.                   *)
THEOREM FreedIsWhole == Spec => []FreedHeapIsWhole
<1>1. IInv => FreedHeapIsWhole
  <2> SUFFICES ASSUME IInv, Started, Live = {}
               PROVE  mem[3] = PACK(mem_brk - 4, 0)
    BY DEF FreedHeapIsWhole
  <2>1. PICK S : HeapInv(S)
    BY DEF IInv
  <2>2. /\ mem \in Memory /\ IsChain(mem, mem_brk, S) /\ NoFreeNeighbours(mem, S)
        /\ \A r \in S : r # prologue_payload => IsFree(mem, r)
    BY <2>1 DEF HeapInv, Heap, LiveMatch, LiveBlocks, Held
  <2>3. 4 \in S
    <3>1. BlockSize(mem, prologue_payload) = 2
      BY <2>2 DEF IsChain, BlockSize, PACK
    <3>2. prologue_payload + 2 \in S \cup {mem_brk}
      BY <2>2, <3>1 DEF IsChain, TagsMatch
    <3> QED BY <3>2 DEF prologue_payload, IInv
  <2> DEFINE size == BlockSize(mem, 4)
  <2>4. IsFree(mem, 4)
    BY <2>2, <2>3 DEF prologue_payload
  <2>5. size \in Nat /\ size >= 2 /\ 3 \in Addr /\ 4 + size \in S \cup {mem_brk}
    BY <2>2, <2>3, BlockInHeap, NextBlock
  <2>6. 4 + size = mem_brk
    BY <2>2, <2>3, <2>4, <2>5 DEF NoFreeNeighbours, prologue_payload
  <2>7. mem[3] = PACK(size, 0)
    <3>1. mem[3] \in Word /\ mem[4 - 1] = mem[3]
      BY <2>2, <2>5 DEF Memory
    <3> QED BY <2>4, <3>1 DEF IsFree, BlockSize, PACK, Word
  <2>8. mem_brk - 4 = size
    BY <2>5, <2>6
  <2> QED BY <2>7, <2>8
<1> QED BY <1>1, Invariance, PTL
=============================================================================
