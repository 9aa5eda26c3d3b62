----------------------------- MODULE MallocProof -----------------------------
(***************************************************************************)
(* mm.c implements the abstract allocator Malloc.  The refinement mapping  *)
(* is the identity on mem, blocks, block_sizes and status; the break and   *)
(* the call in progress are hidden.  What a step of Malloc demands of live *)
(* blocks and of their data follows from the inductive invariant before    *)
(* and after the step.                                                     *)
(***************************************************************************)
EXTENDS MMHeapProof

(* The payloads of the live blocks, as the invariant places them.          *)
PayloadsApart ==
  /\ \A i \in Live : /\ blocks[i] \in Nat \ {0} /\ block_sizes[i] \in Nat \ {0}
                     /\ blocks[i] + block_sizes[i] <= MAX_HEAP
  /\ \A i, j \in Live : i # j =>
        M!Payload(i) \cap M!Payload(j) = {}

RunningApart == status = "running" => PayloadsApart

(* Live payloads lie inside the memory and never overlap: they are the     *)
(* payloads of different blocks of one chain.                              *)
LEMMA Apart == IInv => RunningApart
<1> SUFFICES ASSUME IInv, status = "running" PROVE PayloadsApart
  BY DEF RunningApart
<1>1. PICK S : HeapInv(S)
  BY DEF IInv, Started, InitFailed
<1>2. mem \in Memory /\ IsChain(mem, mem_brk, S) /\ mem_brk \in Nat /\ mem_brk <= MAX_HEAP
  BY <1>1, MaxHeapAssumption DEF HeapInv, Heap, IInv, TypeOK
<1>3. ASSUME NEW i \in Live
      PROVE  /\ blocks[i] \in S /\ blocks[i] \in Nat /\ blocks[i] >= 2
             /\ block_sizes[i] \in Nat /\ block_sizes[i] >= 1
             /\ BlockSize(mem, blocks[i]) \in Nat
             /\ blocks[i] + BlockSize(mem, blocks[i]) <= mem_brk
             /\ block_sizes[i] + 2 <= BlockSize(mem, blocks[i])
  <2>1. /\ blocks[i] \in S /\ block_sizes[i] \in Request
        /\ block_sizes[i] + 2 <= BlockSize(mem, blocks[i])
    BY <1>1, <1>3 DEF HeapInv, LiveMatch, LiveBlocks, Held
  <2> QED BY <1>2, <2>1, BlockInHeap, RequestPositive
<1>4. ASSUME NEW i \in Live, NEW j \in Live, i # j
      PROVE  M!Payload(i) \cap M!Payload(j) = {}
  <2>1. blocks[i] # blocks[j]
    BY <1>1, <1>4 DEF HeapInv, LiveMatch
  <2>2. /\ blocks[i] < blocks[j] =>
             blocks[i] + BlockSize(mem, blocks[i]) <= blocks[j]
        /\ blocks[j] < blocks[i] =>
             blocks[j] + BlockSize(mem, blocks[j]) <= blocks[i]
    BY <1>2, <1>3 DEF IsChain, BlocksTile
  <2>3. /\ blocks[i] \in Nat /\ blocks[j] \in Nat
        /\ block_sizes[i] \in Nat /\ block_sizes[j] \in Nat
        /\ BlockSize(mem, blocks[i]) \in Nat /\ BlockSize(mem, blocks[j]) \in Nat
        /\ block_sizes[i] + 2 <= BlockSize(mem, blocks[i])
        /\ block_sizes[j] + 2 <= BlockSize(mem, blocks[j])
    BY <1>3
  <2> QED BY <2>1, <2>2, <2>3 DEF M!Payload
<1>5. ASSUME NEW i \in Live
      PROVE  /\ blocks[i] \in Nat \ {0} /\ block_sizes[i] \in Nat \ {0}
             /\ blocks[i] + block_sizes[i] <= MAX_HEAP
  BY <1>2, <1>3, MaxHeapAssumption
<1> QED BY <1>4, <1>5 DEF PayloadsApart

(* The same of the state after a step.                                     *)
LEMMA ApartNext == IInv' => RunningApart'
  BY Apart, PTL

(* What the client keeps through a step between two good states.           *)
LEMMA DataPreserved ==
  ASSUME IInv, IInv', NEW K,
         \A j \in K : /\ j \in Live /\ j \in Live'
                      /\ blocks'[j] = blocks[j] /\ block_sizes'[j] = block_sizes[j]
  PROVE  M!Preserve(K)
<1> SUFFICES ASSUME NEW j \in K, NEW a \in M!Payload(j)
             PROVE  mem'[a] = mem[a]
  BY DEF M!Preserve
<1>1. DataIntact /\ DataIntact'
  BY DEF IInv
<1>2. mem[a] = Fill[j]
  BY <1>1 DEF DataIntact, M!Payload
<1>3. mem'[a] = Fill[j]
  BY <1>1 DEF DataIntact, M!Payload
<1> QED BY <1>2, <1>3

(* The driver's record of a block, new or moved, is a GiveBlock of Malloc. *)
LEMMA GivesBlock ==
  ASSUME IInv, IInv', status = "running", status' = "running",
         NEW i \in Index, NEW n, NEW p, p # NULL,
         blocks' = [blocks EXCEPT ![i] = p],
         block_sizes' = [block_sizes EXCEPT ![i] = n]
  PROVE  M!GiveBlock(i, n)
<1>1. /\ blocks \in [Index -> 0 .. MAX_HEAP]
      /\ block_sizes \in [Index -> Request \cup {0}]
  BY DEF IInv, TypeOK
<1>2. /\ blocks'[i] = p /\ block_sizes'[i] = n
      /\ \A j \in Live \ {i} : /\ j \in Live' /\ blocks'[j] = blocks[j]
                               /\ block_sizes'[j] = block_sizes[j]
      /\ i \in Live'
  BY <1>1 DEF Live
<1>3. PayloadsApart'
  BY ApartNext DEF RunningApart
<1>4. /\ p \in Nat \ {0} /\ n \in Nat \ {0} /\ p + n <= MAX_HEAP
  BY <1>2, <1>3 DEF PayloadsApart
<1>5. p \in 1 .. MAX_HEAP - n
  BY <1>4, MaxHeapAssumption
<1>6. \A j \in Live \ {i} : M!Payload(j) \cap (p .. p + n - 1) = {}
  <2> SUFFICES ASSUME NEW j \in Live \ {i}
               PROVE  M!Payload(j) \cap (p .. p + n - 1) = {}
    OBVIOUS
  <2>1. (M!Payload(j))' \cap (M!Payload(i))' = {}
    BY <1>2, <1>3 DEF PayloadsApart
  <2> QED BY <1>2, <2>1 DEF M!Payload
<1>7. \A a \in p .. p + n - 1 : mem'[a] = Fill[i]
  BY <1>2 DEF IInv, DataIntact
<1>8. M!Preserve(Live \ {i})
  BY <1>2, DataPreserved
<1> QED BY <1>5, <1>6, <1>7, <1>8 DEF M!GiveBlock, M!Live, Live, NULL

(* A step of mm_malloc that ends with a block in hand.                     *)
LEMMA ReceiveGives ==
  ASSUME IInv, IInv', Searching, status' = "running",
         NEW m, NEW brk, NEW p, p # NULL,
         Receive(m, brk, p)
  PROVE  M!Next
<1>1. /\ call.index \in Index /\ call.size \in Request /\ status = "running"
  BY InCall
<1>2. /\ blocks' = [blocks EXCEPT ![call.index] = p]
      /\ block_sizes' = [block_sizes EXCEPT ![call.index] = call.size]
  BY DEF Receive
<1>3. M!GiveBlock(call.index, call.size)
  BY <1>1, <1>2, GivesBlock
<1> QED BY <1>1, <1>3 DEF M!Next, M!Alloc, M!Realloc

(* The same, through the copy and the release of a realloc.                *)
LEMMA PlacedGives ==
  ASSUME IInv, IInv', Searching, status' = "running",
         NEW m, NEW brk, NEW p, p # NULL,
         Placed(m, brk, p)
  PROVE  M!Next
  BY ReceiveGives DEF Placed

(* Every step of mm.c under the driver is a step of Malloc, or none.       *)
LEMMA StepRefines == IInv /\ IInv' /\ [Next]_vars => [M!Next]_(M!vars)
<1> SUFFICES ASSUME IInv, IInv', [Next]_vars PROVE [M!Next]_(M!vars)
  OBVIOUS
<1>1. CASE StartTrace
  <2>1. M!StartTrace
    BY <1>1 DEF StartTrace, M!StartTrace, NULL, InitFailed
  <2> QED BY <2>1 DEF M!Next
<1>2. CASE \E i \in Index, n \in Request : BeginAlloc(i, n) \/ BeginRealloc(i, n)
  BY <1>2 DEF BeginAlloc, BeginRealloc, StartSearch, heapVars, driverVars, M!vars
<1>3. CASE \E i \in Index, n \in Request : ReadsBack(i) /\ ReallocInPlace(i, n)
  <2>1. PICK i \in Index, n \in Request : ReadsBack(i) /\ ReallocInPlace(i, n)
    BY <1>3
  <2>2. status' = "running"
    BY <2>1, ReallocInPlaceInv
  <2>3. /\ i \in Live /\ status = "running" /\ blocks' = blocks
        /\ block_sizes' = [block_sizes EXCEPT ![i] = n]
    BY <2>1, <2>2 DEF ReallocInPlace, Ready
  <2>4. blocks' = [blocks EXCEPT ![i] = blocks[i]]
    BY <2>3 DEF IInv, TypeOK
  <2>5. blocks[i] # NULL
    BY <2>3 DEF Live
  <2>6. M!GiveBlock(i, n)
    BY <2>2, <2>3, <2>4, <2>5, GivesBlock
  <2> QED BY <2>3, <2>6 DEF M!Next, M!Realloc, M!Live, Live, NULL
<1>4. CASE \E i \in Index : Free(i)
  <2>1. PICK i \in Index : Free(i)
    BY <1>4
  <2>2. /\ i \in Live /\ status = "running" /\ status' = status
        /\ blocks' = [blocks EXCEPT ![i] = NULL]
        /\ block_sizes' = [block_sizes EXCEPT ![i] = 0]
    BY <2>1 DEF Free, Ready
  <2>3. \A j \in Live \ {i} : /\ j \in Live' /\ blocks'[j] = blocks[j]
                              /\ block_sizes'[j] = block_sizes[j]
    BY <2>2 DEF Live, IInv, TypeOK
  <2>4. M!Preserve(Live \ {i})
    BY <2>3, DataPreserved
  <2>5. M!Free(i)
    BY <2>2, <2>4 DEF M!Free, M!Live, Live, NULL
  <2> QED BY <2>5 DEF M!Next
<1>5. CASE FindFitNext
  BY <1>5 DEF FindFitNext, heapVars, driverVars, M!vars
<1>6. CASE FindFitHit
  <2>1. Searching /\ Placed(place(mem, call.bp, call.asize), mem_brk, call.bp)
    BY <1>6 DEF FindFitHit
  <2>2. status' = "running"
    BY <1>6, FindFitHitInv
  <2>3. call.bp # NULL
    BY <2>1 DEF IInv, TypeOK, Searching, NULL
  <2> QED BY <2>1, <2>2, <2>3, PlacedGives
<1>7. CASE ExtendHeap
  <2>1. /\ Searching /\ extension.ptr # NULL
        /\ Placed(place(extension.mem, extension.ptr, call.asize),
                  extension.brk, extension.ptr)
    BY <1>7 DEF ExtendHeap
  <2>2. status' = "running"
    BY <1>7, ExtendHeapInv
  <2> QED BY <2>1, <2>2, PlacedGives
<1>8. CASE OutOfMemory
  <2>1. /\ Searching /\ status' \in {ReallocFailed, MallocFailed}
        /\ UNCHANGED <<mem, blocks, block_sizes>>
    BY <1>8 DEF OutOfMemory, heapVars
  <2>2. status = "running"
    BY <2>1, InCall
  <2>3. M!Refuse
    BY <2>1, <2>2 DEF M!Refuse, M!Refusals, M!Preserve, ReallocFailed, MallocFailed
  <2> QED BY <2>3 DEF M!Next
<1>9. CASE UNCHANGED vars
  BY <1>9 DEF vars, M!vars
<1> QED BY <1>1, <1>2, <1>3, <1>4, <1>5, <1>6, <1>7, <1>8, <1>9 DEF Next, Realloc, FindFit

(* The initial states are initial states of Malloc.                        *)
LEMMA InitRefines == Init => M!Init
  BY GarbageAssumption DEF Init, M!Init, NULL, Addr, Word

(* mm.c implements Malloc, whatever the heap, the chunk, the block ids and *)
(* the request sizes are.                                                  *)
THEOREM Implements == Spec => ImplementsMalloc
  BY InitRefines, StepRefines, Invariance, PTL DEF Spec, ImplementsMalloc, M!Spec
=============================================================================
