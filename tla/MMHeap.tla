------------------------------- MODULE MMHeap -------------------------------
(***************************************************************************)
(* The malloc lab: mm.c (implicit list, first fit, boundary-tag            *)
(* coalescing) over memlib.c, called by the trace driver's validity test   *)
(* eval_mm_valid of mdriver.c.                                             *)
(*                                                                         *)
(* The walk of find_fit is one action per block, everything between two    *)
(* walks is one action: the handler of a driver operation up to the walk,  *)
(* and from the block the walk found to the driver's checks.               *)
(* Requests are counted in words; a request of 8n - 7 .. 8n bytes gets the *)
(* same block as one of n words.                                           *)
(***************************************************************************)
EXTENDS Blocks

CONSTANTS Index,           \* block ids of the trace
          Request,         \* request sizes, in words
          CHUNKSIZE,       \* least words a heap extension asks for
          CHAR,            \* 256: the values of a char, which is signed
          Garbage          \* words the memory may hold before its first use

ASSUME IndexAssumption == Index \subseteq Nat
ASSUME CharAssumption == CHAR \in Nat \ {0}
(* mm_malloc keeps the aligned size of the block in an int: up to here the *)
(* 8 * align_size(n + 2) bytes of a request of n words fit in one.         *)
MaxRequest == 268435452

ASSUME RequestAssumption == Request \subseteq 1 .. MaxRequest
ASSUME ChunkAssumption == CHUNKSIZE \in Nat /\ CHUNKSIZE % 2 = 0 /\ CHUNKSIZE > 0
ASSUME GarbageAssumption == Garbage \subseteq Word

VARIABLES mem,             \* the words mem_init allocated
          mem_brk,         \* the break, relative to mem_start_brk
          blocks,          \* trace->blocks[i] while block i is live, else NULL
          block_sizes,     \* trace->block_sizes[i] while block i is live
          call,            \* the mm_malloc call in progress
          status           \* "running", or the driver's verdict on the trace

vars == <<mem, mem_brk, blocks, block_sizes, call, status>>

heapVars == <<mem, mem_brk>>
driverVars == <<blocks, block_sizes, status>>

(* memset(p, index & 0xFF, size) fills a word with eight copies of one     *)
(* byte: read as a tag it has the byte's low bit as its allocation bit and *)
(* a size far beyond the heap, except for the byte 0, whose word is 0.     *)
fill(i) == i % CHAR

Fill == [i \in Index |-> [size |-> 2 * MAX_HEAP * fill(i), alloc |-> fill(i) % 2]]

(* The driver reads the byte back through char, which is signed: in the    *)
(* upper half of the bytes it never reads what it wrote.                   *)
ReadsBack(i) == fill(i) < CHAR \div 2

Idle == [op |-> "none", index |-> 0, size |-> 0, asize |-> 0, bp |-> NULL]

(* The verdicts of eval_mm_valid and add_range.                            *)
InitFailed == "mm_init failed."
MallocFailed == "mm_malloc failed."
ReallocFailed == "mm_realloc failed."
OutsideHeap == "Payload lies outside heap"
Overlap == "Payload overlaps another payload"
DataLost == "mm_realloc did not preserve the data from old block"

Live == {i \in Index : blocks[i] # NULL}

----------------------------------------------------------------------------
(* The driver's range list: one entry per live block. *)

range(i) == [lo |-> blocks[i], hi |-> blocks[i] + block_sizes[i] - 1]

(* The checks of add_range on a payload of n words at lo, the ranges of    *)
(* the blocks in others being in the list.  Payload addresses are whole    *)
(* words here, so the test of 8-byte alignment always succeeds.            *)
add_range(lo, n, brk, others) ==
  LET hi == lo + n - 1
      Hits(r) == lo \in r.lo .. r.hi \/ hi \in r.lo .. r.hi
  IN  IF lo \notin 0 .. brk - 1 \/ hi \notin 0 .. brk - 1 THEN OutsideHeap
      ELSE IF \E j \in others : Hits(range(j)) THEN Overlap
      ELSE "running"

memset(m, lo, n, w) ==
  [a \in Addr |-> IF a \in lo .. lo + n - 1 THEN w ELSE m[a]]

memcpy(m, dst, src, n) ==
  [a \in Addr |-> IF a \in dst .. dst + n - 1 THEN m[src + (a - dst)] ELSE m[a]]

(* The words of block i the driver expects to survive a realloc to n words,*)
(* as it compares them.                                                    *)
preserved(m, newp, i, n) ==
  \A k \in 0 .. block_sizes[i] - 1 :
     k < n => m[newp + k] = Fill[i] /\ ReadsBack(i)

----------------------------------------------------------------------------
(* Starting a trace: mem_reset_brk, clear_ranges, mm_init.  The memory     *)
(* keeps what the previous trace left in it.                               *)

mm_init(m) ==
  LET m1 == update_value(m, 0, PACK(0, 0))
      m2 == update_value(m1, 1, PACK(2, 1))
      m3 == update_value(m2, 2, PACK(2, 1))
      m4 == update_value(m3, 3, PACK(0, 1))
  IN  IF sbrk_fails(0, 4)
      THEN [mem |-> m, brk |-> 0, ptr |-> NULL]
      ELSE extend_heap(m4, 4, CHUNKSIZE)

Init == /\ mem \in [Addr -> Garbage]
        /\ mem_brk = 0
        /\ blocks = [i \in Index |-> NULL]
        /\ block_sizes = [i \in Index |-> 0]
        /\ call = Idle
        /\ status = "unstarted"

StartTrace ==
  LET heap == mm_init(mem)
  IN  /\ call = Idle
      /\ mem' = heap.mem
      /\ mem_brk' = heap.brk
      /\ blocks' = [i \in Index |-> NULL]
      /\ block_sizes' = [i \in Index |-> 0]
      /\ status' = IF heap.ptr = NULL THEN InitFailed ELSE "running"
      /\ UNCHANGED call

----------------------------------------------------------------------------
(* The driver's operations up to the search for a free block. *)

Ready(i) == status = "running" /\ call = Idle /\ i \in Index

(* Mutant: the block size is not aligned to DOUBLE_SIZE.                    *)
StartSearchUnaligned(op, i, n) ==
  /\ call' = [op |-> op, index |-> i, size |-> n, asize |-> n + 2,
              bp |-> prologue_payload]
  /\ UNCHANGED <<heapVars, driverVars>>

(* mm_malloc(size): the block needs two more words, for its tags.          *)
StartSearch(op, i, n) ==
  /\ call' = [op |-> op, index |-> i, size |-> n, asize |-> align_size(n + 2),
              bp |-> prologue_payload]
  /\ UNCHANGED <<heapVars, driverVars>>

BeginAlloc(i, n) == Ready(i) /\ i \notin Live /\ StartSearch("alloc", i, n)

oldsize(m, p) == get_size(m, get_header_pointer(p)) - 2

BeginRealloc(i, n) ==
  /\ Ready(i) /\ i \in Live
  /\ n > oldsize(mem, blocks[i])
  /\ StartSearch("realloc", i, n)

(* The request fits the block, and too little would be left to split off.  *)
ReallocInPlace(i, n) ==
  LET verdict == add_range(blocks[i], n, mem_brk, Live \ {i})
  IN  /\ Ready(i) /\ i \in Live
      /\ n <= oldsize(mem, blocks[i])
      /\ oldsize(mem, blocks[i]) - n < 3
      /\ status' = IF verdict # "running" THEN verdict
                   ELSE IF ~preserved(mem, blocks[i], i, n) THEN DataLost
                   ELSE "running"
      /\ IF status' = "running"
         THEN /\ mem' = memset(mem, blocks[i], n, Fill[i])
              /\ block_sizes' = [block_sizes EXCEPT ![i] = n]
         ELSE UNCHANGED <<mem, block_sizes>>
      /\ UNCHANGED <<mem_brk, blocks, call>>

Free(i) ==
  /\ Ready(i) /\ i \in Live
  /\ mem' = mm_free(mem, blocks[i])
  /\ blocks' = [blocks EXCEPT ![i] = NULL]
  /\ block_sizes' = [block_sizes EXCEPT ![i] = 0]
  /\ UNCHANGED <<mem_brk, call, status>>

----------------------------------------------------------------------------
(* find_fit, and what follows it. *)

Searching == call # Idle

header == get_header_pointer(call.bp)

(* The loop condition of find_fit, and the test in its body.               *)
AtBlock == get_size(mem, header) > 0

(* Mutant: a block of exactly the size asked for is passed over.           *)
FitsStrictly == ~is_allocated(mem, header) /\ call.asize < get_size(mem, header)

Fits == ~is_allocated(mem, header) /\ call.asize <= get_size(mem, header)

(* The driver receives block p, in memory m below break brk: it checks the *)
(* range and, for a realloc, the data, then fills and remembers the block. *)
Receive(m, brk, p) ==
  LET i == call.index
      n == call.size
      verdict == add_range(p, n, brk, Live \ {i})
  IN  /\ mem_brk' = brk
      /\ call' = Idle
      /\ status' = IF verdict # "running" THEN verdict
                   ELSE IF call.op = "realloc" /\ ~preserved(m, p, i, n)
                   THEN DataLost ELSE "running"
      /\ IF status' = "running"
         THEN /\ mem' = memset(m, p, n, Fill[i])
              /\ blocks' = [blocks EXCEPT ![i] = p]
              /\ block_sizes' = [block_sizes EXCEPT ![i] = n]
         ELSE mem' = m /\ UNCHANGED <<blocks, block_sizes>>

(* Mutant: mm_realloc forgets to copy the payload.                         *)
PlacedWithoutCopy(m, brk, p) ==
  IF call.op = "realloc"
  THEN Receive(mm_free(m, blocks[call.index]), brk, p)
  ELSE Receive(m, brk, p)

(* Mutant: mm_realloc forgets to free the old block.                       *)
PlacedWithoutFree(m, brk, p) ==
  LET old == blocks[call.index]
  IN  IF call.op = "realloc"
      THEN Receive(memcpy(m, p, old, oldsize(mem, old)), brk, p)
      ELSE Receive(m, brk, p)

(* mm_malloc has placed its block at p.  mm_realloc goes on to copy the    *)
(* old payload, all of it, and to free the old block.                      *)
Placed(m, brk, p) ==
  LET old == blocks[call.index]
      copied == memcpy(m, p, old, oldsize(mem, old))
  IN  IF call.op = "realloc"
      THEN Receive(mm_free(copied, old), brk, p)
      ELSE Receive(m, brk, p)

FindFitNext ==
  /\ Searching /\ AtBlock /\ ~Fits
  /\ call' = [call EXCEPT !.bp = get_next_payload_pointer(mem, call.bp)]
  /\ UNCHANGED <<heapVars, driverVars>>

FindFitHit ==
  /\ Searching /\ AtBlock /\ Fits
  /\ Placed(place(mem, call.bp, call.asize), mem_brk, call.bp)

(* No block fits: extend_heap by max(aligned_size, CHUNKSIZE).             *)
extension == extend_heap(mem, mem_brk,
               IF call.asize > CHUNKSIZE THEN call.asize ELSE CHUNKSIZE)

ExtendHeap ==
  /\ Searching /\ ~AtBlock
  /\ extension.ptr # NULL
  /\ Placed(place(extension.mem, extension.ptr, call.asize),
            extension.brk, extension.ptr)

OutOfMemory ==
  /\ Searching /\ ~AtBlock
  /\ extension.ptr = NULL
  /\ status' = IF call.op = "realloc" THEN ReallocFailed ELSE MallocFailed
  /\ call' = Idle
  /\ UNCHANGED <<heapVars, blocks, block_sizes>>

FindFit == FindFitNext \/ FindFitHit \/ ExtendHeap \/ OutOfMemory

(* The operations of the traces kept with the lab: their reallocs never    *)
(* shrink a block by a splittable amount, and are of ids the driver can    *)
(* read back (only id 0 is ever reallocated there).                        *)
Realloc(i, n) == BeginRealloc(i, n) \/ ReallocInPlace(i, n)

Next == \/ StartTrace
        \/ \E i \in Index, n \in Request :
              BeginAlloc(i, n) \/ (ReadsBack(i) /\ Realloc(i, n))
        \/ \E i \in Index : Free(i)
        \/ FindFit

Spec == Init /\ [][Next]_vars

----------------------------------------------------------------------------
(* Reallocs the kept traces do not make. *)

(* mm_realloc splits the block: the front is tagged with the request       *)
(* itself, not with an aligned size that has room for the tags, and the    *)
(* rest with what the payload, not the block, has left.                    *)
shrink(m, p, n) ==
  LET rest == oldsize(m, p) - n
      m1 == tag_block(m, p, n, 1)
      m2 == tag_block(m1, p + n, rest, 0)
  IN  coalesce(m2, p + n).mem

ReallocShrink(i, n) ==
  LET m == shrink(mem, blocks[i], n)
      verdict == add_range(blocks[i], n, mem_brk, Live \ {i})
  IN  /\ Ready(i) /\ i \in Live
      /\ n <= oldsize(mem, blocks[i])
      /\ oldsize(mem, blocks[i]) - n >= 3
      /\ status' = IF verdict # "running" THEN verdict
                   ELSE IF ~preserved(m, blocks[i], i, n) THEN DataLost
                   ELSE "running"
      /\ IF status' = "running"
         THEN /\ mem' = memset(m, blocks[i], n, Fill[i])
              /\ block_sizes' = [block_sizes EXCEPT ![i] = n]
         ELSE mem' = m /\ UNCHANGED block_sizes
      /\ UNCHANGED <<mem_brk, blocks, call>>

AnyTraceSpec ==
  Init /\ [][Next \/ \E i \in Index, n \in Request :
                Realloc(i, n) \/ ReallocShrink(i, n)]_vars

----------------------------------------------------------------------------
(* Properties *)

Started == status \notin {"unstarted", InitFailed}

(* Every variable has its type; the break stays inside the memory and no   *)
(* size a tag holds has wrapped below zero.                                *)
TypeOK ==
  /\ mem \in [Addr -> Word]
  /\ mem_brk \in 0 .. MAX_HEAP
  /\ blocks \in [Index -> 0 .. MAX_HEAP]
  /\ block_sizes \in [Index -> Request \cup {0}]
  /\ \/ call = Idle
     \/ /\ call \in [op : {"alloc", "realloc"}, index : Index, size : Request,
                     asize : Nat, bp : 2 .. MAX_HEAP]
        /\ call.asize = align_size(call.size + 2)
        /\ call.op = "realloc" <=> call.index \in Live
        /\ status = "running"
  /\ status \in {"unstarted", "running", InitFailed, MallocFailed, ReallocFailed,
                 OutsideHeap, Overlap, DataLost}

(* A live block is an allocated block of the chain, large enough for its   *)
(* request, and the block of no other id.                                  *)
LiveInChain(S) ==
  \A i \in Live :
    /\ blocks[i] \in S \ {prologue_payload}
    /\ ~IsFree(mem, blocks[i])
    /\ block_sizes[i] \in Request
    /\ block_sizes[i] + 2 <= BlockSize(mem, blocks[i])
    /\ \A j \in Live : blocks[j] = blocks[i] => j = i

(* Every allocated block belongs to a live id.                             *)
AllocatedAreLive(S) ==
  \A p \in S : p # prologue_payload /\ ~IsFree(mem, p) =>
     \E i \in Live : blocks[i] = p

(* The search stands at a block, or at the epilogue, and every free block  *)
(* behind it is too small.                                                 *)
SearchedInVain(S) ==
  Searching =>
    /\ call.bp \in S \cup {mem_brk}
    /\ \A p \in S : p < call.bp /\ IsFree(mem, p) =>
          BlockSize(mem, p) < call.asize

(* Between any two actions of mm.c the boundary tags describe one chain    *)
(* of blocks from the prologue to the epilogue, header and footer of every *)
(* block agree, and every live block is one of its allocated blocks (the   *)
(* state every loop over next and prev pointers relies on).                *)
HeapWellFormed ==
  Started => \E S \in SUBSET {p \in Addr : p % 2 = 0} :
                IsChain(mem, mem_brk, S) /\ LiveInChain(S)

(* Coalescing is immediate and complete: mm_free, place and extend_heap    *)
(* never leave two free blocks side by side.                               *)
Coalesced ==
  Started => \E S \in SUBSET {p \in Addr : p % 2 = 0} :
                IsChain(mem, mem_brk, S) /\ NoFreeNeighbours(mem, S)

(* No memory leaks: a block tagged as allocated is one the client holds,   *)
(* also after a realloc that moved its block.                              *)
NoLeak ==
  Started => \E S \in SUBSET {p \in Addr : p % 2 = 0} :
                IsChain(mem, mem_brk, S) /\ AllocatedAreLive(S)

(* The search is first fit: the block find_fit is at has no block before   *)
(* it that would do, so the heap is extended only when no block fits.      *)
FirstFit ==
  Started => \E S \in SUBSET {p \in Addr : p % 2 = 0} :
                IsChain(mem, mem_brk, S) /\ SearchedInVain(S)

(* On the traces of Spec the driver never finds a payload outside the heap,*)
(* two payloads that overlap, or data a realloc lost (the verdicts of      *)
(* eval_mm_valid).                                                         *)
TraceValid == status \notin {OutsideHeap, Overlap, DataLost}

(* What the client wrote in its blocks is there until it frees them,       *)
(* whatever the allocator does to other blocks meanwhile.                  *)
DataIntact ==
  \A i \in Live : \A a \in blocks[i] .. blocks[i] + block_sizes[i] - 1 :
     mem[a] = Fill[i]

(* When the client has freed everything the heap is one free block again:  *)
(* no sequence of calls fragments it for good.                             *)
FreedHeapIsWhole ==
  Started /\ Live = {} => mem[3] = PACK(mem_brk - 4, 0)

(* mm.c keeps the promises of a malloc package.                            *)
M == INSTANCE Malloc
ImplementsMalloc == M!Spec

(* mdriver.c's test of mm_realloc: "make sure that the new block contains  *)
(* the data from the old block", on any trace.                             *)
ReallocKeepsData == status # DataLost
=============================================================================
