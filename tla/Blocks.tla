------------------------------- MODULE Blocks -------------------------------
(***************************************************************************)
(* The heap of the malloc lab as an array of words, and the boundary-tag   *)
(* operations of mm.c, src/mm_block.c and memlib.c on it.                  *)
(*                                                                         *)
(* Unit: one word of 8 bytes (WORD_SIZE).  An address is a word index      *)
(* counted from mem_start_brk; a size is a number of words.  A block       *)
(* whose payload starts at p has its header in word p - 1, its payload     *)
(* from p on, and its footer in the last word before the next block's      *)
(* header.  DOUBLE_SIZE (16 bytes) is 2 words, so the alignment masks      *)
(* ~0xF of the code become "round to an even number of words".             *)
(*                                                                         *)
(* Every operator takes the memory m as a parameter and returns the new    *)
(* memory, so that one action of MMHeap can apply the writes of a whole    *)
(* handler in the order the code performs them.                            *)
(***************************************************************************)
EXTENDS Integers

CONSTANT MAX_HEAP          \* words between mem_start_brk and mem_max_addr

ASSUME MaxHeapAssumption == MAX_HEAP \in Nat

Addr == 0 .. MAX_HEAP - 1

(* A word, read as a tag: PACK puts the block size in the high bits and    *)
(* the allocation bit in bit 0.  Client data is a word like any other.     *)
Word == [size : Nat, alloc : {0, 1}]

(* C's NULL, which no payload address equals: the heap starts with padding.*)
NULL == 0

(* prologue_payload = heap_base_ptr + 2 * WORD_SIZE, and the first sbrk    *)
(* after mem_reset_brk returns mem_start_brk, address 0 here.              *)
prologue_payload == 2

----------------------------------------------------------------------------
(* Reading and writing tags *)

PACK(size, alloc) == [size |-> size, alloc |-> alloc]

(* Masking bit 3 drops an odd word: get_size yields an even size.          *)
get_size(m, a) == m[a].size - (m[a].size % 2)

is_allocated(m, a) == m[a].alloc = 1

update_value(m, a, w) == [m EXCEPT ![a] = w]

(* align_size rounds up to a multiple of DOUBLE_SIZE.                      *)
align_size(size) == size + (size % 2)

get_header_pointer(p) == p - 1

get_footer_pointer(m, p) == p + get_size(m, get_header_pointer(p)) - 2

get_next_payload_pointer(m, p) == p + get_size(m, p - 1)

get_prev_payload_pointer(m, p) == p - get_size(m, p - 2)

(* The two consecutive update_value calls the code uses to retag a block:  *)
(* the header first, then the footer, whose place the new header gives.    *)
tag_block(m, p, size, alloc) ==
  LET m1 == update_value(m, get_header_pointer(p), PACK(size, alloc))
  IN  update_value(m1, get_footer_pointer(m1, p), PACK(size, alloc))

----------------------------------------------------------------------------
(* coalesce: merges the free block at p with its free neighbours and       *)
(* returns the payload pointer of the result.                              *)

(* Mutant: case 3 leaves the footer of the merged block stale.             *)
coalesce_stale_footer(m, p) ==
  LET prev == get_prev_payload_pointer(m, p)
      next == get_next_payload_pointer(m, p)
      size == get_size(m, get_header_pointer(p))
  IN  IF \/ is_allocated(m, get_footer_pointer(m, prev))
         \/ ~is_allocated(m, get_header_pointer(next))
      THEN [mem |-> m, ptr |-> p]
      ELSE [mem |-> update_value(m, get_header_pointer(prev),
                        PACK(size + get_size(m, get_header_pointer(prev)), 0)),
            ptr |-> prev]

(* Mutant: a free neighbour before the block is not merged.                *)
coalesce_forward_only(m, p) ==
  LET next == get_next_payload_pointer(m, p)
      size == get_size(m, get_header_pointer(p))
  IN  IF is_allocated(m, get_header_pointer(next))
      THEN [mem |-> m, ptr |-> p]
      ELSE [mem |-> tag_block(m, p,
                        size + get_size(m, get_header_pointer(next)), 0),
            ptr |-> p]

(* Mutant: case 4 is missing, a block between two free ones joins only the *)
(* one before it.                                                          *)
coalesce_no_case_4(m, p) ==
  LET prev == get_prev_payload_pointer(m, p)
      size == get_size(m, get_header_pointer(p))
  IN  IF is_allocated(m, get_footer_pointer(m, prev))
      THEN coalesce_forward_only(m, p)
      ELSE [mem |-> tag_block(m, prev,
                        size + get_size(m, get_header_pointer(prev)), 0),
            ptr |-> prev]

(* Mutant: the block after this one is merged without a look at its        *)
(* allocation bit.                                                         *)
coalesce_next_unchecked(m, p) ==
  LET next == get_next_payload_pointer(m, p)
      size == get_size(m, get_header_pointer(p))
  IN  [mem |-> tag_block(m, p, size + get_size(m, get_header_pointer(next)), 0),
       ptr |-> p]

coalesce(m, p) ==
  LET prev == get_prev_payload_pointer(m, p)
      next == get_next_payload_pointer(m, p)
      size == get_size(m, get_header_pointer(p))
      prev_alloc == is_allocated(m, get_footer_pointer(m, prev))
      next_alloc == is_allocated(m, get_header_pointer(next))
  IN  CASE prev_alloc /\ next_alloc ->                          \* case 1
             [mem |-> m, ptr |-> p]
        [] prev_alloc /\ ~next_alloc ->                         \* case 2
             [mem |-> tag_block(m, p,
                        size + get_size(m, get_header_pointer(next)), 0),
              ptr |-> p]
        [] ~prev_alloc /\ next_alloc ->                         \* case 3
             LET total == size + get_size(m, get_header_pointer(prev))
                 m1 == update_value(m, get_header_pointer(prev), PACK(total, 0))
             IN  [mem |-> update_value(m1, get_footer_pointer(m1, p), PACK(total, 0)),
                  ptr |-> prev]
        [] OTHER ->                                             \* case 4
             LET total == size + get_size(m, get_header_pointer(prev))
                               + get_size(m, get_footer_pointer(m, next))
                 m1 == update_value(m, get_header_pointer(prev), PACK(total, 0))
             IN  [mem |-> update_value(m1, get_footer_pointer(m1, next), PACK(total, 0)),
                  ptr |-> prev]

(* place: allocates asize words at p, splitting the block when the rest    *)
(* can hold a header, a payload word and a footer.                         *)

(* Mutant: a block given whole keeps its free bit.                         *)
place_leaves_free(m, p, asize) ==
  LET csize == get_size(m, get_header_pointer(p))
      m1 == tag_block(m, p, asize, 1)
  IN  IF csize - asize >= 3
      THEN tag_block(m1, get_next_payload_pointer(m1, p), csize - asize, 0)
      ELSE tag_block(m, p, csize, 0)

place(m, p, asize) ==
  LET csize == get_size(m, get_header_pointer(p))
      m1 == tag_block(m, p, asize, 1)
  IN  IF csize - asize >= 3
      THEN tag_block(m1, get_next_payload_pointer(m1, p), csize - asize, 0)
      ELSE tag_block(m, p, csize, 1)

(* mm_free without its caller: retag as free, then coalesce.               *)
mm_free(m, p) ==
  coalesce(tag_block(m, p, get_size(m, get_header_pointer(p)), 0), p).mem

----------------------------------------------------------------------------
(* memlib.c: the break only grows, up to mem_max_addr. *)

sbrk_fails(brk, incr) == incr < 0 \/ brk + incr > MAX_HEAP

(* Mutant: a free block before the new one is joined in its header, and    *)
(* the new block's pointer is returned.                                    *)
extend_heap_returns_new(m, brk, words) ==
  LET size == align_size(words)
      m1 == tag_block(m, brk, size, 0)
      m2 == update_value(m1,
              get_header_pointer(get_next_payload_pointer(m1, brk)), PACK(0, 1))
  IN  IF sbrk_fails(brk, size)
      THEN [mem |-> m, brk |-> brk, ptr |-> NULL]
      ELSE [mem |-> coalesce(m2, brk).mem, brk |-> brk + size, ptr |-> brk]

(* extend_heap: the old epilogue header becomes the header of the new      *)
(* block, a new epilogue is written, and the block joins a free one before *)
(* it.  A refused sbrk changes nothing and yields NULL.                    *)
extend_heap(m, brk, words) ==
  LET size == align_size(words)
      m1 == tag_block(m, brk, size, 0)
      m2 == update_value(m1,
              get_header_pointer(get_next_payload_pointer(m1, brk)), PACK(0, 1))
      joined == coalesce(m2, brk)
  IN  IF sbrk_fails(brk, size)
      THEN [mem |-> m, brk |-> brk, ptr |-> NULL]
      ELSE [mem |-> joined.mem, brk |-> brk + size, ptr |-> joined.ptr]

----------------------------------------------------------------------------
(* What the boundary tags must look like: S is the set of payload          *)
(* pointers a walk from the prologue by get_next_payload_pointer meets     *)
(* before the epilogue.                                                    *)

BlockSize(m, p) == m[p - 1].size

IsFree(m, p) == m[p - 1].alloc = 0

(* Header and footer agree, sizes are even, and the block ends where the   *)
(* next one, or the epilogue, starts.                                      *)
TagsMatch(m, brk, S) ==
  \A p \in S : /\ BlockSize(m, p) \in 2 .. MAX_HEAP
               /\ BlockSize(m, p) % 2 = 0
               /\ p + BlockSize(m, p) \in S \cup {brk}
               /\ m[p + BlockSize(m, p) - 2] = m[p - 1]

(* Blocks do not overlap, and every block but the prologue has one before  *)
(* it, so that get_prev_payload_pointer is the inverse of the next pointer.*)
BlocksTile(m, brk, S) ==
  /\ \A p, q \in S : p < q => p + BlockSize(m, p) <= q
  /\ \A p \in S \cup {brk} :
        p = prologue_payload \/ \E q \in S : q + BlockSize(m, q) = p

IsChain(m, brk, S) ==
  /\ brk \in 4 .. MAX_HEAP /\ brk % 2 = 0
  /\ \A p \in S : p \in 2 .. brk - 2 /\ p % 2 = 0
  /\ prologue_payload \in S
  /\ m[prologue_payload - 1] = PACK(2, 1)
  /\ m[brk - 1] = PACK(0, 1)
  /\ TagsMatch(m, brk, S)
  /\ BlocksTile(m, brk, S)

(* No two neighbours are free: coalesce merged them.                       *)
NoFreeNeighbours(m, S) ==
  \A p, q \in S : p + BlockSize(m, p) = q => ~(IsFree(m, p) /\ IsFree(m, q))
=============================================================================
