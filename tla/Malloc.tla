------------------------------- MODULE Malloc -------------------------------
(***************************************************************************)
(* What a malloc package promises the driver, without saying how: every    *)
(* live block is a range of words inside the heap, live blocks never       *)
(* overlap, and no call changes a word of a block it was not given.        *)
(* malloc may refuse; it may not hand out memory that is in use.           *)
(* The detailed module MMHeap implements this one.                         *)
(***************************************************************************)
EXTENDS Integers

CONSTANTS MAX_HEAP,        \* words of memory
          Index,           \* block ids of the trace
          Request,         \* request sizes, in words
          Fill             \* Fill[i]: the word a client fills block i with

VARIABLES mem,             \* the memory
          blocks,          \* block id -> its payload address, or 0
          block_sizes,     \* block id -> the size it asked for
          status           \* how the trace fares

vars == <<mem, blocks, block_sizes, status>>

Live == {i \in Index : blocks[i] # 0}

Payload(i) == blocks[i] .. blocks[i] + block_sizes[i] - 1

(* The refusals the interface allows.                                      *)
Refusals == {"mm_malloc failed.", "mm_realloc failed."}

Init == /\ mem \in [0 .. MAX_HEAP - 1 -> [size : Nat, alloc : {0, 1}]]
        /\ blocks = [i \in Index |-> 0]
        /\ block_sizes = [i \in Index |-> 0]
        /\ status = "unstarted"

(* The words of the live blocks in K are what they were.                   *)
Preserve(K) == \A i \in K : \A a \in Payload(i) : mem'[a] = mem[a]

(* A new trace starts from an empty heap.                                  *)
StartTrace == /\ blocks' = [i \in Index |-> 0]
              /\ block_sizes' = [i \in Index |-> 0]
              /\ status' \in {"running", "mm_init failed."}

(* Block i now lies at some free place and holds the client's data.        *)
GiveBlock(i, n) ==
  \E p \in 1 .. MAX_HEAP - n :
    /\ blocks' = [blocks EXCEPT ![i] = p]
    /\ block_sizes' = [block_sizes EXCEPT ![i] = n]
    /\ \A j \in Live \ {i} : Payload(j) \cap (p .. p + n - 1) = {}
    /\ \A a \in p .. p + n - 1 : mem'[a] = Fill[i]
    /\ Preserve(Live \ {i})
    /\ UNCHANGED status

Alloc(i, n) == status = "running" /\ i \notin Live /\ GiveBlock(i, n)

Realloc(i, n) == status = "running" /\ i \in Live /\ GiveBlock(i, n)

Free(i) == /\ status = "running"
           /\ i \in Live
           /\ blocks' = [blocks EXCEPT ![i] = 0]
           /\ block_sizes' = [block_sizes EXCEPT ![i] = 0]
           /\ Preserve(Live \ {i})
           /\ UNCHANGED status

Refuse == /\ status = "running"
          /\ status' \in Refusals
          /\ Preserve(Live)
          /\ UNCHANGED <<blocks, block_sizes>>

Next == \/ StartTrace
        \/ \E i \in Index, n \in Request : Alloc(i, n) \/ Realloc(i, n)
        \/ \E i \in Index : Free(i)
        \/ Refuse

Spec == Init /\ [][Next]_vars
=============================================================================
