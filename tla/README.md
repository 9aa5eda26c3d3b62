# TLA+ models of the Krafton Jungle weeks 5 to 7

The repository holds the work of three weeks of systems programming in C: an
allocator for the malloc lab, a red-black tree, a caching web proxy with its
test server, and exercises on lists and trees.  This directory models its core
in TLA+, checks the models with TLC and proves the main results with TLAPS.

## The system

The parts are separate programs.  Inside each, state is shared as follows.

| Part | Source | State | Operations | Who shares it |
|---|---|---|---|---|
| Allocator | `malloc_lab-main/malloc-lab/mm.c`, `src/mm_block.c`, `src/mm_utils.c` | the heap's words: headers and footers among the payloads; `prologue_payload` | `mm_init`, `mm_malloc`, `mm_free`, `mm_realloc` | the client writes payloads next to the tags |
| Memory system | `memlib.c` | `mem_brk` | `mem_sbrk`, `mem_reset_brk` | called by the allocator and by the driver |
| Trace driver | `mdriver.c` | `blocks[]`, `block_sizes[]`, range list, `errors`, results of each trace | options, reading traces, three passes over each trace, the report | calls the allocator, fills and compares payloads |
| Timing | `fsecs.c`, `fcyc.c`, `clock.c`, `ftimer.c` | start values of the counters, the best samples | `fsecs` by one of three methods | called by the driver, runs the allocator |
| Red-black tree | `rbtree_lab-master/rbtree_lab/src/rbtree.c` | nodes, the sentinel, the root | `new`, `insert`, `find`, `min`, `max`, `erase`, `to_array`, `delete` | callers keep node pointers between calls |
| Proxy | `webproxy_lab_docker/webproxy-lab/proxy.c` | descriptors, one box per connection, a buffer per thread | accept loop; a detached thread per connection | threads share the descriptor table, the process and the cache |
| Cache | `cache.c`, `cache.h` | `cache[]`, `slot_used`, `cached_size`, `slot_allocated`, `cache_mutex` | `isInCache`, `canAddToCache`, `add_cache_entry`, `do_realloc`, `delete_LRU` | all threads, partly without the mutex |
| Proxy without a cache | `cocurrency_proxy.c` | as the proxy | as the proxy | only its threads share state |
| Robust I/O | `csapp.c` (three copies) | a read buffer per connection | `rio_*` and wrappers that exit on errors | called by proxy, tiny and echo |
| Tiny | `tiny/tiny.c` | one connection at a time | parse, serve a file, run a CGI program | child processes |
| Echo server | `echo/` | one connection at a time | accept loop | |
| Exercises | `data_structure-master/Data-Structures/` | lists, stacks, queues, trees | 27 small programs, one function each | |

What is hard in each, and what makes it correct:

* **Allocator.** All structure is in words that lie between the client's own.
  One stale footer is enough to merge a block in use.  Correct means: tags
  always describe one chain of blocks, no two free neighbours, nothing leaks,
  live payloads stay apart and keep their contents, also when memory runs out
  in the middle of `mm_realloc`.
* **Red-black tree.** `erase` relinks the successor instead of copying its key,
  the parent of the shared sentinel is written and read as scratch space, and
  the rebuild loops have eight mirrored cases.  Correct means: search order,
  colours and black heights, links both ways, an unharmed sentinel, every call
  answers like an ordered multiset, loops end.
* **Proxy and cache.** Real concurrency: threads interleave at every access to
  the cache's counters, descriptors are reused the moment they are closed,
  peers reset, servers never answer, and any error ends the process.  Correct
  means: each descriptor and box has one owner, each client gets its own answer
  once, cache entries are whole, a silent server delays nobody else.

* **Trace driver and timing.** One list of ranges and one array of blocks live
  through all traces and passes, and the judged package may do anything.
  Correct means: no trace is judged by what an earlier one left, a trace found
  valid was served well, and the figures are true of the trace and of the clock,
  although its counter wraps around.
* **Tiny.** Lines arrive in pieces through a buffer that keeps the rest, clients
  end or reset at any moment, files change between `stat` and `read`.  Correct
  means: each request is read as it was sent and gets its own answer, nothing
  stays open, and the single thread comes back to `accept`.
* **Exercises.** Long sequences of choices on lists that share nodes.  Correct
  means: the menu is right about what each choice does, chains stay whole, and
  no node is lost or used after it was freed.

The full list of hazards with source lines is in `PROJECT.json`.

## Modules

### Allocator: `Blocks`, `MMHeap`, `Malloc`

`Blocks` holds the tag accessors of `mm_block.c` and `mm_utils.c` and the
operators `place`, `coalesce`, `extend_heap`; each maps a memory to a memory.
A word of 8 bytes is one element of `mem`, which is a header, a footer, or a
word of the client.  `MMHeap` is the state machine: variables `mem`, `mem_brk`
(the heap), `blocks`, `block_sizes` (the driver), `call` (the `find_fit` in
progress), `status` (the driver's verdict).  One action is one round of
`find_fit`; what precedes and follows the search is one action each, including
the driver's checks and its `memset`.  Memory starts with arbitrary garbage,
and `StartTrace` resets the break without clearing it, as `mem_reset_brk` does.

`Malloc` is the promise: live blocks are disjoint ranges in memory whose words
only their owner changes; `mm_malloc` may refuse.  `MMHeap` implements it
(`ImplementsMalloc`).  `Malloc` demands true disjointness, where the driver's
`add_range` would miss a new payload that contains an old one.

Requests are counted in words.  A request of 8n-7 to 8n bytes gets the same
block as one of n words; alignment is then a matter of even addresses.  They are
at most `MaxRequest`, since `mm_malloc` keeps a size in an `int`.  `preserved`
compares the fill byte as `mdriver.c:702` does, through a signed `char`; `Spec`
has the traces whose reallocs are of ids for which that works (`ReadsBack`) and
leave no splittable rest, and `AnyTraceSpec` has all.

### Driver: `Timing`, `Driver`

`MMHeap` is `eval_mm_valid` with this repository's `mm.c` inside.  `Driver` is
the whole of `mdriver.c` with any package: `main` with its options, the team
check, `read_trace`, the passes for correctness, utilisation and speed, first of
libc and then of mm, and the report.  `package` says what the environment may
be: `ideal` is right, `steady` may be wrong in any way but repeats itself after
`mm_init`, and `fickle` may also run out of memory in a later pass; packages
that differ between passes in other ways are not modelled.  `replies`
is what it has answered since `mm_init`; the pass for utilisation must hear the
same answers again, unless the package is fickle.

`read_trace` stores all requests before it compares their number with what the
file's head says.  Storing one beyond `num_ops` may end in `overrun`, since C
gives no meaning to what follows.  It never checks the index of an `f` line.
`Held` are the requests of a trace whose blocks it holds at some point, and
`Consistent` is what `traces/checktrace.pl` asks: a block that is freed or
reallocated is held, one that is allocated is not.  All 28 trace files of
the repository are consistent, and `DiskAssumption` says that the files of the model
are (a file may still be missing, too short, too long, or have an index that is
out of range).  A trace may keep blocks to its end.

`Timing` is `fsecs` by each of the methods of `config.h`.  A clock is a natural
number, its reading two words (`WORD` is 2^32 in the code), and `get_counter`
subtracts them with a borrow.  `callibrate` sees some of the pairs of cycles and
timer ticks in `Events`.  `samples` records how long the runs really took.  By
`EtimeAssumption` the interval timer does not expire, which would end the process
with SIGALRM after a day (`MAX_ETIME`).  The
code of `fcyc` is only reached in a 32-bit build, because `clock.c` has a
counter for `__i386__` and for no 64-bit machine.

### Red-black tree: `RBTree`, `OrderedBag`, `RBTreeArray`

`RBTree` has the fields of all nodes in the record `t` (root, colour, key,
parent, children), the allocated nodes in `live`, the call in progress with its
local pointers in `call`, and the last result in `ret`.  Every round of every
loop is one action, so the invariants are stated for the tree in the middle of
a rebuild too.  The halves of the code that mirror each other are one
definition with the side as a parameter; where the code asks only for one side
and assumes the other (`x == x->parent->left`), `SideOf` does the same.
`AddressFor` says which addresses a node of a key may get; it is a symmetry
reduction, since the addresses themselves play no role.

`OrderedBag` is the promise: a multiset of keys whose elements are named by
node pointers; `erase` removes the node it was given and no other, `find`,
`min` and `max` return a node with the right key.  `RBTreeArray` adds
`rbtree_to_array`, whose recursion is a function of what a call is given: node,
array and index.  NULL stands for what the caller had in the array.

### Proxy: `Cache`, `Proxy`, `Relay`

`Cache` has the shared variables of `cache.c` and an activation per thread
(`fn`).  Each access that another thread can come between is a step; `x += n`
is a load and a store.  `Proxy` extends it with `main` (box, accept, create),
the threads (`th`, `buf`), the descriptor table (`sock`: lowest free number
first, reusable at once), and the outside (`conn`, `gone`, `got`).  A thread is
named by the connection it was created for, but serves whatever descriptor it
finds in its box.  `program` chooses between `proxy.c` and
`cocurrency_proxy.c`, which has a larger buffer and makes no calls to the
cache.  `open_clientfd` is a step for each socket and each `connect`, and goes on
with the next address when one fails.

`status` is how the process is: `running`; `exited` (a wrapper of `csapp.c`
calls `unix_error`); `killed` (SIGPIPE); `segfault` (`strstr` of NULL);
`undefined` (an access out of bounds, or a request without a host: C gives no
meaning to what follows, so the behaviour stops there).  When the process ends
its variables return to their initial values, since the kernel takes
everything back.  The cache hit is not modelled: see the finding below.

An error exit of `Malloc` or `Pthread_create` in `main` ends the process like one
in a thread.  `do_realloc` has its failing path, after which `add_cache_entry` goes
on as if there were room.

`Relay` is the promise: a connection is accepted, answered once with its own
answer, the whole of it where it fits the buffer, and closed after that.  Of a
larger answer it promises no more than whose it is, and the process may end at
any time.  `driver.sh` asks for more, the whole of every answer (`WholeAnswer`),
and `README.md` that errors do not end the process; neither is so (see the
findings).

### Tiny: `Rio`, `Tiny`

`Rio` has the operators of `csapp.c`: `open_listenfd`, `rio_read` with its
buffer, `rio_readlineb`, `rio_readn`, `rio_writen`, on a connection whose peer is
up, has ended or has reset.  A text is a sequence of tokens, so that a line can
be cut between any two of them.  `Tiny` is the server: one action runs from one
system call to the next, the parent's and the CGI child's apart, since `fork` to
`wait` is where they overlap.  `Faults` turns on the environment: clients that
end or reset, an administrator who edits files at any moment, and system calls
that fail.  `Deaf` are the clients that may stop reading, so that a write to them
never returns.  `srv.taken` records what `doit` was given, for `StreamIntact`.

`stdout` says of which clients the lines are that `printf` has put into the
server's buffer since it was last empty.  The server's standard output is
a file or a pipe, as under `driver.sh`, where it is flushed when the buffer is
full (at any moment in the model) and at exit.  A child inherits what is there:
if `execve` fails, its `exit` writes that to the connection, which its standard
output has become (`CgiOutput`).

### Exercises: `NodeHeap`, `LinkedLists`, `StacksQueues`, `Trees`, `SearchTrees`, `Exercises`, `Answers`

`NodeHeap` is the memory: nodes that are allocated, linked and freed, and the
list functions each program carries a copy of.  A freed node leaves the heap, so
that a use of it has no value and stops TLC.  The next modules hold the function
each of the 27 programs is about and its `main`, one disjunct for each choice of the
menu; `createTree`, which asks for one node after the other, takes a step for
each question.  Loops within a function are folds or RECURSIVE operators.
`Exercises` runs any one program.

`Answers` says what the menus, and the lines that introduce an answer, promise,
on sequences and on trees that are sets of paths: it knows no nodes, and its
traversals are orders on paths instead of recursions.  `Exercises` implements it.
Two constants name exceptions.  `Deviating` are the seven programs that do
something else than they say; `Answers` has what instead, and demands it of them, so
that the run shows each deviation to be just that, and everything else these
programs do to be what they say.  `Leaky` are two that lose nodes: `Q7_C_SQ` and
`Q4_F_BST`.  All other properties cover these programs too.  The deviations:

| Program | It says | It does |
|---|---|---|
| `Q3_A_LL` | line 49: `2: Move all odd integers to the back of the linked list` | leaves the list as it is: the guard of line 87 lacks a negation and holds for every list with a node |
| `Q1_C_SQ` | line 67: `2: Create the queue from the linked list` | dies, since line 116 sets the list to NULL and line 129 reads its head |
| `Q2_C_SQ` | line 68: `3: Remove even numbers from the stack` | removes nothing, since `removeEvenValues` is empty (line 139) |
| `Q3_C_SQ` | line 66: `2: Check the stack is pairwise consecutive` | says of every stack that it is not: `result` is 0 before the loop that asks for it (line 125) |
| `Q6_C_SQ` | line 69: `3: Remove values until the given value` | does so under 2 (line 86); 3 is an unknown choice |
| `Q2_E_BT` | line 60: `0: Quit` | quits after 2 for a tree of one node as well, since its height is stored in the choice (line 77) |
| `Q2_F_BST` | line 94: `values: 20, 15, 50, 1, 18` | inserts 10 instead of 1 (line 99) and prints the traversal with it |

### Checking modules

`MCMMHeap`, `MCRBTree`, `MCProxy`, `MCTiny`, `MCExercises` and `MCDriver` give the
constants small values, and each `.cfg` is one run.  Definitions marked `Mutant` are
plausible bugs.  They are not part of any specification; replacing the definition
they imitate must make a property fail, which shows that the property depends on the
code.

## Runs

| Run | Bounds | What it shows |
|---|---|---|
| `MMHeap_safety` | 16 words, 2 blocks (one of an id that does not read back), requests of 1, 3 and 5 words, chunk of 4 | all safety properties of the heap and of the driver; `MMHeap` implements `Malloc` |
| `MMHeap_shrink` | requests of 1 and 6, traces that may shrink | **violated**: `mm_realloc` overwrites the client's data |
| `RBTree_safety` | 8 keys, 8 nodes | structure, order, colours, no leak, in every round of every rebuild |
| `RBTree_calls` | 5 keys, one of them twice, every array size, fairness | every call answers like an ordered multiset and returns; `rbtree_to_array` gives the sorted prefix |
| `Proxy_safety` | 3 clients, 5 descriptors, 2 slots, small cache, 2 addresses | ownership, whole entries, `Relay`, for both programs |
| `Proxy_progress` | 2 clients, one silent server, fairness | connections whose peers send and read are closed, unless the process ends |
| `Proxy_cut` | 2 clients, a buffer of 2 units, an answer of 4 | **violated**: an answer larger than the buffer arrives cut off |
| `Proxy_refetch` | 2 clients, the 10 slots of the code | **violated**: the lookup after the first entry crashes |
| `Tiny_all` | 2 clients, one of which may not read, 6 scripts, 3 disks, lines of 2 tokens, all faults, fairness | lines, answers, resources; who can hold up whom |
| `Exercises_all` | all 27 programs, lists and trees of 5 nodes, 3 items | chains, leaks, orders; 20 programs do as their menus say, and the 7 in `Deviating` do, each at one choice, what `Instead`, `Die` or `Test` has for it |
| `Driver_all` | 10 files, one missing, in 3 directories, 10 command lines, 3 methods, words of 16 | the range list is never stale, the verdict and the figures are true, the best samples are reported |
| `Driver_apart` | the same | **violated**: a payload around another one is accepted |

Why these bounds are enough to be interesting.  Sixteen words hold prologue,
epilogue and up to three blocks (the smallest has four words): every case of
`coalesce`, splits with and without remainder, and exhaustion, in the middle of a
realloc too, when both the old and the new block are wanted.  With a chunk of four
words the heap is extended behind an allocated block and behind a free one that is
too small, which it must join.
Eight nodes are enough for all cases of both rebuilds on both
sides, for a successor that is the right child and one that is further down,
and for rebuilds of more than one round.  Three threads are the fewest that can
fill two slots and then ask for a third; with a small MAX_CACHE_SIZE they also
evict.  The only alternative of the next-state relations that three threads do
not reach is the scan of `delete_LRU` past the array's end, which takes a
fourth.  Five descriptors are one too few for three threads.  Two addresses make
`open_clientfd` fail at the first, at the last and at none.

Tiny's buffers hold three tokens: a header line fits, or is one token too long, or
takes two refills.  Each client may come back, so that a request finds on the stack
what another left there.  On the three disks everything can be served, is forbidden
or is gone, and an administrator may go from one to another.  Five nodes are the
smallest tree with all shapes of a node on two levels, and a list with a first, a
last and three inner nodes.  Two traces that follow each other, of which the first
may fail anywhere, are what a stale range list needs.  A char with two values has
one that is negative.

`CHECK_DEADLOCK FALSE` is set where the system really stops: the proxy's process
may end, and a bounded set of clients has nothing more to do in the end; tiny's
process ends by SIGPIPE or an error and its clients become content; an exercise
program quits; `mdriver` exits.

Fairness.  `RBTree_calls` assumes that the calling thread keeps running.
`Proxy_progress` assumes that `main` and every thread keep being scheduled, and
that requests and answers arrive except for the clients in `Silent`: they may
never send or read, and their server may never answer, so that their thread waits
for ever in `Rio_readlineb`, `Rio_readnb` or `Rio_writen`.  Weak fairness of the
lock is enough because the clients are finitely many.  Nobody has to connect or to
reset.  `Tiny_all` assumes that the server and its CGI child keep being scheduled,
but not that a write to a client in `Deaf` returns: the fairness of `main` and of
`RunCgi` leaves out the states in which such a client is written to (`Unread`).
Nothing else is asked of the clients.  `EveryoneAccepted` then says who can hold up
the others: a client that ends or stops within its header, or does not read.

## Findings

Four are shown by a run in which TLC finds the violation; `PROJECT.json` quotes the
lines.

* `MMHeap_shrink`: `mm_realloc` shrinks a block to `newsize` bytes including its
  tags, and so writes the new footer and the next header over the end of the data
  (`mm.c:161`).  `mdriver.c:704` checks for this, but no trace shrinks a block.
* `Proxy_refetch`: `add_cache_entry` always writes entry 9 and increments
  `slot_used`; the next `isInCache` reads the NULL host of entry 0 (`cache.c:33`).
  The proxy serves requests that overlap, and dies at the first one that comes after
  a response, while `driver.sh:370-375` fetches several files in a row.
* `Proxy_cut`: `do_response` relays one buffer of an answer and no more
  (`proxy.c:207`), while `driver.sh:28-33, 235-258` compares files of more than 8192
  bytes, fetched with the proxy and without it.
* `Driver_apart`: `add_range` compares the ends of a new payload with the old ones
  only (`mdriver.c:443`): a payload around another one is accepted, against
  `mdriver.c:440`.

The others are in the models as they are in the code, and the properties that hold
are stated so as to leave them out, or to say what happens:

* A failing `Open_clientfd`, `Rio_readlineb`, `Rio_readnb` or a SIGPIPE ends the
  process with everybody's connections (`proxy.c:120`), which `README.md:124, 128`
  of the proxy asks to avoid.  `EveryConnectionEnds` and `Relay` except a process
  that has ended.
* `slot_used` is not the number of used slots that `cache.h:28` calls it
  (`cache.c:96`): two threads that answer in turn write the same entry and count
  two.
* `serve_dynamic` is to send the result of a CGI program (`tiny.c:300`); when
  `execve` fails, the child's `exit` sends the client what the server has printed
  and not flushed, of earlier requests too (`tiny.c:317-319`).  The 403 for a program
  without execute permission does not return (`tiny.c:113-115`), so that it leads
  there.  `OwnAnswer` allows printed text in the place of a CGI program's output
  and nowhere else.
* After `mm_realloc` the driver compares the fill byte through a signed char
  (`mdriver.c:702`): for an index whose low byte is 128 or more it reports lost data
  that is there, against `mdriver.c:692-693`.  `TraceValid` is about traces that
  realloc no such id; `ReportTrue` says that this, and nothing else, condemns a good
  package.
* The seven exercise programs of the table above.

## Proofs

Eight modules, checked by `tlapm`; everything holds for all values of the
constants under the named assumptions of the modules.  They say no more than the
code and its types do: sizes are natural numbers, the allocator's chunk is even
and a request at least one word, buffers hold something, what stands for "none"
is not one of the values it stands beside, a request fits the `int` it is kept in,
keys are integers, a client's script is
made of tokens and begins with a request line, traces are consistent, the heap
is not empty after `mm_init`, a cycle counter wraps at most once while a function
runs, the timer interrupts in the meantime take less time than the function, and
the interval timer does not expire.

* `BlocksProof` is about the operators.  `HeapWellFormed` by itself is not
  enough, because it defines the chain by following `next` pointers.  The
  proofs work with an explicit witness: a set S of payload addresses that
  contains the first block, is closed under `next`, has disjoint neighbours and
  matching header and footer for each member.  Lemmas show that each operator
  takes a heap with a chain S to a heap with a chain S', and say what S' is:
  `place` adds the address of the remainder, `coalesce` removes the addresses
  of merged blocks, `extend_heap` adds the new block.
* `MMHeapProof` defines the inductive invariant `IInv`: types, the chain with
  its driver records (each live block is an allocated member of S that is large
  enough and holds its fill), coalescing, no leak, and for a search in progress
  that the current block is in S with no fitting block before it.  The chain is
  needed for every step, no leak is needed for the free of a block to meet an
  allocated one, and the search part is needed for `place` to be given a free
  block of sufficient size.  One lemma per action shows that it is preserved;
  the eight invariants of `MMHeap_safety` follow.
* `MallocProof` shows that every step of `MMHeap` is a step of `Malloc` or
  leaves its variables alone: `Implements == Spec => ImplementsMalloc`.

* `ProxyProof` is about any number of clients, descriptors, boxes, addresses and
  slots.  Ownership alone is not inductive: that a `close` hits the thread's own
  descriptor depends on what the thread does next.  `IInv` therefore says for
  every step a thread can be at what it holds there (`Holds`: its box, its
  client's descriptor, its server's), that no two of them hold the same box
  (`BoxInv`) and that whatever is open belongs to the thread of its client, or is
  on its way there through a box (`SockInv`).  `ConnInv` ties this to what the
  client has received, `BufInv` to the answer in the thread's buffer.  For the
  cache, `FnInv` says that a thread between the two writes of an entry holds the
  mutex, and `EntryInv` that an entry has the host's own size except just there.
  `EntryWhole`, `DescriptorsOwned`, `BoxesOwned` follow; the pigeonhole argument
  that an owner holds a descriptor only once is a lemma on finite sets.
* `RelayProof` shows, with this invariant, that every step of `Proxy` is a step of
  `Relay` or leaves its variables alone.
* `TinyProof` has an invariant in six layers, each of which needs those before
  it.  `TypesInv`: types, and what goes with each step of the server.  `PrintedInv`:
  the unflushed text is of clients.  `HeldInv`:
  one connection is open, the others wait once in the backlog, and the file is
  open only between `open` and the `close` of `serve_static`.  `StreamInv`: what
  was taken, the line in progress, the internal buffer and the kernel's buffer,
  joined, are what the client sent; it rests on `LineStep`, which says what a
  step of `rio_readlineb` does to the four.  `HeaderInv`: the lines taken so far
  are not the end of the header, or are exactly the header; the step from one line
  to the next needs that lines are whole, which is where lines that are too long
  are excepted.  `AnswerInv`: what was sent together with what `rio_writen` still
  has to send is the beginning of one answer to the client's own request, and how
  much of it (`Owed`) follows from where the server is going (`GoalOf`).  Printed
  text is part of an answer only as a result of a CGI program (`CgiResults`).

* `RBTreeProof` is about any number of nodes and any integer keys.  None of the
  tree's properties is inductive by itself: that a rotation loses no node depends
  on the links, that the links stay whole depends on the colours (a red parent is
  not the root, so it has a parent to rotate around; a black gap has a real
  sibling), and the colours depend on the black heights.
  * The recursion of the properties is replaced by witnesses.  `IInv` says that
    there are functions that fit the pointers: `U`, the set of nodes under each
    node, and `B`, the number of black nodes on every path down from it.  `Under`,
    `Ordered` and `Heights` state what they are by one equation for each node;
    each lemma about a piece of surgery names the `U` and the `B` of the new tree.
    `Fits` is all of it for a tree `s`, a set `L` of linked nodes, a gap and the
    exceptions of colour.
  * A *gap* is a side of a node below which one black node too few is passed.
    While `rebuild_after_delete` stands at a node other than the root, that is
    where the gap is; it is a place and not a node, because the node there may be
    the shared sentinel.  A search in progress adds what it knows: for an insert
    that the bounds of all nodes above are kept, for the walk to the successor
    that what it passed is larger.
  * `Lowest` is induction over the tree without a recursive definition: a set of
    linked nodes that is not empty has a member neither of whose children is in
    it, since strict inclusion of finite sets is well founded.  From it follow
    that the sets of `U` are closed, that every node but the root hangs on exactly
    one side of its parent, and, in the end, that `Subtree` and the `below` of
    `BlackBalanced`, which are recursive functions in the model, are `U` and, up to
    the weight of the node itself, `B`.
  * One lemma says what `rotate` does to the pointers, one that it keeps `Shape`, and
    one for each case of the two rebuilds says where the gap or the red node goes;
    the cases are stated for a side `d`, so the mirrored halves are proved at once.
    That the successor takes the place of the erased node is proved in two parts:
    it is taken out, like any node with a missing child, and then the erased node
    is renamed to it.
  * The eight invariants of `RBTree_safety` follow, and `Refinement`: every step is a
    step of `OrderedBag` or leaves its variables alone, which needs the search
    order for `find`, `min` and `max`, and that rebuilds write no key.
  * `ArraySorted` is about the recursion of `in_order_copy`.  A recursive function of
    TLA+ is *some* function that fits its equation, so there must be one: `CopiesJoin`
    puts those of two subtrees together, and `Lowest` does the rest.  `InOrder` says
    what a call leaves behind, also when the array fills up in the middle of it:
    each slot it wrote holds the key of its rank among the nodes under its node
    (`RanksJoin`), and all others are as they were.
* `DriverProof` is about any package, any consistent traces, any command lines, any
  clock, and samplers of any size.  The list of ranges is not inductive by itself: that
  `remove_range` takes one range away depends on the payloads being apart, and that
  it is the right one on what `blocks[]` holds.
  * `Answered` says of the answers so far that each request for memory got some, that
    a free left the heap as it was (`Serves`), and that an ideal package's heap is as
    large as what it has handed out was at any time.  `ValidInv` adds, for the pass
    for correctness, that the ranges are the payloads of the requests `Held`, one for
    each, in the heap, aligned, and with the sizes and pointers in the trace.
    `LaterInv` keeps `Answered` for the passes that follow, in which a package that
    repeats itself therefore meets nothing that was not accepted before.
    `RangesNested` is what `add_range` does enforce between two payloads.
    `VerdictInv` is the verdict: the requests so far were served well (`WellServed`),
    because `blocks[]` holds the answer of each request whose block is held, so that
    the ranges an answer was compared with are the payloads the package gave.
  * `UtilInv` says that `total_size` is the load, the sizes of the blocks held, and
    `max_total_size` its greatest value so far.  Sums are folds over sets;
    `SumSplit` takes one member out of a sum, and the others follow by induction
    over sets of numbers instead of predicates.  A load is at most the heap
    because disjoint payloads are: `Packing` counts the bytes of the payloads.
    It gives the utilisation of at most 100 percent for an ideal package.
  * `CountInv` is the tally: errors are the traces tried whose verdict is no, and no
    verdict is yes before its trace was tried.  The rest of `ReportInv`, that an
    ideal package is only ever failed by a file it cannot read, rests on `ValidInv`,
    since a good answer passes `add_range` only beside the payloads held.
  * `TimingInv` is the sampler.  `get_counter` is the difference modulo `WORD * WORD` by
    one borrow; `insertion` into a sorted list is a new rank; and the `kbest` first of
    the old rank are enough to know those of the new one.
  * The attempt found an error in the type invariant: it had the ranges in the heap in
    every pass, which is false of a trace that keeps blocks, since the list is
    cleared by the next `eval_mm_valid` and not before, while `mm_init` shrinks the
    heap.  The code is right, and the invariant now says so (`RangesAreLive`).

Only model-checked:

* All liveness (`CallReturns`, `EveryConnectionEnds`, `EveryoneAccepted`), which is out
  of the prover's reach.
* The properties of the exercises (`ChainsWhole`, `NothingLost`, `TraversalOrders`,
  `ImplementsAnswers`), whose functions are RECURSIVE operators over lists and trees:
  a module that declares one cannot be proved about here.

The allocator's proofs cover traces that do not shrink a block by a splittable
amount (`Spec`), for the finding above shows that the properties fail for the
others (`AnyTraceSpec`).  They also leave out reallocs of ids that the driver does
not read back, and so does, for ideal packages, the last part of `ReportIsTrue`.

`RBTreeProof` takes `tlapm` about a quarter of an hour from nothing, `DriverProof`
about five minutes; the other modules take some minutes together.

## Not modelled

* Allocator and driver: the debug print of `mm_utils.c`; the text of what the
  driver prints; traces that are not consistent; the loop of `fcyc` without
  compensation, the setters nobody calls, the counters of other machines, and
  runs that take less time than the compensation subtracts.
* Tree: its tests and the older version in `_trash`, which is not built.
* Servers: TCP beyond ends, resets and clients that do not read; the text of
  requests and headers, with `parse_uri` and `get_filetype`; `write_file`, which is
  never called, and `send_cached_response`, which cannot be reached; the wrappers of
  `csapp.c` for processes, signals, directories and semaphores that no program
  calls; the echo server, whose loop is tiny's and whose `echo` is not in the
  repository.
* Exercises: the trees of the traversal programs are all small ones and not only the
  fixed ones of their `main`; a `scanf` that finds no number, after which the menus
  loop or go on with what they have.

## Plan

Done: `Blocks`, `MMHeap`, `Malloc` and their proofs; `RBTree`, `OrderedBag`,
`RBTreeArray`; `Cache`, `Proxy`, `Relay` with both proxies and `open_clientfd`;
`Rio`, `Tiny`; the exercises with `Answers`; `Timing` and `Driver`.  Proofs:
`BlocksProof`, `MMHeapProof`, `MallocProof`, `ProxyProof`, `RelayProof`, `TinyProof`,
`RBTreeProof`, `DriverProof`.  Every safety property of the passing runs is a
theorem, except those of the exercises.  Left would be these, with their
recursions written as functions as in `RBTreeArray`, and a bound on `cached_size`,
which the code does not keep: see the hazards.
