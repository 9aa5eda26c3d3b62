------------------------------- MODULE Cache -------------------------------
(***************************************************************************)
(* The object cache of cache.c as its threads really share it: an array of *)
(* entries, two counters that are updated outside the mutex, and a mutex   *)
(* that covers the writes to the array.                                    *)
(*                                                                         *)
(* fn[t] is the activation of a cache function in thread t, with the point *)
(* it has reached and the value it has loaded of a counter that it is      *)
(* about to store.                                                         *)
(*                                                                         *)
(* Entries 0 .. InitialSlots - 2 are never written, so a hit of isInCache  *)
(* cannot happen: with slot_used > 0 the first comparison reads the NULL   *)
(* host of entry 0.  The code behind a hit is dead and is not modelled.    *)
(***************************************************************************)
EXTENDS Integers, FiniteSets

CONSTANTS Thread,
          InitialSlots,    \* slot_allocated after cache_init (10)
          MAX_CACHE_SIZE,  \* sizes in units of the model
          MAX_OBJECT_SIZE,
          NONE             \* NULL, no thread, nothing loaded

ASSUME SlotsAssumption == InitialSlots \in Nat /\ InitialSlots >= 2
ASSUME SizesAssumption == MAX_CACHE_SIZE \in Nat /\ MAX_OBJECT_SIZE \in Nat
ASSUME NoneAssumption == NONE \notin Thread

VARIABLES cache,           \* the entries the array really has
          count,           \* slot_used and cached_size
          slot_allocated,
          cache_mutex,     \* the thread that holds it, or NONE
          fn,              \* the cache function each thread is in
          status           \* the process: running, or how it ended

cacheVars == <<cache, count, slot_allocated, cache_mutex, fn>>
memory == <<cache, count, slot_allocated, cache_mutex, status>>

(* host stands for host and uri, which point into a thread's stack; the    *)
(* timestamp is zero as long as the host is.                               *)
ZeroedEntries == [i \in 0 .. InitialSlots - 1 |-> [host |-> NONE, fileSize |-> 0]]
ZeroCount == [slot_used |-> 0, cached_size |-> 0]

Returned(value) == [at |-> "returned", n |-> 0, loaded |-> NONE, ret |-> value]
NoCalls == [t \in Thread |-> Returned("none")]

CacheInit ==
  /\ cache = ZeroedEntries
  /\ count = ZeroCount
  /\ slot_allocated = InitialSlots
  /\ cache_mutex = NONE
  /\ fn = NoCalls

(* The process ends, and all it kept is gone: CacheInit in the next state. *)
Stop(how) ==
  /\ status' = how
  /\ cache' = ZeroedEntries
  /\ count' = ZeroCount
  /\ slot_allocated' = InitialSlots
  /\ cache_mutex' = NONE
  /\ fn' = NoCalls

----------------------------------------------------------------------------
(* Calls, returns and the steps that the functions share *)

At(t, label) == status = "running" /\ fn[t].at = label
Reaches(t, label) == [fn[t] EXCEPT !.at = label, !.loaded = NONE]
Becomes(t, activation) == fn' = [fn EXCEPT ![t] = activation]
Call(t, f, size) == Becomes(t, [Returned("none") EXCEPT !.at = f, !.n = size])

Locks(t, label, next) ==
  /\ At(t, label) /\ cache_mutex = NONE
  /\ cache_mutex' = t
  /\ Becomes(t, next)
  /\ UNCHANGED <<cache, count, slot_allocated, status>>

Unlocks(t, label, next) ==
  /\ At(t, label)
  /\ cache_mutex' = NONE
  /\ Becomes(t, next)
  /\ UNCHANGED <<cache, count, slot_allocated, status>>

(* c += d, which is a load and a store.                                    *)
Adds(t, label, c, d, next) ==
  /\ At(t, label)
  /\ IF fn[t].loaded = NONE
     THEN /\ Becomes(t, [fn[t] EXCEPT !.loaded = count[c]])
          /\ UNCHANGED count
     ELSE /\ count' = [count EXCEPT ![c] = fn[t].loaded + d]
          /\ Becomes(t, next)
  /\ UNCHANGED <<cache, slot_allocated, cache_mutex, status>>

----------------------------------------------------------------------------
isInCache(t) ==
  /\ At(t, "isInCache")
  /\ \/ /\ count.slot_used <= 0
        /\ Becomes(t, Returned("miss"))
        /\ UNCHANGED memory
     \/ /\ count.slot_used > 0
        /\ cache[0].host = NONE        \* strstr(NULL, host)
        /\ Stop("segfault")

(* The tests of canAddToCache read the counters without the mutex.         *)
canAddToCache(t) ==
  /\ At(t, "canAddToCache")
  /\ Becomes(t, IF MAX_OBJECT_SIZE < fn[t].n
                THEN Returned("CACHE_FILE_TOO_LARGE")
                ELSE Reaches(t, IF MAX_CACHE_SIZE < fn[t].n + count.cached_size
                                THEN "delete_LRU" ELSE "slots"))
  /\ UNCHANGED memory

CheckSlots(t) ==
  /\ At(t, "slots")
  /\ Becomes(t, IF count.slot_used = slot_allocated
                THEN Reaches(t, "do_realloc") ELSE Returned("CACHE_OK"))
  /\ UNCHANGED memory

(* The array shrinks to one entry while slot_allocated grows, and the call *)
(* of add_cache_entry that follows does not come back; where realloc       *)
(* fails, add_cache_entry is called all the same.                          *)
do_realloc(t) ==
  /\ At(t, "do_realloc")
  /\ cache_mutex = NONE
  /\ \/ cache' = [i \in {0} |-> cache[0]] /\ slot_allocated' = slot_allocated + 1
     \/ UNCHANGED <<cache, slot_allocated>>
  /\ Becomes(t, Reaches(t, "add_cache_entry"))
  /\ UNCHANGED <<count, cache_mutex, status>>

(* Mutant: the entry is written without the mutex.                         *)
AddUnlocked(t) ==
  /\ At(t, "add_cache_entry")
  /\ Becomes(t, Reaches(t, "host"))
  /\ UNCHANGED memory

AddLock(t) == Locks(t, "add_cache_entry", Reaches(t, "host"))

(* A write past the end of the array has no meaning in C.                  *)
WriteHost(t) ==
  /\ At(t, "host")
  /\ \/ /\ slot_allocated - 1 \in DOMAIN cache
        /\ cache' = [cache EXCEPT ![slot_allocated - 1].host = t]
        /\ Becomes(t, Reaches(t, "fileSize"))
        /\ UNCHANGED <<count, slot_allocated, cache_mutex, status>>
     \/ slot_allocated - 1 \notin DOMAIN cache /\ Stop("undefined")

WriteFileSize(t) ==
  /\ At(t, "fileSize")
  /\ cache' = [cache EXCEPT ![slot_allocated - 1].fileSize = fn[t].n]
  /\ Becomes(t, Reaches(t, "unlock"))
  /\ UNCHANGED <<count, slot_allocated, cache_mutex, status>>

(* Mutant: the mutex stays locked.                                         *)
AddNoUnlock(t) ==
  /\ At(t, "unlock")
  /\ Becomes(t, Reaches(t, "slot_used"))
  /\ UNCHANGED memory

AddUnlock(t) == Unlocks(t, "unlock", Reaches(t, "slot_used"))

AddCounts(t) ==
  \/ Adds(t, "slot_used", "slot_used", 1, Reaches(t, "cached_size"))
  \/ Adds(t, "cached_size", "cached_size", fn[t].n, Returned("added"))

(* Entry 0 has timestamp zero and no entry an older one, so its size 0 is  *)
(* subtracted and its NULL pointers are freed.  The scan reads slot_used   *)
(* entries, however many the array has.                                    *)
iru_index == 0

delete_LRU(t) ==
  \/ Locks(t, "delete_LRU", Reaches(t, "scan"))
  \/ /\ At(t, "scan")
     /\ IF count.slot_used > Cardinality(DOMAIN cache) THEN Stop("undefined")
        ELSE /\ Becomes(t, Reaches(t, "evict size"))
             /\ UNCHANGED memory
  \/ Adds(t, "evict size", "cached_size", -cache[iru_index].fileSize,
          Reaches(t, "evict slot"))
  \/ Adds(t, "evict slot", "slot_used", -1, Reaches(t, "evict unlock"))
  \/ Unlocks(t, "evict unlock", Returned("CACHE_EVICTION_NEEDED"))

CacheStep(t) ==
  \/ isInCache(t) \/ canAddToCache(t) \/ CheckSlots(t) \/ do_realloc(t)
  \/ AddLock(t) \/ WriteHost(t) \/ WriteFileSize(t) \/ AddUnlock(t)
  \/ AddCounts(t) \/ delete_LRU(t)

=============================================================================
