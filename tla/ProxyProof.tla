----------------------------- MODULE ProxyProof -----------------------------
(***************************************************************************)
(* Proofs about Proxy: types, ownership of descriptors and boxes, and whole*)
(* cache entries, for any number of threads, descriptors, boxes and        *)
(* addresses, and any sizes.                                               *)
(***************************************************************************)
EXTENDS Proxy, TLAPS, FiniteSetTheorems

----------------------------------------------------------------------------
(* The inductive invariant: where a thread or main is says what it holds.  *)

(* The steps of a thread, by what it has at each of them.                  *)
Boxed == {"start", "free"}
Served == {"connect", "request", "lookup", "canAdd", "answer", "respond", "close server"}
Connected == {"free", "read", "socket", "close client"} \cup Served
Answered == {"close server", "close client"}
Unanswered == ({"start"} \cup Connected) \ Answered
Steps == {"none", "ended"} \cup Boxed \cup Connected

ThreadRecord ==
  [at : Steps, vargp : Box \cup {NONE}, connfd : Fd \cup {NONE},
   clientfd : Fd \cup {NONE}, left : Nat]

ClientEnd(c) == [end |-> "client", of |-> c]
ServerEnd(c) == [end |-> "server", of |-> c]

MainInv ==
  /\ main.at = "malloc" <=> main.connfdp = NONE
  /\ main.at = "create" <=> main.of # NONE
  /\ main.at = "accept" => box[main.connfdp] = UNSET
  /\ main.at = "create" => /\ box[main.connfdp] \in Fd
                           /\ sock[box[main.connfdp]] = ClientEnd(main.of)

(* A thread has its argument, its connection and its server in the steps   *)
(* named above, and they are those of the client it was created for.       *)
Holds(t) ==
  /\ th[t].vargp # NONE <=> th[t].at \in Boxed
  /\ th[t].connfd # NONE <=> th[t].at \in Connected
  /\ th[t].clientfd # NONE <=> th[t].at \in Served
  /\ th[t].at = "start" => box[th[t].vargp] \in Fd /\ sock[box[th[t].vargp]] = ClientEnd(t)
  /\ th[t].at = "free" => box[th[t].vargp] = th[t].connfd
  /\ th[t].at \in Connected => sock[th[t].connfd] = ClientEnd(t)
  /\ th[t].at \in Served => sock[th[t].clientfd] = ServerEnd(t)

ThreadInv == th \in [Thread -> ThreadRecord] /\ \A t \in Thread : Holds(t)

(* A box that is not free is main's or one thread's.                       *)
BoxInv ==
  /\ \A a \in Box : box[a] # FREE <=> main.connfdp = a \/ \E t \in Thread : th[t].vargp = a
  /\ \A t \in Thread : th[t].vargp # NONE =>
       /\ th[t].vargp # main.connfdp
       /\ \A u \in Thread : th[u].vargp = th[t].vargp => u = t

(* A descriptor is with the thread of the client that its end belongs to,  *)
(* or on its way there.                                                    *)
SockInv ==
  \A fd \in Fd, c \in Client :
    /\ sock[fd] = ClientEnd(c) =>
         \/ th[c].connfd = fd
         \/ th[c].at = "start" /\ box[th[c].vargp] = fd
         \/ main.of = c /\ box[main.connfdp] = fd
    /\ sock[fd] = ServerEnd(c) => th[c].clientfd = fd

(* What a client has received goes with the step its thread is at.         *)
ConnInv ==
  /\ conn \in [Client -> {"idle", "queued", "open", "closed"}]
  /\ got \in [Client -> {NONE} \cup [of : Client, len : Nat, sent : Nat]]
  /\ \A c \in Client :
       /\ conn[c] \in {"idle", "queued"} => th[c].at = "none" /\ main.of # c /\ got[c] = NONE
       /\ main.of = c => th[c].at = "none" /\ conn[c] = "open" /\ got[c] = NONE
       /\ th[c].at \in Unanswered => conn[c] = "open" /\ got[c] = NONE
       /\ th[c].at \in Answered => conn[c] = "open" /\ got[c] # NONE

(* A thread's buffer holds what fits of the answer to its own client.      *)
Own(b, t, p) ==
  LET size == IF p = "proxy" THEN MAXBUF ELSE MAX_CACHE_SIZE
  IN  /\ b.of = t /\ b.sent \in Answers
      /\ b.len = IF b.sent < size THEN b.sent ELSE size

BufInv ==
  \A t \in Thread : th[t].at \in {"canAdd", "respond"} => Own(buf[t], t, program)

----------------------------------------------------------------------------
(* The cache: who holds the mutex is in the middle of a change.            *)

InAdd == {"host", "fileSize", "unlock"}
InEviction == {"scan", "evict size", "evict slot", "evict unlock"}
Locked == InAdd \cup InEviction
Adding == InAdd \cup {"add_cache_entry", "slot_used", "cached_size"}
CanAdding == InEviction \cup {"canAddToCache", "slots", "do_realloc", "delete_LRU"}
Labels == {"returned", "isInCache"} \cup Adding \cup CanAdding
Results == {"none", "miss", "CACHE_FILE_TOO_LARGE", "CACHE_OK", "added", "CACHE_EVICTION_NEEDED"}

Activation == [at : Labels, n : Nat, loaded : Int \cup {NONE}, ret : Results]
Entry == [host : Thread \cup {NONE}, fileSize : Nat]

FnInv ==
  /\ fn \in [Thread -> Activation]
  /\ \A t \in Thread :
       /\ fn[t].at = "isInCache" => th[t].at = "lookup"
       /\ fn[t].at \in Adding \cup CanAdding => th[t].at = "canAdd" /\ fn[t].n = buf[t].len
       /\ fn[t].at \in {"cached_size", "evict size"} => fn[t].loaded \in Nat \cup {NONE}
       /\ fn[t].at \in Locked => cache_mutex = t

(* The entry being written is the last; it has its host before its size.   *)
EntryInv ==
  /\ cache \in [DOMAIN cache -> Entry]
  /\ slot_allocated >= InitialSlots
  /\ \A t \in Thread : fn[t].at = "fileSize" =>
       /\ slot_allocated - 1 \in DOMAIN cache
       /\ cache[slot_allocated - 1].host = t
  /\ \A i \in DOMAIN cache : cache[i].host # NONE =>
       /\ th[cache[i].host].at \in {"canAdd", "respond", "close server", "close client", "ended"}
       /\ \/ cache[i].fileSize = buf[cache[i].host].len
          \/ fn[cache[i].host].at = "fileSize" /\ i = slot_allocated - 1

ProcInv == MainInv /\ ThreadInv /\ BoxInv /\ SockInv /\ ConnInv /\ BufInv
CacheInv == FnInv /\ EntryInv
IInv == TypeOK /\ program \in {"proxy", "cocurrency_proxy"} /\ ProcInv /\ CacheInv

----------------------------------------------------------------------------
(* The buffer has a size, and NONE is none of the values it stands beside. *)
LEMMA BufferSize == program \in {"proxy", "cocurrency_proxy"} => buffer_size \in Nat
  BY BufferAssumption, SizesAssumption DEF buffer_size

(* What stands for nothing is none of the values it stands in for.         *)
LEMMA Apart ==
  /\ NONE \notin Int /\ NONE \notin Box /\ NONE \notin Fd /\ NONE \notin Thread
  /\ UNSET \notin Fd /\ UNSET # NONE
<1>1. NONE \notin Int /\ NONE \notin Box
  BY NullAssumption
<1>2. NONE \notin Nat
  BY <1>1
<1>3. NONE \notin Fd
  BY <1>2, FdAssumption
<1> QED BY <1>1, <1>3, NoneAssumption, FdAssumption DEF UNSET

(* The ends of the connections, to a client and to its server, are all     *)
(* different.                                                              *)
LEMMA EndsApart ==
  ASSUME NEW c \in Thread, NEW d \in Thread
  PROVE  /\ ClientEnd(c) # NONE /\ ServerEnd(c) # NONE
         /\ ClientEnd(c) # ServerEnd(d)
         /\ ClientEnd(c) = ClientEnd(d) => c = d
         /\ ServerEnd(c) = ServerEnd(d) => c = d
  BY NullAssumption DEF ClientEnd, ServerEnd, Client

(* Without threads, boxes and sockets nothing is held.                     *)
Fresh ==
  /\ main = MainMallocs /\ box = NoBoxes /\ sock = NoSockets
  /\ th = NoThreads /\ buf = NoAnswers /\ CacheInit

(* A process that holds nothing, before it starts or after it ended,       *)
(* satisfies the invariant.                                                *)
LEMMA FreshInv ==
  /\ Fresh /\ ConnInv /\ program \in {"proxy", "cocurrency_proxy"}
  /\ status \in {"running", "exited", "killed", "segfault", "undefined"}
  => IInv
<1> SUFFICES ASSUME Fresh, ConnInv, program \in {"proxy", "cocurrency_proxy"},
                    status \in {"running", "exited", "killed", "segfault", "undefined"}
             PROVE  IInv
  OBVIOUS
<1> USE Apart, EndsApart DEF Fresh, Client
<1>1. TypeOK
  BY BufferSize, SlotsAssumption
     DEF TypeOK, CacheInit, ZeroedEntries, ZeroCount, MainMallocs, NoBoxes, NoSockets,
         NoAnswers, Held, FREE, CLOSED
<1>2. MainInv
  BY DEF MainInv, MainMallocs
<1>3. ThreadInv
  BY DEF ThreadInv, Holds, NoThreads, ThreadRecord, Steps, Boxed, Connected, Served
<1>4. BoxInv
  BY DEF BoxInv, NoBoxes, NoThreads, MainMallocs, FREE
<1>5. SockInv
  BY DEF SockInv, NoSockets, CLOSED
<1>6. BufInv
  BY DEF BufInv, NoThreads
<1>7. FnInv
  BY DEF FnInv, CacheInit, NoCalls, Returned, Activation, Labels, Results, Adding, CanAdding,
         InAdd, InEviction, Locked
<1>8. EntryInv
  <2>1. cache = [i \in 0 .. InitialSlots - 1 |-> [host |-> NONE, fileSize |-> 0]]
    BY DEF CacheInit, ZeroedEntries
  <2>2. cache \in [DOMAIN cache -> Entry]
    BY <2>1 DEF Entry
  <2>3. slot_allocated >= InitialSlots
    BY SlotsAssumption DEF CacheInit
  <2>4. \A t \in Thread : fn[t].at # "fileSize"
    BY DEF CacheInit, NoCalls, Returned
  <2>5. \A i \in DOMAIN cache : cache[i].host = NONE
    BY <2>1
  <2> QED BY <2>2, <2>3, <2>4, <2>5 DEF EntryInv
<1> QED BY <1>1, <1>2, <1>3, <1>4, <1>5, <1>6, <1>7, <1>8 DEF IInv, ProcInv, CacheInv

(* The invariant holds when the process starts.                            *)
LEMMA InitInv == Init => IInv
<1> USE DEF Client
<1> SUFFICES ASSUME Init PROVE IInv
  OBVIOUS
<1>1. Fresh
  BY DEF Init, Fresh
<1>2. ConnInv
  BY Apart DEF Init, ConnInv, NoThreads, MainMallocs, Unanswered, Connected, Served, Answered
<1> QED BY <1>1, <1>2, FreshInv DEF Init

(* The process ends.                                                       *)
Ends == /\ \E how \in {"exited", "killed", "segfault", "undefined"} : Stop(how)
        /\ ProcessGone /\ UNCHANGED <<program, worldVars>>

(* It holds when the process ends, by a failed call or a signal, and the   *)
(* kernel takes back what it had.                                          *)
LEMMA EndsInv == ASSUME IInv, Ends PROVE IInv'
<1> USE DEF Ends, Client
<1>1. Fresh'
  BY DEF Stop, ProcessGone, Fresh, CacheInit
<1>2. ConnInv'
  BY Apart DEF IInv, ProcInv, ConnInv, worldVars, ProcessGone, NoThreads, MainMallocs,
               Unanswered, Connected, Served, Answered
<1>3. (/\ program \in {"proxy", "cocurrency_proxy"}
       /\ status \in {"running", "exited", "killed", "segfault", "undefined"})'
  BY DEF IInv, TypeOK, Stop
<1> QED BY <1>1, <1>2, <1>3, FreshInv, PTL

----------------------------------------------------------------------------
(* What a step of one thread leaves alone.                                 *)
OnlyMoves(t) ==
  /\ th' \in [Thread -> ThreadRecord]
  /\ \A u \in Thread \ {t} : th'[u] = th[u]

Late == {"canAdd", "respond", "close server", "close client", "ended"}

(* The cache does not mind a thread that is outside it.                    *)
LEMMA CacheFrame ==
  ASSUME CacheInv, NEW t \in Thread, OnlyMoves(t), UNCHANGED <<cacheVars, buf>>,
         th[t].at \in {"lookup", "canAdd"} => fn[t].at = "returned",
         th[t].at \in Late => th'[t].at \in Late
  PROVE  CacheInv'
<1> USE DEF OnlyMoves, cacheVars
<1>1. \A u \in Thread : fn[u].at # "returned" => th'[u] = th[u]
  BY DEF CacheInv, FnInv, Activation, Labels, Adding, CanAdding
<1>2. FnInv'
  BY <1>1 DEF CacheInv, FnInv, Adding, CanAdding, InAdd, InEviction
<1>3. \A u \in Thread : th[u].at \in Late => th'[u].at \in Late
  OBVIOUS
<1>4. EntryInv'
  BY <1>3, Apart DEF CacheInv, EntryInv, Entry, Late
<1> QED BY <1>2, <1>4 DEF CacheInv

(* The boxes are where they were.                                          *)
LEMMA SameBoxes ==
  ASSUME BoxInv, UNCHANGED <<main, box>>, \A u \in Thread : th'[u].vargp = th[u].vargp
  PROVE  BoxInv'
<1>1. \A b \in Box : (\E u \in Thread : th'[u].vargp = b) <=> \E u \in Thread : th[u].vargp = b
  OBVIOUS
<1>2. \A b \in Box : box'[b] # FREE <=> main'.connfdp = b \/ \E u \in Thread : th'[u].vargp = b
  BY <1>1 DEF BoxInv
<1>3. ASSUME NEW u \in Thread, th'[u].vargp # NONE
      PROVE  /\ th'[u].vargp # main'.connfdp
             /\ \A v \in Thread : th'[v].vargp = th'[u].vargp => v = u
  <2>1. th[u].vargp # NONE /\ main' = main
    BY <1>3
  <2>2. th[u].vargp # main.connfdp /\ \A v \in Thread : th[v].vargp = th[u].vargp => v = u
    BY <2>1 DEF BoxInv
  <2> QED BY <2>1, <2>2
<1> QED BY <1>2, <1>3 DEF BoxInv

(* A thread that moves on with all it holds.                               *)
LEMMA MoveInv ==
  ASSUME MainInv, ThreadInv, BoxInv, SockInv, NEW t \in Thread, OnlyMoves(t),
         UNCHANGED <<main, box, sock>>,
         \/ {th[t].at, th'[t].at} \subseteq Served
         \/ {th[t].at, th'[t].at} \subseteq {"read", "socket"},
         th'[t].vargp = th[t].vargp, th'[t].connfd = th[t].connfd,
         th'[t].clientfd = th[t].clientfd
  PROVE  (MainInv /\ ThreadInv /\ BoxInv /\ SockInv)'
<1> USE DEF OnlyMoves
<1>1. \A u \in Thread : /\ th'[u].vargp = th[u].vargp /\ th'[u].connfd = th[u].connfd
                        /\ th'[u].clientfd = th[u].clientfd
  OBVIOUS
<1>2. /\ th[t].at \in Connected \ Boxed /\ th'[t].at \in Connected \ Boxed
      /\ th'[t].at \in Served <=> th[t].at \in Served
  BY DEF Connected, Served, Boxed
<1>3. \A u \in Thread : /\ th'[u].at \in Boxed <=> th[u].at \in Boxed
                        /\ th'[u].at \in Connected <=> th[u].at \in Connected
                        /\ th'[u].at \in Served <=> th[u].at \in Served
                        /\ th'[u].at = "start" <=> th[u].at = "start"
                        /\ th'[u].at = "free" <=> th[u].at = "free"
  BY <1>2 DEF Boxed
<1>4. MainInv'
  BY DEF MainInv
<1>5. ThreadInv'
  BY <1>1, <1>3 DEF ThreadInv, Holds
<1>6. BoxInv'
  BY <1>1 DEF BoxInv
<1>7. SockInv'
  BY <1>1, <1>3 DEF SockInv, Client
<1> QED BY <1>4, <1>5, <1>6, <1>7

----------------------------------------------------------------------------
(* main *)

LEMMA MainMallocInv == ASSUME IInv, MainMalloc, ~unix_error, UNCHANGED program PROVE IInv'
<1> USE Apart DEF Client
<1>1. PICK a \in Box :
        /\ main.at = "malloc" /\ box[a] = FREE /\ box' = [box EXCEPT ![a] = UNSET]
        /\ main' = [main EXCEPT !.at = "accept", !.connfdp = a]
        /\ UNCHANGED <<cacheVars, status, sock, th, buf, worldVars, program>>
  BY DEF MainMalloc
<1>2. TypeOK'
  BY <1>1 DEF IInv, TypeOK, Held, cacheVars, worldVars, buffer_size
<1>3. main' = [at |-> "accept", connfdp |-> a, of |-> NONE]
  BY <1>1 DEF IInv, TypeOK, Held, ProcInv, MainInv
<1>4. \A b \in Box \ {a} : box'[b] = box[b]
  BY <1>1 DEF IInv, TypeOK
<1>5. box'[a] = UNSET
  BY <1>1 DEF IInv, TypeOK
<1>6. \A t \in Thread : th[t].vargp # a
  BY <1>1 DEF IInv, ProcInv, BoxInv
<1>7. MainInv'
  BY <1>3, <1>5 DEF MainInv
<1>8. ThreadInv'
  BY <1>1, <1>4, <1>6 DEF IInv, ProcInv, ThreadInv, Holds, ThreadRecord, Boxed
<1>9. BoxInv'
  BY <1>1, <1>3, <1>4, <1>5, <1>6 DEF IInv, ProcInv, MainInv, BoxInv, FREE
<1>10. SockInv'
  BY <1>1, <1>3, <1>4, <1>6 DEF IInv, ProcInv, MainInv, SockInv, ThreadInv, Holds, Boxed, ThreadRecord
<1>11. ConnInv' /\ BufInv'
  BY <1>1, <1>3 DEF IInv, ProcInv, ConnInv, BufInv, worldVars
<1>12. CacheInv'
  BY <1>1 DEF IInv, CacheInv, FnInv, EntryInv, cacheVars
<1> QED BY <1>1, <1>2, <1>7, <1>8, <1>9, <1>10, <1>11, <1>12 DEF IInv, ProcInv

(* A descriptor that is opened is one that is closed: there is a lowest.   *)
LEMMA LowestFdClosed ==
  ASSUME ClosedFds # {}
  PROVE  LowestFd \in Fd /\ sock[LowestFd] = CLOSED
<1> DEFINE R == OpToRel(<, Nat)
<1>1. ClosedFds \subseteq Nat
  BY FdAssumption DEF ClosedFds
<1>2. PICK fd \in ClosedFds : \A other \in ClosedFds : <<other, fd>> \notin R
  <2> HIDE DEF R
  <2>1. IsWellFoundedOn(R, Nat)
    BY NatLessThanWellFounded DEF R
  <2> QED BY <1>1, <2>1, WFMin
<1>3. \A other \in ClosedFds : fd <= other
  <2> TAKE other \in ClosedFds
  <2>1. ~(other < fd)
    BY <1>1, <1>2 DEF OpToRel
  <2> QED BY <1>1, <2>1
<1>4. LowestFd \in ClosedFds
  BY <1>3 DEF LowestFd
<1> QED BY <1>4 DEF ClosedFds

(* Accept opens a descriptor for the client and leaves it to main's box.   *)
LEMMA MainAcceptInv ==
  ASSUME IInv, NEW c \in Client, MainAccept(c), UNCHANGED program
  PROVE  IInv'
<1> USE Apart, EndsApart DEF Client
<1>1. CASE ClosedFds = {} /\ unix_error
  BY <1>1, EndsInv DEF Ends, unix_error
<1>2. CASE ~(ClosedFds = {} /\ unix_error)
  <2> DEFINE fd == LowestFd
             a == main.connfdp
  <2>1. /\ fd \in Fd /\ sock[fd] = CLOSED
        /\ main.at = "accept" /\ conn[c] = "queued"
        /\ sock' = [sock EXCEPT ![fd] = ClientEnd(c)]
        /\ box' = [box EXCEPT ![a] = fd]
        /\ conn' = [conn EXCEPT ![c] = "open"]
        /\ main' = [main EXCEPT !.at = "create", !.of = c]
        /\ UNCHANGED <<cacheVars, status, th, buf, gone, got, program>>
    BY <1>2, LowestFdClosed, FdAssumption DEF MainAccept, ClientEnd
  <2> HIDE DEF fd
  <2>2. a \in Box /\ main.of = NONE /\ main' = [at |-> "create", connfdp |-> a, of |-> c]
    BY <2>1 DEF IInv, TypeOK, Held, ProcInv, MainInv
  <2> HIDE DEF a
  <2>3. th[c].at = "none" /\ got[c] = NONE
    BY <2>1 DEF IInv, ProcInv, ConnInv
  <2>4. /\ box'[a] = fd /\ \A b \in Box \ {a} : box'[b] = box[b]
        /\ sock'[fd] = ClientEnd(c) /\ \A f \in Fd \ {fd} : sock'[f] = sock[f]
    BY <2>1, <2>2 DEF IInv, TypeOK
  <2>5. \A t \in Thread : th[t].vargp # a /\ th[t].connfd # fd /\ th[t].clientfd # fd
    <3> TAKE t \in Thread
    <3>1. th[t].vargp # a
      BY <2>2 DEF IInv, ProcInv, BoxInv, a
    <3>2. th[t].connfd # fd /\ th[t].clientfd # fd
      BY <2>1 DEF IInv, ProcInv, ThreadInv, Holds, CLOSED
    <3> QED BY <3>1, <3>2
  <2>6. TypeOK'
    BY <2>1, <2>2 DEF IInv, TypeOK, Held, cacheVars, buffer_size, Endpoint, ClientEnd
  <2>7. MainInv'
    BY <2>2, <2>4, <2>1 DEF MainInv
  <2>8. ThreadInv'
    BY <2>1, <2>4, <2>5 DEF IInv, ProcInv, ThreadInv, Holds, ThreadRecord, CLOSED, Boxed
  <2>9. BoxInv'
    BY <2>1, <2>2, <2>4, <2>5 DEF IInv, ProcInv, BoxInv, FREE, a
  <2>10. SockInv'
    <3>1. \A t \in Thread : th[t].at = "start" => th[t].vargp \in Box \ {a}
      BY <2>5 DEF IInv, ProcInv, ThreadInv, Holds, ThreadRecord, Boxed
    <3>2. \A d \in Client : main.of # d
      BY <2>2
    <3>3. main'.of = c /\ main'.connfdp = a
      BY <2>2
    <3> QED BY <2>1, <2>4, <3>1, <3>2, <3>3 DEF IInv, ProcInv, SockInv
  <2>11. ConnInv' /\ BufInv'
    <3>1. ConnInv'
      BY <2>1, <2>2, <2>3 DEF IInv, ProcInv, ConnInv, Unanswered, Answered, Connected, Served
    <3>2. BufInv'
      BY <2>1 DEF IInv, ProcInv, BufInv
    <3> QED BY <3>1, <3>2
  <2>12. CacheInv'
    BY <2>1 DEF IInv, CacheInv, FnInv, EntryInv, cacheVars
  <2> QED BY <2>1, <2>6, <2>7, <2>8, <2>9, <2>10, <2>11, <2>12 DEF IInv, ProcInv
<1> QED BY <1>1, <1>2

(* pthread_create hands the box to the thread it creates, so it has one    *)
(* owner before and after.                                                 *)
LEMMA MainCreateInv == ASSUME IInv, MainCreate, ~unix_error, UNCHANGED program PROVE IInv'
<1> USE Apart, EndsApart DEF Client
<1>0. PICK t \in Thread, a \in Box : t = main.of /\ a = main.connfdp
  BY DEF MainCreate, posix_error, IInv, TypeOK, Held, ProcInv, MainInv
<1>1. /\ main.at = "create" /\ main' = MainMallocs
      /\ th' = [th EXCEPT ![t].at = "start", ![t].vargp = a]
      /\ UNCHANGED <<cacheVars, status, box, sock, buf, worldVars, program>>
  BY <1>0 DEF MainCreate, posix_error
<1>2. /\ t \in Thread /\ a \in Box /\ box[a] \in Fd /\ sock[box[a]] = ClientEnd(t)
  BY <1>0, <1>1 DEF IInv, TypeOK, Held, ProcInv, MainInv
<1>3. th[t].at = "none" /\ conn[t] = "open" /\ got[t] = NONE
  BY <1>0 DEF IInv, ProcInv, ConnInv
<1>4. \A u \in Thread : th[u].vargp # a
  BY <1>0, <1>2 DEF IInv, ProcInv, BoxInv
<1>5. \A b \in Box : main.connfdp = b <=> b = a
  BY <1>0
<1>6. \A u \in Thread : main.of = u <=> u = t
  BY <1>0
<1>7. /\ th'[t] = [th[t] EXCEPT !.at = "start", !.vargp = a]
      /\ \A u \in Thread \ {t} : th'[u] = th[u]
      /\ th' \in [Thread -> ThreadRecord]
  <2>1. th \in [Thread -> ThreadRecord]
    BY DEF IInv, ProcInv, ThreadInv, Holds
  <2>2. [th[t] EXCEPT !.at = "start", !.vargp = a] \in ThreadRecord
    BY <2>1, <1>2 DEF ThreadRecord, Steps, Boxed
  <2>3. th' = [th EXCEPT ![t] = [th[t] EXCEPT !.at = "start", !.vargp = a]]
    BY <1>1, <1>2, <2>1
  <2> QED BY <1>2, <2>1, <2>2, <2>3
<1>8. TypeOK'
  BY <1>1 DEF IInv, TypeOK, Held, cacheVars, worldVars, buffer_size, MainMallocs
<1>9. MainInv'
  BY <1>1 DEF MainInv, MainMallocs
<1>10. th'[t].at = "start" /\ th'[t].vargp = a /\ th'[t].connfd = NONE /\ th'[t].clientfd = NONE
  <2>1. th[t] \in ThreadRecord /\ th[t].connfd = NONE /\ th[t].clientfd = NONE
    BY <1>2, <1>3 DEF IInv, ProcInv, ThreadInv, Holds, Connected, Served
  <2> QED BY <1>7, <2>1 DEF ThreadRecord
<1>11. ThreadInv'
  <2>1. Holds(t)'
    <3>1. box'[th'[t].vargp] \in Fd /\ sock'[box'[th'[t].vargp]] = ClientEnd(t)
      BY <1>1, <1>2, <1>10 DEF worldVars
    <3>2. a # NONE
      BY <1>2
    <3> QED BY <1>10, <3>1, <3>2 DEF Holds, Boxed, Connected, Served
  <2>2. ASSUME NEW u \in Thread \ {t} PROVE Holds(u)'
    BY <1>1, <1>7 DEF IInv, ProcInv, ThreadInv, Holds
  <2> QED BY <1>2, <1>7, <2>1, <2>2 DEF ThreadInv
<1>12. BoxInv'
  <2>1. \A b \in Box : main'.connfdp # b
    BY <1>1 DEF MainMallocs
  <2>2. th[t].vargp = NONE
    BY <1>2, <1>3 DEF IInv, ProcInv, ThreadInv, Holds, Boxed
  <2>3. ASSUME NEW b \in Box
        PROVE  (main.connfdp = b \/ \E u \in Thread : th[u].vargp = b) <=>
               \E u \in Thread : th'[u].vargp = b
    BY <1>2, <1>5, <1>7, <1>10, <2>2
  <2>4. \A b \in Box : box'[b] # FREE <=> main'.connfdp = b \/ \E u \in Thread : th'[u].vargp = b
    BY <1>1, <2>1, <2>3 DEF IInv, ProcInv, BoxInv
  <2>5. ASSUME NEW u \in Thread, th'[u].vargp # NONE
        PROVE  /\ th'[u].vargp # main'.connfdp
               /\ \A v \in Thread : th'[v].vargp = th'[u].vargp => v = u
    BY <1>1, <1>4, <1>7, <1>10, <2>5 DEF IInv, ProcInv, BoxInv, MainMallocs
  <2> QED BY <2>4, <2>5 DEF BoxInv
<1>13. SockInv'
  <2> SUFFICES ASSUME NEW fd \in Fd, NEW c \in Client
               PROVE  /\ sock'[fd] = ClientEnd(c) =>
                           \/ th'[c].connfd = fd
                           \/ th'[c].at = "start" /\ box'[th'[c].vargp] = fd
                      /\ sock'[fd] = ServerEnd(c) => th'[c].clientfd = fd
    BY DEF SockInv
  <2>1. CASE c # t
    BY <1>1, <1>6, <1>7, <2>1 DEF IInv, ProcInv, SockInv
  <2>2. CASE c = t
    <3>1. th[t].connfd = NONE /\ th[t].clientfd = NONE
      BY <1>2, <1>3 DEF IInv, ProcInv, ThreadInv, Holds, Connected, Served
    <3> QED BY <1>0, <1>1, <1>3, <1>10, <2>2, <3>1 DEF IInv, ProcInv, SockInv
  <2> QED BY <2>1, <2>2
<1>14. ConnInv' /\ BufInv'
  <2>1. ConnInv'
    BY <1>1, <1>2, <1>3, <1>7, <1>10
       DEF IInv, ProcInv, ConnInv, worldVars, Unanswered, Answered, Connected, Served, MainMallocs
  <2>2. BufInv'
    BY <1>1, <1>7, <1>10 DEF IInv, ProcInv, BufInv
  <2> QED BY <2>1, <2>2
<1>15. CacheInv'
  BY <1>1, <1>2, <1>3, <1>7, CacheFrame DEF IInv, OnlyMoves, Late
<1> QED BY <1>1, <1>8, <1>9, <1>11, <1>12, <1>13, <1>14, <1>15 DEF IInv, ProcInv

----------------------------------------------------------------------------
(* Clients *)

LEMMA ClientStepInv == ASSUME IInv, NEW c \in Client, ClientStep(c) PROVE IInv'
<1>1. /\ UNCHANGED <<cacheVars, status, procVars, program, got>>
      /\ \/ conn[c] = "idle" /\ conn' = [conn EXCEPT ![c] = "queued"]
         \/ conn' = conn
  BY DEF ClientStep, ClientConnects, ClientResets
<1>2. TypeOK' /\ BufInv'
  BY <1>1 DEF IInv, TypeOK, ProcInv, BufInv, cacheVars, procVars, buffer_size
<1>3. MainInv' /\ ThreadInv' /\ BoxInv' /\ SockInv'
  BY <1>1 DEF IInv, ProcInv, MainInv, ThreadInv, Holds, BoxInv, SockInv, procVars
<1>4. ConnInv'
  BY <1>1 DEF IInv, ProcInv, ConnInv, procVars
<1>5. CacheInv'
  BY <1>1 DEF IInv, CacheInv, FnInv, EntryInv, cacheVars, procVars
<1> QED BY <1>1, <1>2, <1>3, <1>4, <1>5 DEF IInv, ProcInv

----------------------------------------------------------------------------
(* A thread *)

(* What a thread has at the step it is at.                                 *)
LEMMA Holding ==
  ASSUME ThreadInv, NEW t \in Thread
  PROVE  /\ th[t] \in ThreadRecord
         /\ th[t].at \in Boxed => th[t].vargp \in Box
         /\ th[t].at \in Connected =>
              th[t].connfd \in Fd /\ sock[th[t].connfd] = ClientEnd(t)
         /\ th[t].at \in Served =>
              th[t].clientfd \in Fd /\ sock[th[t].clientfd] = ServerEnd(t)
<1>1. th[t] \in ThreadRecord /\ Holds(t)
  BY DEF ThreadInv
<1> QED BY <1>1 DEF Holds, ThreadRecord

(* The record of thread t is replaced and no other is touched.             *)
LEMMA Moved ==
  ASSUME ThreadInv, NEW t \in Thread, NEW r \in ThreadRecord, th' = [th EXCEPT ![t] = r]
  PROVE  OnlyMoves(t) /\ th'[t] = r
<1>1. th \in [Thread -> ThreadRecord]
  BY DEF ThreadInv
<1> QED BY <1>1 DEF OnlyMoves

(* A thread takes the descriptor out of its box, and then has both.        *)
LEMMA ThreadStartInv ==
  ASSUME IInv, NEW t \in Thread, ThreadStart(t), UNCHANGED program
  PROVE  IInv'
<1> USE Apart, EndsApart DEF Client
<1>1. /\ th[t].at = "start"
      /\ th' = [th EXCEPT ![t].at = "free", ![t].connfd = box[th[t].vargp]]
      /\ UNCHANGED <<cacheVars, status, main, box, sock, buf, conn, got, program>>
  BY DEF ThreadStart, Runs, worldVars
<1>2. ThreadInv /\ MainInv /\ BoxInv /\ SockInv /\ ConnInv /\ BufInv
  BY DEF IInv, ProcInv
<1>3. PICK fd \in Fd : fd = box[th[t].vargp] /\ sock[fd] = ClientEnd(t)
  BY <1>1, <1>2 DEF ThreadInv, Holds
<1>4. th[t] \in ThreadRecord /\ th[t].vargp \in Box /\ th[t].clientfd = NONE
  BY <1>1, <1>2, Holding DEF Boxed, ThreadInv, Holds, Served
<1> DEFINE r == [th[t] EXCEPT !.at = "free", !.connfd = fd]
<1>5. OnlyMoves(t) /\ th'[t] = r
  <2>1. r \in ThreadRecord
    BY <1>4 DEF ThreadRecord, Steps, Boxed, Connected
  <2>2. th' = [th EXCEPT ![t] = r]
    BY <1>1, <1>2, <1>3, <1>4 DEF ThreadInv
  <2> QED BY <1>2, <2>1, <2>2, Moved
<1>6. /\ th'[t].at = "free" /\ th'[t].vargp = th[t].vargp
      /\ th'[t].connfd = fd /\ th'[t].clientfd = NONE
  BY <1>4, <1>5 DEF ThreadRecord
<1> HIDE DEF r
<1>7. TypeOK'
  BY <1>1 DEF IInv, TypeOK, cacheVars, buffer_size
<1>8. MainInv'
  BY <1>1, <1>2 DEF MainInv
<1>9. ThreadInv'
  <2>1. Holds(t)'
    BY <1>1, <1>3, <1>4, <1>6 DEF Holds, Boxed, Connected, Served
  <2>2. ASSUME NEW u \in Thread \ {t} PROVE Holds(u)'
    BY <1>1, <1>2, <1>5 DEF OnlyMoves, ThreadInv, Holds
  <2> QED BY <1>5, <2>1, <2>2 DEF ThreadInv, OnlyMoves
<1>10. BoxInv'
  <2>1. \A u \in Thread : th'[u].vargp = th[u].vargp
    BY <1>5, <1>6 DEF OnlyMoves
  <2> QED BY <1>1, <1>2, <2>1, SameBoxes
<1>11. SockInv'
  <2>1. main.of # t
    BY <1>1, <1>2 DEF ConnInv
  <2> SUFFICES ASSUME NEW f \in Fd, NEW c \in Client
               PROVE  /\ sock[f] = ClientEnd(c) =>
                           \/ th'[c].connfd = f
                           \/ th'[c].at = "start" /\ box[th'[c].vargp] = f
                           \/ main.of = c /\ box[main.connfdp] = f
                      /\ sock[f] = ServerEnd(c) => th'[c].clientfd = f
    BY <1>1 DEF SockInv
  <2>2. CASE c # t
    BY <1>2, <1>5, <2>2 DEF SockInv, OnlyMoves
  <2>3. CASE c = t
    <3>1. sock[f] = ClientEnd(t) => f = fd
      BY <1>1, <1>2, <1>3, <1>4, <2>1 DEF SockInv, ThreadInv, Holds, Connected, Served
    <3>2. sock[f] # ServerEnd(t)
      BY <1>2, <1>4 DEF SockInv
    <3> QED BY <1>6, <2>3, <3>1, <3>2
  <2> QED BY <2>2, <2>3
<1>12. ConnInv' /\ BufInv'
  <2>1. {th[t].at, th'[t].at} \subseteq Unanswered \ {"canAdd", "respond"}
    BY <1>1, <1>6 DEF Unanswered, Answered, Connected, Served
  <2>2. \A u \in Thread \ {t} : th'[u] = th[u]
    BY <1>5 DEF OnlyMoves
  <2>3. BufInv'
    BY <1>1, <1>2, <2>1, <2>2 DEF BufInv
  <2> QED BY <1>1, <1>2, <2>1, <2>2, <2>3 DEF ConnInv, Unanswered, Answered
<1>13. CacheInv'
  BY <1>1, <1>5, CacheFrame DEF IInv, Late
<1> QED BY <1>1, <1>7, <1>8, <1>9, <1>10, <1>11, <1>12, <1>13 DEF IInv, ProcInv

(* A thread frees its box and keeps the descriptor.                        *)
LEMMA ThreadFreeInv ==
  ASSUME IInv, NEW t \in Thread, ThreadFree(t), UNCHANGED program
  PROVE  IInv'
<1> USE Apart, EndsApart DEF Client
<1>1. ThreadInv /\ MainInv /\ BoxInv /\ SockInv /\ ConnInv /\ BufInv
  BY DEF IInv, ProcInv
<1>2. th[t].at = "free"
  BY DEF ThreadFree, Runs
<1>3. PICK a \in Box : a = th[t].vargp
  BY <1>1, <1>2, Holding DEF Boxed
<1>4. /\ box' = [box EXCEPT ![a] = FREE]
      /\ th' = [th EXCEPT ![t].at = "read", ![t].vargp = NONE]
      /\ UNCHANGED <<cacheVars, status, main, sock, buf, conn, got, program>>
  BY <1>3 DEF ThreadFree, worldVars
<1>5. /\ th[t] \in ThreadRecord
      /\ th[t].connfd \in Fd /\ sock[th[t].connfd] = ClientEnd(t) /\ th[t].clientfd = NONE
  BY <1>1, <1>2, Holding DEF Connected, ThreadInv, Holds, Served
<1> DEFINE r == [th[t] EXCEPT !.at = "read", !.vargp = NONE]
<1>6. OnlyMoves(t) /\ th'[t] = r
  <2>1. r \in ThreadRecord
    BY <1>5 DEF ThreadRecord, Steps, Connected
  <2>2. th' = [th EXCEPT ![t] = r]
    BY <1>1, <1>4, <1>5 DEF ThreadInv
  <2> QED BY <1>1, <2>1, <2>2, Moved
<1>7. /\ th'[t].at = "read" /\ th'[t].vargp = NONE
      /\ th'[t].connfd = th[t].connfd /\ th'[t].clientfd = NONE
  BY <1>5, <1>6 DEF ThreadRecord
<1> HIDE DEF r
<1>8. box'[a] = FREE /\ \A b \in Box \ {a} : box'[b] = box[b]
  BY <1>4 DEF IInv, TypeOK
<1>9. main.connfdp # a /\ \A u \in Thread \ {t} : th[u].vargp # a
  BY <1>1, <1>3 DEF BoxInv
<1>10. TypeOK'
  BY <1>4 DEF IInv, TypeOK, cacheVars, buffer_size
<1>11. MainInv'
  <2>1. main.at \in {"accept", "create"} => main.connfdp \in Box \ {a}
    BY <1>1, <1>9 DEF IInv, TypeOK, Held, MainInv
  <2> QED BY <1>1, <1>4, <1>8, <2>1 DEF MainInv
<1>12. ThreadInv'
  <2>1. Holds(t)'
    BY <1>4, <1>5, <1>7 DEF Holds, Boxed, Connected, Served
  <2>2. ASSUME NEW u \in Thread \ {t} PROVE Holds(u)'
    <3>1. th[u].at \in Boxed => th[u].vargp \in Box \ {a}
      BY <1>1, <1>9, Holding
    <3>2. Holds(u) /\ th'[u] = th[u]
      BY <1>1, <1>6 DEF OnlyMoves, ThreadInv
    <3> QED BY <1>4, <1>8, <3>1, <3>2 DEF Holds, Boxed
  <2> QED BY <1>6, <2>1, <2>2 DEF ThreadInv, OnlyMoves
<1>13. BoxInv'
  <2>1. ASSUME NEW b \in Box
        PROVE  box'[b] # FREE <=> main.connfdp = b \/ \E u \in Thread : th'[u].vargp = b
    <3>1. CASE b = a
      BY <1>6, <1>7, <1>8, <1>9, <3>1 DEF OnlyMoves
    <3>2. CASE b # a
      <4>1. \A u \in Thread : th'[u].vargp = b <=> th[u].vargp = b
        BY <1>3, <1>6, <1>7, <3>2 DEF OnlyMoves
      <4> QED BY <1>1, <1>8, <3>2, <4>1 DEF BoxInv
    <3> QED BY <3>1, <3>2
  <2>2. \A u \in Thread : th'[u].vargp # NONE => th'[u] = th[u]
    BY <1>6, <1>7 DEF OnlyMoves
  <2>3. ASSUME NEW u \in Thread, th'[u].vargp # NONE
        PROVE  /\ th'[u].vargp # main.connfdp
               /\ \A v \in Thread : th'[v].vargp = th'[u].vargp => v = u
    BY <1>1, <2>2, <2>3 DEF BoxInv
  <2> QED BY <1>4, <2>1, <2>3 DEF BoxInv
<1>14. SockInv'
  <2> SUFFICES ASSUME NEW f \in Fd, NEW c \in Client
               PROVE  /\ sock[f] = ClientEnd(c) =>
                           \/ th'[c].connfd = f
                           \/ th'[c].at = "start" /\ box'[th'[c].vargp] = f
                           \/ main.of = c /\ box'[main.connfdp] = f
                      /\ sock[f] = ServerEnd(c) => th'[c].clientfd = f
    BY <1>4 DEF SockInv
  <2>1. main.of = c => main.connfdp \in Box \ {a}
    BY <1>1, <1>9 DEF IInv, TypeOK, Held, MainInv
  <2>2. CASE c # t
    <3>1. th'[c] = th[c]
      BY <1>6, <2>2 DEF OnlyMoves
    <3>2. th[c].at = "start" => th[c].vargp \in Box \ {a}
      BY <1>1, <1>9, <2>2, Holding DEF Boxed
    <3> QED BY <1>1, <1>8, <2>1, <3>1, <3>2 DEF SockInv
  <2>3. CASE c = t
    <3>1. main.of # t
      BY <1>1, <1>2 DEF ConnInv
    <3>2. sock[f] = ClientEnd(t) => th[t].connfd = f
      BY <1>1, <1>2, <3>1 DEF SockInv
    <3>3. sock[f] # ServerEnd(t)
      BY <1>1, <1>5 DEF SockInv
    <3> QED BY <1>7, <2>3, <3>2, <3>3
  <2> QED BY <2>2, <2>3
<1>15. ConnInv' /\ BufInv'
  <2>1. ConnInv'
    BY <1>1, <1>2, <1>4, <1>6, <1>7
       DEF ConnInv, OnlyMoves, Unanswered, Answered, Connected, Served
  <2>2. BufInv'
    BY <1>1, <1>2, <1>4, <1>6, <1>7 DEF BufInv, OnlyMoves
  <2> QED BY <2>1, <2>2
<1>16. CacheInv'
  BY <1>2, <1>4, <1>6, CacheFrame DEF IInv, Late
<1> QED BY <1>4, <1>10, <1>11, <1>12, <1>13, <1>14, <1>15, <1>16 DEF IInv, ProcInv

----------------------------------------------------------------------------
(* The cache as a thread calls it, and its functions.                      *)

(* A thread calls a cache function: only its activation changes, and, if   *)
(* no entry names the thread yet, what is in its buffer.                   *)
LEMMA CallInv ==
  ASSUME CacheInv, NEW t \in Thread, OnlyMoves(t), NEW a \in Activation,
         UNCHANGED <<cache, slot_allocated, cache_mutex>>,
         th[t].at \notin {"lookup", "canAdd"} \/ fn[t].at = "returned",
         fn' = [fn EXCEPT ![t] = a],
         a.at \in {"isInCache", "canAddToCache", "add_cache_entry"},
         a.at = "isInCache" => th'[t].at = "lookup",
         a.at # "isInCache" => th'[t].at = "canAdd" /\ a.n = buf'[t].len,
         \A u \in Thread \ {t} : buf'[u] = buf[u],
         th[t].at \in Late => th'[t].at \in Late /\ buf'[t] = buf[t]
  PROVE  CacheInv'
<1> USE DEF OnlyMoves
<1>1. fn[t].at = "returned"
  BY DEF CacheInv, FnInv, Activation, Labels, Adding, CanAdding, InAdd, InEviction
<1>2. /\ fn' \in [Thread -> Activation] /\ fn'[t] = a
      /\ \A u \in Thread \ {t} : fn'[u] = fn[u]
  BY DEF CacheInv, FnInv
<1>3. FnInv'
  <2>1. a.at \notin Locked /\ a.at \notin {"cached_size", "evict size", "fileSize"}
    BY DEF Locked, InAdd, InEviction
  <2>2. a.at \in Adding \cup CanAdding => th'[t].at = "canAdd" /\ a.n = buf'[t].len
    BY DEF Adding, CanAdding, InAdd, InEviction
  <2>3. \A u \in Thread \ {t} : th'[u] = th[u] /\ buf'[u] = buf[u] /\ fn'[u] = fn[u]
    BY <1>2
  <2>4. a.at = "isInCache" => th'[t].at = "lookup"
    OBVIOUS
  <2> QED BY <1>2, <2>1, <2>2, <2>3, <2>4 DEF CacheInv, FnInv
<1>4. EntryInv'
  <2>1. a.at # "fileSize"
    OBVIOUS
  <2>2. cache' \in [DOMAIN cache' -> Entry] /\ slot_allocated' >= InitialSlots
    BY DEF CacheInv, EntryInv
  <2>3. ASSUME NEW u \in Thread, fn'[u].at = "fileSize"
        PROVE  /\ slot_allocated' - 1 \in DOMAIN cache'
               /\ cache'[slot_allocated' - 1].host = u
    BY <1>2, <2>1, <2>3 DEF CacheInv, EntryInv
  <2>4. ASSUME NEW i \in DOMAIN cache', cache'[i].host # NONE
        PROVE  /\ th'[cache'[i].host].at \in Late
               /\ \/ cache'[i].fileSize = buf'[cache'[i].host].len
                  \/ fn'[cache'[i].host].at = "fileSize" /\ i = slot_allocated' - 1
    <3>1. PICK h \in Thread : h = cache[i].host
      BY <2>4 DEF CacheInv, EntryInv, Entry
    <3>2. /\ th[h].at \in Late
          /\ \/ cache[i].fileSize = buf[h].len
             \/ fn[h].at = "fileSize" /\ i = slot_allocated - 1
      BY <2>4, <3>1 DEF CacheInv, EntryInv, Late
    <3>3. CASE h = t
      BY <1>1, <3>1, <3>2, <3>3
    <3>4. CASE h # t
      BY <1>2, <3>1, <3>2, <3>4
    <3> QED BY <3>3, <3>4
  <2> QED BY <2>2, <2>3, <2>4 DEF EntryInv, Late
<1> QED BY <1>3, <1>4 DEF CacheInv

(* A thread outside the cache, named by no entry, fills its buffer.        *)
LEMMA FillInv ==
  ASSUME CacheInv, NEW t \in Thread, OnlyMoves(t), UNCHANGED cacheVars,
         th[t].at \notin {"lookup"} \cup Late, \A u \in Thread \ {t} : buf'[u] = buf[u]
  PROVE  CacheInv'
<1> USE DEF OnlyMoves, cacheVars
<1>1. \A u \in Thread : fn[u].at # "returned" => u # t
  BY DEF CacheInv, FnInv, Activation, Labels, Adding, CanAdding, Late
<1>2. FnInv'
  BY <1>1 DEF CacheInv, FnInv, Adding, CanAdding, InAdd, InEviction
<1>3. \A i \in DOMAIN cache : cache[i].host # NONE => cache[i].host \in Thread \ {t}
  BY DEF CacheInv, EntryInv, Entry, Late
<1>4. EntryInv'
  BY <1>3 DEF CacheInv, EntryInv
<1> QED BY <1>2, <1>4 DEF CacheInv

(* A step of a cache function that leaves the array alone.                 *)
LEMMA ActivationInv ==
  ASSUME CacheInv, NEW t \in Thread, NEW a \in Activation,
         UNCHANGED <<cache, slot_allocated, th, buf>>,
         fn' = [fn EXCEPT ![t] = a],
         a.at \in {"returned"} \cup Adding \cup CanAdding,
         a.at # "returned" => fn[t].at \in Adding \cup CanAdding /\ a.n = fn[t].n,
         "fileSize" \notin {fn[t].at, a.at},
         a.at \in {"cached_size", "evict size"} => a.loaded \in Nat \cup {NONE},
         a.at \in Locked => cache_mutex' = t,
         cache_mutex \in {NONE, t} \/ cache_mutex' = cache_mutex
  PROVE  CacheInv'
<1> USE Apart
<1>1. /\ fn' \in [Thread -> Activation] /\ fn'[t] = a
      /\ \A u \in Thread \ {t} : fn'[u] = fn[u]
  BY DEF CacheInv, FnInv
<1>2. FnInv'
  <2>1. a.at # "isInCache"
    BY DEF Adding, CanAdding, InAdd, InEviction
  <2>2. a.at \in Adding \cup CanAdding => th'[t].at = "canAdd" /\ a.n = buf'[t].len
    BY DEF CacheInv, FnInv, Adding, CanAdding, InAdd, InEviction
  <2>3. \A u \in Thread \ {t} : fn[u].at \in Locked => cache_mutex' = u
    BY DEF CacheInv, FnInv
  <2> QED BY <1>1, <2>1, <2>2, <2>3 DEF CacheInv, FnInv
<1>3. \A u \in Thread : fn'[u].at = "fileSize" <=> fn[u].at = "fileSize"
  BY <1>1
<1>4. EntryInv'
  <2>1. \A i \in DOMAIN cache : cache[i].host \in Thread \cup {NONE}
    BY DEF CacheInv, EntryInv, Entry
  <2> QED BY <1>3, <2>1 DEF CacheInv, EntryInv
<1> QED BY <1>2, <1>4 DEF CacheInv

(* What a function may return, and where it may go on, is an activation.   *)
LEMMA Activations ==
  ASSUME FnInv, NEW t \in Thread
  PROVE  /\ fn[t] \in Activation
         /\ \A value \in Results :
              Returned(value) \in Activation /\ Returned(value).at = "returned"
         /\ \A label \in Labels :
              /\ Reaches(t, label) \in Activation
              /\ Reaches(t, label).at = label /\ Reaches(t, label).n = fn[t].n
              /\ Reaches(t, label).loaded = NONE
<1>1. fn[t] \in Activation
  BY DEF FnInv
<1>2. \A value \in Results : Returned(value) \in Activation /\ Returned(value).at = "returned"
  BY DEF Returned, Activation, Labels
<1>3. ASSUME NEW label \in Labels
      PROVE  /\ Reaches(t, label) \in Activation
             /\ Reaches(t, label).at = label /\ Reaches(t, label).n = fn[t].n
             /\ Reaches(t, label).loaded = NONE
  BY <1>1 DEF Reaches, Activation
<1> QED BY <1>1, <1>2, <1>3

(* A cache function ends the process or the process goes on.               *)
LEMMA CacheStops ==
  ASSUME NEW t \in Thread, CacheStep(t)
  PROVE  /\ status = "running"
         /\ status' = "running" \/ Stop("segfault") \/ Stop("undefined")
  BY DEF CacheStep, isInCache, canAddToCache, CheckSlots, do_realloc, AddLock, WriteHost,
         WriteFileSize, AddUnlock, AddCounts, delete_LRU, Locks, Unlocks, Adds, At, memory

CacheTypes ==
  /\ count \in [slot_used : Int, cached_size : Nat] /\ slot_allocated \in Nat
  /\ cache_mutex \in Thread \cup {NONE}
  /\ 0 \in DOMAIN cache /\ cache[0] = ZeroedEntries[0]

(* Entry 0 is never written to: the last entry is another one.             *)
LEMMA FirstEntry ==
  ASSUME CacheTypes, CacheInv
  PROVE  /\ slot_allocated \in Nat /\ slot_allocated >= InitialSlots
         /\ slot_allocated - 1 \in Int /\ slot_allocated - 1 # 0
         /\ cache[0].host = NONE /\ cache[0].fileSize = 0 /\ cache[0] \in Entry
<1>1. slot_allocated \in Nat /\ slot_allocated >= InitialSlots
  BY DEF CacheTypes, CacheInv, EntryInv
<1>2. slot_allocated - 1 \in Int /\ slot_allocated - 1 # 0
  BY <1>1, SlotsAssumption
<1>3. 0 \in 0 .. InitialSlots - 1
  BY SlotsAssumption
<1>4. cache[0].host = NONE /\ cache[0].fileSize = 0
  BY <1>3 DEF CacheTypes, ZeroedEntries
<1>5. cache[0] \in Entry
  BY DEF CacheTypes, CacheInv, EntryInv
<1> QED BY <1>1, <1>2, <1>4, <1>5

(* The steps that write to the array.                                      *)
LEMMA ReallocInv ==
  ASSUME CacheTypes, CacheInv, NEW t \in Thread, do_realloc(t), UNCHANGED <<th, buf>>
  PROVE  CacheTypes' /\ CacheInv'
<1> USE Apart, SlotsAssumption
<1>1. /\ fn[t].at = "do_realloc" /\ cache_mutex = NONE
      /\ \/ cache' = [i \in {0} |-> cache[0]] /\ slot_allocated' = slot_allocated + 1
         \/ UNCHANGED <<cache, slot_allocated>>
      /\ fn' = [fn EXCEPT ![t] = Reaches(t, "add_cache_entry")]
      /\ UNCHANGED <<count, cache_mutex, status>>
  BY DEF do_realloc, At, Becomes
<1> DEFINE a == Reaches(t, "add_cache_entry")
<1>2. a \in Activation /\ a.at = "add_cache_entry" /\ a.n = fn[t].n
  BY Activations DEF CacheInv, Labels, Adding
<1>3. fn' \in [Thread -> Activation] /\ fn'[t] = a /\ \A u \in Thread \ {t} : fn'[u] = fn[u]
  BY <1>1, <1>2 DEF CacheInv, FnInv
<1> HIDE DEF a
<1>4. \A u \in Thread : fn[u].at \notin Locked
  BY <1>1 DEF CacheInv, FnInv
<1>5. CacheTypes'
  BY <1>1 DEF CacheTypes
<1>6. FnInv'
  BY <1>1, <1>2, <1>3, <1>4
     DEF CacheInv, FnInv, Adding, CanAdding, Locked, InAdd, InEviction
<1>7. EntryInv'
  <2>1. cache[0].host = NONE /\ cache[0] \in Entry
    BY FirstEntry
  <2>2. \A u \in Thread : fn'[u].at # "fileSize"
    BY <1>2, <1>3, <1>4 DEF Locked, InAdd
  <2>3. slot_allocated' >= InitialSlots
    BY <1>1, FirstEntry
  <2>4. CASE cache' = [i \in {0} |-> cache[0]]
    BY <2>1, <2>2, <2>3, <2>4 DEF EntryInv
  <2>5. CASE UNCHANGED <<cache, slot_allocated>>
    <3>1. \A u \in Thread : fn[u].at # "fileSize"
      BY <1>4 DEF Locked, InAdd
    <3>2. EntryInv /\ UNCHANGED <<cache, slot_allocated, th, buf>>
      BY <2>5 DEF CacheInv
    <3>3. \A i \in DOMAIN cache : cache[i].host # NONE =>
            /\ th[cache[i].host].at \in {"canAdd", "respond", "close server", "close client", "ended"}
            /\ cache[i].fileSize = buf[cache[i].host].len
      <4> SUFFICES ASSUME NEW i \in DOMAIN cache, cache[i].host # NONE
                   PROVE  /\ th[cache[i].host].at \in {"canAdd", "respond", "close server", "close client", "ended"}
                          /\ cache[i].fileSize = buf[cache[i].host].len
        OBVIOUS
      <4>1. cache[i].host \in Thread
        BY <3>2 DEF EntryInv, Entry
      <4> QED BY <3>1, <3>2, <4>1 DEF EntryInv
    <3> QED BY <2>2, <3>2, <3>3 DEF EntryInv
  <2> QED BY <1>1, <2>4, <2>5
<1> QED BY <1>5, <1>6, <1>7 DEF CacheInv

(* The part of a new entry that add_cache_entry writes first.              *)
LEMMA WriteHostInv ==
  ASSUME CacheTypes, CacheInv, NEW t \in Thread, WriteHost(t), status' = "running",
         UNCHANGED <<th, buf>>
  PROVE  CacheTypes' /\ CacheInv'
<1> USE Apart, SlotsAssumption
<1> DEFINE k == slot_allocated - 1
<1>1. /\ fn[t].at = "host" /\ k \in DOMAIN cache
      /\ cache' = [cache EXCEPT ![k].host = t]
      /\ fn' = [fn EXCEPT ![t] = Reaches(t, "fileSize")]
      /\ UNCHANGED <<count, slot_allocated, cache_mutex, status>>
  BY DEF WriteHost, At, Becomes, Stop
<1> DEFINE a == Reaches(t, "fileSize")
<1>2. a \in Activation /\ a.at = "fileSize" /\ a.n = fn[t].n
  BY Activations DEF CacheInv, Labels, Adding, InAdd
<1>3. fn' \in [Thread -> Activation] /\ fn'[t] = a /\ \A u \in Thread \ {t} : fn'[u] = fn[u]
  BY <1>1, <1>2 DEF CacheInv, FnInv
<1> HIDE DEF a
<1>4. cache_mutex = t /\ \A u \in Thread \ {t} : fn[u].at \notin Locked
  BY <1>1 DEF CacheInv, FnInv, Locked, InAdd
<1>5. k \in Int /\ k # 0 /\ slot_allocated' - 1 = k
  BY <1>1, FirstEntry
<1> HIDE DEF k
<1>6. /\ DOMAIN cache' = DOMAIN cache /\ cache' \in [DOMAIN cache' -> Entry]
      /\ cache'[k].host = t /\ \A i \in DOMAIN cache \ {k} : cache'[i] = cache[i]
  <2>1. cache \in [DOMAIN cache -> Entry] /\ cache[k] \in Entry
    BY <1>1 DEF CacheInv, EntryInv
  <2>2. cache' = [cache EXCEPT ![k] = [cache[k] EXCEPT !.host = t]]
    BY <1>1, <2>1
  <2>3. [cache[k] EXCEPT !.host = t] \in Entry /\ [cache[k] EXCEPT !.host = t].host = t
    BY <2>1 DEF Entry
  <2> QED BY <1>1, <2>1, <2>2, <2>3
<1>7. CacheTypes'
  BY <1>1, <1>5, <1>6 DEF CacheTypes
<1>8. FnInv'
  BY <1>1, <1>2, <1>3, <1>4
     DEF CacheInv, FnInv, Adding, CanAdding, Locked, InAdd, InEviction
<1>9. EntryInv'
  <2>1. ASSUME NEW u \in Thread, fn'[u].at = "fileSize"
        PROVE  slot_allocated' - 1 \in DOMAIN cache' /\ cache'[slot_allocated' - 1].host = u
    BY <1>1, <1>3, <1>4, <1>5, <1>6, <2>1 DEF Locked, InAdd
  <2>2. ASSUME NEW i \in DOMAIN cache', cache'[i].host # NONE
        PROVE  /\ th'[cache'[i].host].at \in Late
               /\ \/ cache'[i].fileSize = buf'[cache'[i].host].len
                  \/ fn'[cache'[i].host].at = "fileSize" /\ i = slot_allocated' - 1
    <3>1. CASE i = k
      <4>1. th[t].at = "canAdd"
        BY <1>1 DEF CacheInv, FnInv, Adding, InAdd
      <4> QED BY <1>2, <1>3, <1>5, <1>6, <3>1, <4>1 DEF Late
    <3>2. CASE i # k
      <4>1. PICK h \in Thread : h = cache[i].host /\ cache'[i] = cache[i]
        BY <1>6, <2>2, <3>2 DEF CacheInv, EntryInv, Entry
      <4>2. th[h].at \in Late /\ cache[i].fileSize = buf[h].len
        BY <1>1, <1>5, <1>6, <2>2, <3>2, <4>1 DEF CacheInv, EntryInv, Late
      <4> QED BY <4>1, <4>2
    <3> QED BY <3>1, <3>2
  <2>3. slot_allocated' >= InitialSlots
    BY <1>1 DEF CacheInv, EntryInv
  <2> QED BY <1>6, <2>1, <2>2, <2>3 DEF EntryInv, Late
<1> QED BY <1>7, <1>8, <1>9 DEF CacheInv

(* The entry that add_cache_entry completes is counted in cached_size in   *)
(* the same step.                                                          *)
LEMMA WriteFileSizeInv ==
  ASSUME CacheTypes, CacheInv, NEW t \in Thread, WriteFileSize(t), UNCHANGED <<th, buf>>
  PROVE  CacheTypes' /\ CacheInv'
<1> USE Apart, SlotsAssumption
<1> DEFINE k == slot_allocated - 1
<1>1. /\ fn[t].at = "fileSize"
      /\ cache' = [cache EXCEPT ![k].fileSize = fn[t].n]
      /\ fn' = [fn EXCEPT ![t] = Reaches(t, "unlock")]
      /\ UNCHANGED <<count, slot_allocated, cache_mutex, status>>
  BY DEF WriteFileSize, At, Becomes
<1> DEFINE a == Reaches(t, "unlock")
<1>2. a \in Activation /\ a.at = "unlock" /\ a.n = fn[t].n
  BY Activations DEF CacheInv, Labels, Adding, InAdd
<1>3. fn' \in [Thread -> Activation] /\ fn'[t] = a /\ \A u \in Thread \ {t} : fn'[u] = fn[u]
  BY <1>1, <1>2 DEF CacheInv, FnInv
<1> HIDE DEF a
<1>4. cache_mutex = t /\ \A u \in Thread \ {t} : fn[u].at \notin Locked
  BY <1>1 DEF CacheInv, FnInv, Locked, InAdd
<1>5. k \in Int /\ k # 0 /\ slot_allocated' - 1 = k
  BY <1>1, FirstEntry
<1>6. k \in DOMAIN cache /\ cache[k].host = t
  BY <1>1 DEF CacheInv, EntryInv
<1>7. fn[t].n \in Nat /\ fn[t].n = buf[t].len
  BY <1>1 DEF CacheInv, FnInv, Activation, Adding, InAdd
<1> HIDE DEF k
<1>8. /\ DOMAIN cache' = DOMAIN cache /\ cache' \in [DOMAIN cache' -> Entry]
      /\ cache'[k].host = t /\ cache'[k].fileSize = buf[t].len
      /\ \A i \in DOMAIN cache \ {k} : cache'[i] = cache[i]
  <2>1. cache \in [DOMAIN cache -> Entry] /\ cache[k] \in Entry
    BY <1>6 DEF CacheInv, EntryInv
  <2>2. cache' = [cache EXCEPT ![k] = [cache[k] EXCEPT !.fileSize = fn[t].n]]
    BY <1>1, <2>1
  <2>3. /\ [cache[k] EXCEPT !.fileSize = fn[t].n] \in Entry
        /\ [cache[k] EXCEPT !.fileSize = fn[t].n].host = t
        /\ [cache[k] EXCEPT !.fileSize = fn[t].n].fileSize = buf[t].len
    BY <1>6, <1>7, <2>1 DEF Entry
  <2> QED BY <1>6, <2>1, <2>2, <2>3
<1>9. CacheTypes'
  BY <1>1, <1>5, <1>8 DEF CacheTypes
<1>10. FnInv'
  BY <1>1, <1>2, <1>3, <1>4
     DEF CacheInv, FnInv, Adding, CanAdding, Locked, InAdd, InEviction
<1>11. EntryInv'
  <2>1. \A u \in Thread : fn'[u].at # "fileSize"
    BY <1>2, <1>3, <1>4 DEF Locked, InAdd
  <2>2. ASSUME NEW i \in DOMAIN cache', cache'[i].host # NONE
        PROVE  th'[cache'[i].host].at \in Late /\ cache'[i].fileSize = buf'[cache'[i].host].len
    <3>1. CASE i = k
      <4>1. th[t].at = "canAdd"
        BY <1>1 DEF CacheInv, FnInv, Adding, InAdd
      <4> QED BY <1>8, <3>1, <4>1 DEF Late
    <3>2. CASE i # k
      <4>1. PICK h \in Thread : h = cache[i].host /\ cache'[i] = cache[i]
        BY <1>8, <2>2, <3>2 DEF CacheInv, EntryInv, Entry
      <4>2. th[h].at \in Late /\ cache[i].fileSize = buf[h].len
        BY <1>1, <1>5, <1>8, <2>2, <3>2, <4>1 DEF CacheInv, EntryInv, Late
      <4> QED BY <4>1, <4>2
    <3> QED BY <3>1, <3>2
  <2>3. slot_allocated' >= InitialSlots
    BY <1>1 DEF CacheInv, EntryInv
  <2> QED BY <1>8, <2>1, <2>2, <2>3 DEF EntryInv, Late
<1> QED BY <1>9, <1>10, <1>11 DEF CacheInv

(* Sums of what is loaded and what is added.                               *)
LEMMA Sums ==
  /\ \A m, n \in Int : m + n \in Int
  /\ \A m, n \in Nat : m + n \in Nat
  /\ \A n \in Nat : n \in Int
  OBVIOUS

(* An addition to a counter loads it ...                                   *)
LEMMA LoadInv ==
  ASSUME CacheInv, NEW t \in Thread, NEW v \in Int,
         UNCHANGED <<cache, slot_allocated, cache_mutex, th, buf>>,
         fn[t].at \in Adding \cup CanAdding, fn[t].at # "fileSize",
         fn[t].at \in {"cached_size", "evict size"} => v \in Nat,
         fn' = [fn EXCEPT ![t] = [fn[t] EXCEPT !.loaded = v]]
  PROVE  CacheInv'
<1> DEFINE a == [fn[t] EXCEPT !.loaded = v]
<1>1. a \in Activation /\ a.at = fn[t].at /\ a.n = fn[t].n /\ a.loaded = v
  BY DEF CacheInv, FnInv, Activation
<1>2. a.at \in Locked => cache_mutex' = t
  BY <1>1 DEF CacheInv, FnInv
<1>3. fn' = [fn EXCEPT ![t] = a]
  OBVIOUS
<1> HIDE DEF a
<1> QED BY <1>1, <1>2, <1>3, ActivationInv

(* ... and then stores the sum: slot_used may become anything, and         *)
(* cached_size never less than zero.                                       *)
LEMMA AddsToSlots ==
  ASSUME CacheTypes, CacheInv, NEW t \in Thread, NEW d \in Int, NEW next \in Activation,
         NEW label \in {"slot_used", "evict slot"},
         Adds(t, label, "slot_used", d, next), UNCHANGED <<th, buf>>,
         next.at \in {"returned"} \cup Adding \cup CanAdding, next.at # "fileSize",
         next.at # "returned" => next.n = fn[t].n /\ next.loaded = NONE,
         next.at \in Locked => fn[t].at \in Locked
  PROVE  CacheTypes' /\ CacheInv'
<1> USE Apart
<1>1. fn[t].at = label /\ UNCHANGED <<cache, slot_allocated, cache_mutex, status>>
  BY DEF Adds, At
<1>2. /\ fn[t] \in Activation /\ (fn[t].at \in Locked => cache_mutex = t)
      /\ label \in Adding \cup CanAdding
  BY <1>1 DEF CacheInv, FnInv, Adding, CanAdding, InEviction
<1>3. count.slot_used \in Int
  BY DEF CacheTypes
<1>4. CASE fn[t].loaded = NONE
  <2>1. fn' = [fn EXCEPT ![t] = [fn[t] EXCEPT !.loaded = count.slot_used]] /\ count' = count
    BY <1>4 DEF Adds, Becomes
  <2>2. CacheInv'
    BY <1>1, <1>2, <1>3, <2>1, LoadInv
  <2> QED BY <1>1, <2>1, <2>2 DEF CacheTypes
<1>5. CASE fn[t].loaded # NONE
  <2>1. /\ fn' = [fn EXCEPT ![t] = next]
        /\ count' = [count EXCEPT !.slot_used = fn[t].loaded + d]
    BY <1>5 DEF Adds, Becomes
  <2>2. fn[t].loaded \in Int
    BY <1>1, <1>2, <1>5 DEF Activation, CacheInv, FnInv
  <2>3. count' \in [slot_used : Int, cached_size : Nat]
    <3>1. fn[t].loaded + d \in Int
      BY <2>2, Sums
    <3>2. \A m \in Int : [count EXCEPT !.slot_used = m] \in [slot_used : Int, cached_size : Nat]
      BY DEF CacheTypes
    <3> QED BY <2>1, <3>1, <3>2
  <2>4. next.at \in {"cached_size", "evict size"} => next.loaded \in Nat \cup {NONE}
    OBVIOUS
  <2>5. CacheInv'
    BY <1>1, <1>2, <2>1, <2>4, ActivationInv
  <2> QED BY <1>1, <2>3, <2>5 DEF CacheTypes
<1> QED BY <1>4, <1>5

(* What an added entry does to cached_size keeps the sum over the entries  *)
(* that were written.                                                      *)
LEMMA AddsToSize ==
  ASSUME CacheTypes, CacheInv, NEW t \in Thread, NEW d \in Nat, NEW next \in Activation,
         NEW label \in {"cached_size", "evict size"},
         Adds(t, label, "cached_size", d, next), UNCHANGED <<th, buf>>,
         next.at \in {"returned"} \cup Adding \cup CanAdding, next.at # "fileSize",
         next.at # "returned" => next.n = fn[t].n /\ next.loaded = NONE,
         next.at \in Locked => fn[t].at \in Locked
  PROVE  CacheTypes' /\ CacheInv'
<1> USE Apart
<1>1. fn[t].at = label /\ UNCHANGED <<cache, slot_allocated, cache_mutex, status>>
  BY DEF Adds, At
<1>2. /\ fn[t] \in Activation /\ (fn[t].at \in Locked => cache_mutex = t)
      /\ label \in Adding \cup CanAdding
  BY <1>1 DEF CacheInv, FnInv, Adding, CanAdding, InEviction
<1>3. count.cached_size \in Nat /\ count.cached_size \in Int
  BY Sums DEF CacheTypes
<1>4. CASE fn[t].loaded = NONE
  <2>1. fn' = [fn EXCEPT ![t] = [fn[t] EXCEPT !.loaded = count.cached_size]] /\ count' = count
    BY <1>4 DEF Adds, Becomes
  <2>2. CacheInv'
    BY <1>1, <1>2, <1>3, <2>1, LoadInv
  <2> QED BY <1>1, <2>1, <2>2 DEF CacheTypes
<1>5. CASE fn[t].loaded # NONE
  <2>1. /\ fn' = [fn EXCEPT ![t] = next]
        /\ count' = [count EXCEPT !.cached_size = fn[t].loaded + d]
    BY <1>5 DEF Adds, Becomes
  <2>2. fn[t].loaded \in Nat
    BY <1>1, <1>2, <1>5 DEF Activation, CacheInv, FnInv
  <2>3. count' \in [slot_used : Int, cached_size : Nat]
    <3>1. fn[t].loaded + d \in Nat
      BY <2>2, Sums
    <3>2. \A m \in Nat : [count EXCEPT !.cached_size = m] \in [slot_used : Int, cached_size : Nat]
      BY DEF CacheTypes
    <3> QED BY <2>1, <3>1, <3>2
  <2>4. next.at \in {"cached_size", "evict size"} => next.loaded \in Nat \cup {NONE}
    OBVIOUS
  <2>5. CacheInv'
    BY <1>1, <1>2, <2>1, <2>4, ActivationInv
  <2> QED BY <1>1, <2>3, <2>5 DEF CacheTypes
<1> QED BY <1>4, <1>5

(* A step of a cache function after which the process still runs.          *)
LEMMA CacheStepInv ==
  ASSUME CacheTypes, CacheInv, NEW t \in Thread, CacheStep(t), status' = "running",
         UNCHANGED <<th, buf>>
  PROVE  CacheTypes' /\ CacheInv'
<1> USE Apart
<1>1. /\ \A value \in Results : Returned(value) \in Activation
                                /\ Returned(value).at = "returned"
      /\ \A label \in Labels :
           /\ Reaches(t, label) \in Activation
           /\ Reaches(t, label).at = label /\ Reaches(t, label).n = fn[t].n
           /\ Reaches(t, label).loaded = NONE
      /\ fn[t] \in Activation
  BY Activations DEF CacheInv
<1>2. /\ "miss" \in Results /\ "CACHE_FILE_TOO_LARGE" \in Results /\ "CACHE_OK" \in Results
      /\ "added" \in Results /\ "CACHE_EVICTION_NEEDED" \in Results
  BY DEF Results
<1>3. \A label \in Adding \cup CanAdding : label \in Labels
  BY DEF Labels
<1>4. \A how \in {"segfault", "undefined"} : ~Stop(how)
  BY DEF Stop
<1>5. CASE isInCache(t)
  <2>1. fn' = [fn EXCEPT ![t] = Returned("miss")] /\ fn[t].at = "isInCache" /\ UNCHANGED memory
    BY <1>4, <1>5 DEF isInCache, Becomes, At
  <2>2. CacheInv'
    BY <1>1, <1>2, <2>1, ActivationInv DEF memory, Locked, InAdd, InEviction
  <2> QED BY <2>1, <2>2 DEF memory, CacheTypes
<1>6. CASE canAddToCache(t)
  <2>1. /\ fn[t].at = "canAddToCache" /\ UNCHANGED memory
        /\ \/ fn' = [fn EXCEPT ![t] = Returned("CACHE_FILE_TOO_LARGE")]
           \/ \E label \in {"delete_LRU", "slots"} : fn' = [fn EXCEPT ![t] = Reaches(t, label)]
    BY <1>6 DEF canAddToCache, Becomes, At
  <2>2. CASE fn' = [fn EXCEPT ![t] = Returned("CACHE_FILE_TOO_LARGE")]
    BY <1>1, <1>2, <2>1, <2>2, ActivationInv DEF memory, CacheTypes, Locked, InAdd, InEviction
  <2>3. ASSUME NEW label \in {"delete_LRU", "slots"}, fn' = [fn EXCEPT ![t] = Reaches(t, label)]
        PROVE  CacheTypes' /\ CacheInv'
    <3>1. label \in CanAdding /\ fn[t].at \in CanAdding /\ label \notin Locked
          /\ label \notin {"fileSize", "cached_size", "evict size"}
      BY <2>1 DEF CanAdding, Locked, InAdd, InEviction
    <3>2. CacheInv'
      <4>1. Reaches(t, label) \in Activation /\ Reaches(t, label).at = label
            /\ Reaches(t, label).n = fn[t].n
        BY <1>1, <1>3, <3>1
      <4> QED BY <2>1, <2>3, <3>1, <4>1, ActivationInv DEF memory
    <3> QED BY <2>1, <3>2 DEF memory, CacheTypes
  <2> QED BY <2>1, <2>2, <2>3
<1>7. CASE CheckSlots(t)
  <2>1. /\ fn[t].at = "slots" /\ UNCHANGED memory
        /\ \/ fn' = [fn EXCEPT ![t] = Returned("CACHE_OK")]
           \/ fn' = [fn EXCEPT ![t] = Reaches(t, "do_realloc")]
    BY <1>7 DEF CheckSlots, Becomes, At
  <2>2. CASE fn' = [fn EXCEPT ![t] = Returned("CACHE_OK")]
    BY <1>1, <1>2, <2>1, <2>2, ActivationInv DEF memory, CacheTypes, Locked, InAdd, InEviction
  <2>3. CASE fn' = [fn EXCEPT ![t] = Reaches(t, "do_realloc")]
    <3>1. "do_realloc" \in CanAdding /\ fn[t].at \in CanAdding /\ "do_realloc" \notin Locked
      BY <2>1 DEF CanAdding, Locked, InAdd, InEviction
    <3>2. CacheInv'
      <4>1. /\ Reaches(t, "do_realloc") \in Activation
            /\ Reaches(t, "do_realloc").at = "do_realloc" /\ Reaches(t, "do_realloc").n = fn[t].n
            /\ Reaches(t, "do_realloc").loaded = NONE
        BY <1>1, <1>3, <3>1
      <4> QED BY <2>1, <2>3, <3>1, <4>1, ActivationInv DEF memory
    <3> QED BY <2>1, <3>2 DEF memory, CacheTypes
  <2> QED BY <2>1, <2>2, <2>3
<1>8. CASE AddLock(t)
  <2>1. /\ fn[t].at = "add_cache_entry" /\ cache_mutex = NONE /\ cache_mutex' = t
        /\ fn' = [fn EXCEPT ![t] = Reaches(t, "host")]
        /\ UNCHANGED <<cache, count, slot_allocated, status>>
    BY <1>8 DEF AddLock, Locks, Becomes, At
  <2>2. "host" \in Adding /\ fn[t].at \in Adding
    BY <2>1 DEF Adding, InAdd
  <2>3. CacheInv'
    BY <1>1, <1>3, <2>1, <2>2, ActivationInv
  <2> QED BY <2>1, <2>3 DEF CacheTypes
<1>9. CASE AddUnlock(t)
  <2>1. /\ fn[t].at = "unlock" /\ cache_mutex' = NONE
        /\ fn' = [fn EXCEPT ![t] = Reaches(t, "slot_used")]
        /\ UNCHANGED <<cache, count, slot_allocated, status>>
    BY <1>9 DEF AddUnlock, Unlocks, Becomes, At
  <2>2. "slot_used" \in Adding /\ "slot_used" \notin Locked /\ fn[t].at \in Adding
        /\ fn[t].at \in Locked
    BY <2>1 DEF Adding, Locked, InAdd, InEviction
  <2>3. cache_mutex = t
    BY <2>2 DEF CacheInv, FnInv
  <2>4. CacheInv'
    BY <1>1, <1>3, <2>1, <2>2, <2>3, ActivationInv
  <2> QED BY <2>1, <2>4 DEF CacheTypes
<1>10. CASE AddCounts(t)
  <2>1. /\ {"slot_used", "cached_size"} \subseteq Adding
        /\ {"slot_used", "cached_size"} \cap Locked = {}
    BY DEF Adding, Locked, InAdd, InEviction
  <2>2. CASE Adds(t, "slot_used", "slot_used", 1, Reaches(t, "cached_size"))
    <3>1. /\ Reaches(t, "cached_size") \in Activation
          /\ Reaches(t, "cached_size").at = "cached_size" /\ Reaches(t, "cached_size").n = fn[t].n
          /\ Reaches(t, "cached_size").loaded = NONE
      BY <1>1, <1>3, <2>1
    <3>2. fn[t].at = "slot_used" /\ 1 \in Int
      BY <2>2 DEF Adds, At
    <3> QED BY <2>1, <2>2, <3>1, <3>2, AddsToSlots
  <2>3. CASE Adds(t, "cached_size", "cached_size", fn[t].n, Returned("added"))
    <3>1. fn[t].n \in Nat
      BY <1>1 DEF Activation
    <3>2. Returned("added") \in Activation /\ Returned("added").at = "returned"
          /\ "returned" \notin Locked
      BY <1>1, <1>2 DEF Locked, InAdd, InEviction
    <3> QED BY <2>1, <2>3, <3>1, <3>2, AddsToSize
  <2> QED BY <1>10, <2>2, <2>3 DEF AddCounts
<1>11. CASE delete_LRU(t)
  <2>1. /\ {"delete_LRU", "scan", "evict size", "evict slot", "evict unlock"} \subseteq CanAdding
        /\ {"scan", "evict size", "evict slot", "evict unlock"} \subseteq Locked
        /\ "delete_LRU" \notin Locked /\ "returned" \notin Locked
    BY DEF CanAdding, Locked, InAdd, InEviction
  <2>2. fn[t].at \in Locked => cache_mutex = t
    BY DEF CacheInv, FnInv
  <2>3. CASE Locks(t, "delete_LRU", Reaches(t, "scan"))
    <3>1. /\ fn[t].at = "delete_LRU" /\ cache_mutex = NONE /\ cache_mutex' = t
          /\ fn' = [fn EXCEPT ![t] = Reaches(t, "scan")]
          /\ UNCHANGED <<cache, count, slot_allocated, status>>
      BY <2>3 DEF Locks, Becomes, At
    <3>2. CacheInv'
      BY <1>1, <1>3, <2>1, <3>1, ActivationInv
    <3> QED BY <3>1, <3>2 DEF CacheTypes
  <2>4. CASE At(t, "scan") /\ Becomes(t, Reaches(t, "evict size")) /\ UNCHANGED memory
    <3>1. CacheInv'
      BY <1>1, <1>3, <2>1, <2>2, <2>4, ActivationInv DEF At, Becomes, memory
    <3> QED BY <2>4, <3>1 DEF memory, CacheTypes
  <2>5. CASE Adds(t, "evict size", "cached_size", -cache[iru_index].fileSize,
                  Reaches(t, "evict slot"))
    <3>1. -cache[iru_index].fileSize \in Nat
      BY FirstEntry DEF iru_index
    <3>2. /\ Reaches(t, "evict slot") \in Activation
          /\ Reaches(t, "evict slot").at = "evict slot" /\ Reaches(t, "evict slot").n = fn[t].n
          /\ Reaches(t, "evict slot").loaded = NONE
      BY <1>1, <1>3, <2>1
    <3>3. fn[t].at = "evict size"
      BY <2>5 DEF Adds, At
    <3> QED BY <2>1, <2>5, <3>1, <3>2, <3>3, AddsToSize
  <2>6. CASE Adds(t, "evict slot", "slot_used", -1, Reaches(t, "evict unlock"))
    <3>1. /\ Reaches(t, "evict unlock") \in Activation
          /\ Reaches(t, "evict unlock").at = "evict unlock" /\ Reaches(t, "evict unlock").n = fn[t].n
          /\ Reaches(t, "evict unlock").loaded = NONE
      BY <1>1, <1>3, <2>1
    <3>2. fn[t].at = "evict slot"
      BY <2>6 DEF Adds, At
    <3>3. -1 \in Int
      OBVIOUS
    <3> QED BY <2>1, <2>6, <3>1, <3>2, <3>3, AddsToSlots
  <2>7. CASE Unlocks(t, "evict unlock", Returned("CACHE_EVICTION_NEEDED"))
    <3>1. /\ fn[t].at = "evict unlock" /\ cache_mutex' = NONE
          /\ fn' = [fn EXCEPT ![t] = Returned("CACHE_EVICTION_NEEDED")]
          /\ UNCHANGED <<cache, count, slot_allocated, status>>
      BY <2>7 DEF Unlocks, Becomes, At
    <3>2. CacheInv'
      BY <1>1, <1>2, <2>1, <2>2, <3>1, ActivationInv
    <3> QED BY <3>1, <3>2 DEF CacheTypes
  <2> QED BY <1>4, <1>11, <2>3, <2>4, <2>5, <2>6, <2>7 DEF delete_LRU
<1> QED BY <1>5, <1>6, <1>7, <1>8, <1>9, <1>10, <1>11, <1>4, ReallocInv, WriteHostInv, WriteFileSizeInv
        DEF CacheStep

(* A step of a thread within the cache functions keeps the invariant of    *)
(* the whole process, and so does the crash such a step can be.            *)
LEMMA InCacheInv ==
  ASSUME IInv, NEW t \in Thread, InCache(t), UNCHANGED program
  PROVE  IInv'
<1>1. CASE status' # "running"
  BY <1>1, CacheStops, EndsInv DEF InCache, Ends
<1>2. CASE status' = "running"
  <2>1. /\ CacheStep(t) /\ UNCHANGED <<main, box, sock, th, buf, conn, got, program>>
        /\ status = "running"
    BY <1>2, CacheStops DEF InCache, procVars, worldVars
  <2>2. CacheTypes /\ CacheInv
    BY DEF IInv, TypeOK, CacheTypes
  <2>3. CacheTypes' /\ CacheInv'
    BY <1>2, <2>1, <2>2, CacheStepInv
  <2>4. TypeOK'
    BY <1>2, <2>1, <2>3 DEF IInv, TypeOK, CacheTypes, buffer_size
  <2>5. ProcInv'
    BY <2>1 DEF IInv, ProcInv, MainInv, ThreadInv, Holds, BoxInv, SockInv, ConnInv, BufInv
  <2> QED BY <2>1, <2>3, <2>4, <2>5 DEF IInv
<1> QED BY <1>1, <1>2

----------------------------------------------------------------------------
(* The steps of a thread that keep what it holds.                          *)

LEMMA StepMoves ==
  ASSUME ThreadInv, NEW t \in Thread, NEW label \in Steps, Step(t, label)
  PROVE  /\ OnlyMoves(t) /\ th'[t].at = label
         /\ th'[t].vargp = th[t].vargp /\ th'[t].connfd = th[t].connfd
         /\ th'[t].clientfd = th[t].clientfd
<1>1. th \in [Thread -> ThreadRecord] /\ th[t] \in ThreadRecord
  BY DEF ThreadInv
<1> DEFINE r == [th[t] EXCEPT !.at = label]
<1>2. r \in ThreadRecord
  BY <1>1 DEF ThreadRecord
<1>3. th' = [th EXCEPT ![t] = r]
  BY <1>1 DEF Step
<1>4. OnlyMoves(t) /\ th'[t] = r
  BY <1>2, <1>3, Moved
<1> QED BY <1>1, <1>4 DEF ThreadRecord

(* A thread that goes on while the rest of the process waits.              *)
LEMMA GoesOn ==
  ASSUME IInv, NEW t \in Thread, OnlyMoves(t),
         UNCHANGED <<main, box, sock, conn, got, program>>,
         UNCHANGED memory,
         \/ {th[t].at, th'[t].at} \subseteq Served \ Answered
         \/ {th[t].at, th'[t].at} \subseteq {"read", "socket"},
         th'[t].vargp = th[t].vargp, th'[t].connfd = th[t].connfd,
         th'[t].clientfd = th[t].clientfd,
         buf' \in [Thread -> [of : Client \cup {NONE}, len : 0 .. buffer_size, sent : Nat]],
         \A u \in Thread \ {t} : buf'[u] = buf[u],
         th'[t].at \in {"canAdd", "respond"} => Own(buf'[t], t, program),
         CacheInv'
  PROVE  IInv'
<1>1. MainInv /\ ThreadInv /\ BoxInv /\ SockInv /\ ConnInv /\ BufInv
  BY DEF IInv, ProcInv
<1>2. (MainInv /\ ThreadInv /\ BoxInv /\ SockInv)'
  BY <1>1, MoveInv
<1>3. ConnInv'
  <2>1. {th[t].at, th'[t].at} \subseteq Unanswered
    BY DEF Unanswered, Connected, Served, Answered
  <2>2. \A u \in Thread : th'[u].at = th[u].at \/ {th[u].at, th'[u].at} \subseteq Unanswered
    BY <2>1 DEF OnlyMoves
  <2>3. "none" \notin Unanswered /\ Unanswered \cap Answered = {}
    BY DEF Unanswered, Connected, Served, Answered
  <2> QED BY <1>1, <2>2, <2>3 DEF ConnInv, Client
<1>4. BufInv'
  BY <1>1 DEF BufInv, OnlyMoves
<1>5. TypeOK'
  BY DEF IInv, TypeOK, memory, buffer_size
<1> QED BY <1>2, <1>3, <1>4, <1>5 DEF IInv, ProcInv

(* Reading the request keeps the invariant, whatever it finds.             *)
LEMMA ReadRequestInv ==
  ASSUME IInv, NEW t \in Thread, ReadRequest(t), UNCHANGED program
  PROVE  IInv'
<1>1. CASE th' = [th EXCEPT ![t].at = "socket", ![t].left = Addresses]
           /\ UNCHANGED <<cacheVars, status, main, box, sock, buf, worldVars>>
  <2>1. th[t].at = "read"
    BY DEF ReadRequest, Runs
  <2>2. ThreadInv /\ th \in [Thread -> ThreadRecord] /\ th[t] \in ThreadRecord
    BY DEF IInv, ProcInv, ThreadInv
  <2> DEFINE r == [th[t] EXCEPT !.at = "socket", !.left = Addresses]
  <2>3. r \in ThreadRecord
    BY <2>2, AddressesAssumption DEF ThreadRecord, Steps, Connected
  <2>4. th' = [th EXCEPT ![t] = r]
    BY <1>1, <2>2
  <2>5. OnlyMoves(t) /\ th'[t] = r
    BY <2>2, <2>3, <2>4, Moved
  <2>6. /\ th'[t].at = "socket" /\ th'[t].vargp = th[t].vargp
        /\ th'[t].connfd = th[t].connfd /\ th'[t].clientfd = th[t].clientfd
    BY <2>2, <2>5 DEF ThreadRecord
  <2> HIDE DEF r
  <2>7. CacheInv'
    BY <1>1, <2>1, <2>5, CacheFrame DEF IInv, Late
  <2>8. buf \in [Thread -> [of : Client \cup {NONE}, len : 0 .. buffer_size, sent : Nat]]
    BY DEF IInv, TypeOK
  <2>9. /\ UNCHANGED <<main, box, sock, conn, got, program>>
        /\ UNCHANGED memory /\ buf' = buf
    BY <1>1 DEF memory, cacheVars, worldVars
  <2> QED BY <2>1, <2>5, <2>6, <2>7, <2>8, <2>9, GoesOn
<1>2. CASE unix_error
  BY <1>2, EndsInv DEF Ends, unix_error
<1>3. CASE Stop("undefined") /\ ProcessGone /\ UNCHANGED worldVars
  BY <1>3, EndsInv DEF Ends
<1> QED BY <1>1, <1>2, <1>3 DEF ReadRequest

(* Sending the request calls isInCache, with nothing in hand.              *)
LEMMA SendRequestInv ==
  ASSUME IInv, NEW t \in Thread, SendRequest(t), UNCHANGED program
  PROVE  IInv'
<1>1. CASE Step(t, "lookup") /\ Call(t, "isInCache", 0)
           /\ UNCHANGED <<memory, main, box, sock, buf, worldVars>>
  <2>1. th[t].at = "request"
    BY DEF SendRequest, Runs
  <2>2. ThreadInv /\ CacheInv
    BY DEF IInv, ProcInv
  <2>3. "lookup" \in Steps
    BY DEF Steps, Connected, Served
  <2>4. /\ OnlyMoves(t) /\ th'[t].at = "lookup"
        /\ th'[t].vargp = th[t].vargp /\ th'[t].connfd = th[t].connfd
        /\ th'[t].clientfd = th[t].clientfd
    BY <1>1, <2>2, <2>3, StepMoves
  <2> DEFINE a == [Returned("none") EXCEPT !.at = "isInCache", !.n = 0]
  <2>5. a \in Activation /\ a.at = "isInCache"
    BY DEF Returned, Activation, Labels, Results
  <2>6. fn' = [fn EXCEPT ![t] = a]
    BY <1>1 DEF Call, Becomes
  <2> HIDE DEF a
  <2>7. CacheInv'
    <3>1. /\ UNCHANGED <<cache, slot_allocated, cache_mutex>>
          /\ \A u \in Thread \ {t} : buf'[u] = buf[u]
          /\ th[t].at \notin Late /\ th[t].at \notin {"lookup", "canAdd"}
      BY <1>1, <2>1 DEF memory, Late
    <3>2. th'[t].at = "lookup"
      BY <2>4
    <3>3. fn[t].at = "returned"
      BY <2>1, <2>2 DEF CacheInv, FnInv, Activation, Labels, Adding, CanAdding, InAdd, InEviction
    <3>4. OnlyMoves(t) /\ CacheInv
      BY <2>2, <2>4
    <3> QED BY <2>5, <2>6, <3>1, <3>2, <3>3, <3>4, CallInv
  <2>8. buf \in [Thread -> [of : Client \cup {NONE}, len : 0 .. buffer_size, sent : Nat]]
    BY DEF IInv, TypeOK
  <2>9. UNCHANGED <<main, box, sock, conn, got, program>> /\ UNCHANGED memory /\ buf' = buf
    BY <1>1 DEF worldVars
  <2>10. {th[t].at, th'[t].at} \subseteq Served \ Answered
    BY <2>1, <2>4 DEF Served, Answered
  <2> QED BY <2>4, <2>7, <2>8, <2>9, <2>10, GoesOn
<1>2. CASE Killed
  BY <1>2, EndsInv DEF Ends, Killed
<1> QED BY <1>1, <1>2 DEF SendRequest

(* An answer is as long as the buffer at most.                             *)
LEMMA AnswerFits ==
  ASSUME IInv, NEW t \in Thread, th[t].at \in Served, NEW size \in Answers,
         buf' = Filled(t, Read(sock[th[t].clientfd].of, size))
  PROVE  /\ buf' \in [Thread -> [of : Client \cup {NONE}, len : 0 .. buffer_size, sent : Nat]]
         /\ \A u \in Thread \ {t} : buf'[u] = buf[u]
         /\ Own(buf'[t], t, program) /\ buf'[t].len = Rio_readnb(size) /\ Rio_readnb(size) \in Nat
<1>1. Rio_readnb(size) \in 0 .. buffer_size /\ Rio_readnb(size) \in Nat
  <2>1. size \in Nat /\ buffer_size \in Nat
    BY BufferSize, AnswersAssumption DEF IInv
  <2> QED BY <2>1 DEF Rio_readnb
<1>2. sock[th[t].clientfd].of = t
  <2>1. sock[th[t].clientfd] = ServerEnd(t)
    BY Holding DEF IInv, ProcInv
  <2> QED BY <2>1 DEF ServerEnd
<1>3. buf' = [buf EXCEPT ![t] = Read(t, size)]
  BY <1>2 DEF Filled
<1>4. buf \in [Thread -> [of : Client \cup {NONE}, len : 0 .. buffer_size, sent : Nat]]
  BY DEF IInv, TypeOK
<1>5. Read(t, size) \in [of : Client \cup {NONE}, len : 0 .. buffer_size, sent : Nat]
  BY <1>1, AnswersAssumption DEF Client, Read
<1>6. /\ buf' \in [Thread -> [of : Client \cup {NONE}, len : 0 .. buffer_size, sent : Nat]]
      /\ \A u \in Thread \ {t} : buf'[u] = buf[u]
  BY <1>3, <1>4, <1>5
<1>7. buf'[t] = Read(t, size)
  BY <1>3, <1>4
<1>8. Own(Read(t, size), t, program)
  BY DEF Own, Read, Rio_readnb, buffer_size
<1> QED BY <1>1, <1>6, <1>7, <1>8 DEF Read

(* Reading the answer keeps it: what was read fits the buffer it is read   *)
(* into.                                                                   *)
LEMMA ReadAnswerInv ==
  ASSUME IInv, NEW t \in Thread, ReadAnswer(t), UNCHANGED program
  PROVE  IInv'
<1>1. ASSUME NEW size \in Answers,
             buf' = Filled(t, Read(sock[th[t].clientfd].of, size)),
             Step(t, "canAdd"), Call(t, "canAddToCache", Rio_readnb(size)),
             UNCHANGED <<memory, main, box, sock, worldVars>>
      PROVE  IInv'
  <2>1. th[t].at = "lookup" /\ fn[t].at = "returned"
    BY DEF ReadAnswer, Runs, At
  <2>2. ThreadInv /\ CacheInv
    BY DEF IInv, ProcInv
  <2>3. "canAdd" \in Steps
    BY DEF Steps, Connected, Served
  <2>4. /\ OnlyMoves(t) /\ th'[t].at = "canAdd"
        /\ th'[t].vargp = th[t].vargp /\ th'[t].connfd = th[t].connfd
        /\ th'[t].clientfd = th[t].clientfd
    BY <1>1, <2>2, <2>3, StepMoves
  <2>5. th[t].at \in Served /\ {th[t].at, th'[t].at} \subseteq Served \ Answered
    BY <2>1, <2>4 DEF Served, Answered
  <2>6. /\ buf' \in [Thread -> [of : Client \cup {NONE}, len : 0 .. buffer_size, sent : Nat]]
        /\ \A u \in Thread \ {t} : buf'[u] = buf[u]
        /\ Own(buf'[t], t, program) /\ buf'[t].len = Rio_readnb(size) /\ Rio_readnb(size) \in Nat
    BY <1>1, <2>5, AnswerFits
  <2> DEFINE a == [Returned("none") EXCEPT !.at = "canAddToCache", !.n = Rio_readnb(size)]
  <2>7. a \in Activation /\ a.at = "canAddToCache" /\ a.n = Rio_readnb(size)
    BY <2>6 DEF Returned, Activation, Labels, Results, CanAdding
  <2>8. fn' = [fn EXCEPT ![t] = a]
    BY <1>1 DEF Call, Becomes
  <2> HIDE DEF a
  <2>9. CacheInv'
    <3>1. UNCHANGED <<cache, slot_allocated, cache_mutex>> /\ th[t].at \notin Late
      BY <1>1, <2>1 DEF memory, Late
    <3>2. a.n = buf'[t].len
      BY <2>6, <2>7
    <3> QED BY <2>1, <2>2, <2>4, <2>6, <2>7, <2>8, <3>1, <3>2, CallInv
  <2>10. UNCHANGED <<main, box, sock, conn, got, program>> /\ UNCHANGED memory
    BY <1>1 DEF worldVars
  <2> QED BY <2>4, <2>5, <2>6, <2>9, <2>10, GoesOn
<1>2. CASE unix_error
  BY <1>2, EndsInv DEF Ends, unix_error
<1> QED BY <1>1, <1>2 DEF ReadAnswer

(* The same for the proxy without a cache, which sends the request         *)
LEMMA PlainRequestInv ==
  ASSUME IInv, NEW t \in Thread, PlainRequest(t), UNCHANGED program
  PROVE  IInv'
<1>1. CASE Step(t, "answer") /\ UNCHANGED <<cacheVars, status, main, box, sock, buf, worldVars>>
  <2>1. th[t].at = "request"
    BY DEF PlainRequest, Runs
  <2>2. ThreadInv /\ CacheInv
    BY DEF IInv, ProcInv
  <2>3. "answer" \in Steps
    BY DEF Steps, Connected, Served
  <2>4. /\ OnlyMoves(t) /\ th'[t].at = "answer"
        /\ th'[t].vargp = th[t].vargp /\ th'[t].connfd = th[t].connfd
        /\ th'[t].clientfd = th[t].clientfd
    BY <1>1, <2>2, <2>3, StepMoves
  <2>5. CacheInv'
    BY <1>1, <2>1, <2>2, <2>4, CacheFrame DEF Late
  <2>6. buf \in [Thread -> [of : Client \cup {NONE}, len : 0 .. buffer_size, sent : Nat]]
    BY DEF IInv, TypeOK
  <2>7. UNCHANGED <<main, box, sock, conn, got, program>> /\ UNCHANGED memory /\ buf' = buf
    BY <1>1 DEF worldVars, memory, cacheVars
  <2>8. {th[t].at, th'[t].at} \subseteq Served \ Answered
    BY <2>1, <2>4 DEF Served, Answered
  <2> QED BY <2>4, <2>5, <2>6, <2>7, <2>8, GoesOn
<1>2. CASE Killed
  BY <1>2, EndsInv DEF Ends, Killed
<1> QED BY <1>1, <1>2 DEF PlainRequest

(* and passes on the answer through one buffer.                            *)
LEMMA PlainAnswerInv ==
  ASSUME IInv, NEW t \in Thread, PlainAnswer(t), UNCHANGED program
  PROVE  IInv'
<1>1. ASSUME NEW size \in Answers,
             buf' = Filled(t, Read(sock[th[t].clientfd].of, size)),
             Step(t, "respond"),
             UNCHANGED <<cacheVars, status, main, box, sock, worldVars>>
      PROVE  IInv'
  <2>1. th[t].at = "answer"
    BY DEF PlainAnswer, Runs
  <2>2. ThreadInv /\ CacheInv
    BY DEF IInv, ProcInv
  <2>3. "respond" \in Steps
    BY DEF Steps, Connected, Served
  <2>4. /\ OnlyMoves(t) /\ th'[t].at = "respond"
        /\ th'[t].vargp = th[t].vargp /\ th'[t].connfd = th[t].connfd
        /\ th'[t].clientfd = th[t].clientfd
    BY <1>1, <2>2, <2>3, StepMoves
  <2>5. th[t].at \in Served /\ {th[t].at, th'[t].at} \subseteq Served \ Answered
    BY <2>1, <2>4 DEF Served, Answered
  <2>6. /\ buf' \in [Thread -> [of : Client \cup {NONE}, len : 0 .. buffer_size, sent : Nat]]
        /\ \A u \in Thread \ {t} : buf'[u] = buf[u]
        /\ Own(buf'[t], t, program)
    BY <1>1, <2>5, AnswerFits
  <2>7. CacheInv'
    BY <1>1, <2>1, <2>2, <2>4, <2>6, FillInv DEF Late
  <2>8. UNCHANGED <<main, box, sock, conn, got, program>> /\ UNCHANGED memory
    BY <1>1 DEF worldVars, memory, cacheVars
  <2> QED BY <2>4, <2>5, <2>6, <2>7, <2>8, GoesOn
<1>2. CASE unix_error
  BY <1>2, EndsInv DEF Ends, unix_error
<1> QED BY <1>1, <1>2 DEF PlainAnswer

(* do_response hands its buffer to add_cache_entry, or goes on.            *)
LEMMA SwitchOnCanAddInv ==
  ASSUME IInv, NEW t \in Thread, SwitchOnCanAdd(t), UNCHANGED program
  PROVE  IInv'
<1>1. /\ th[t].at = "canAdd" /\ fn[t].at = "returned"
      /\ UNCHANGED <<memory, main, box, sock, buf, worldVars, program>>
  BY DEF SwitchOnCanAdd, Runs, At
<1>2. ThreadInv /\ CacheInv /\ BufInv
  BY DEF IInv, ProcInv
<1>3. buf \in [Thread -> [of : Client \cup {NONE}, len : 0 .. buffer_size, sent : Nat]]
  BY DEF IInv, TypeOK
<1>4. /\ UNCHANGED <<main, box, sock, conn, got, program>> /\ UNCHANGED memory /\ buf' = buf
      /\ UNCHANGED <<cache, slot_allocated, cache_mutex>>
  BY <1>1 DEF worldVars, memory
<1>5. CASE Call(t, "add_cache_entry", buf[t].len) /\ th' = th
  <2> DEFINE a == [Returned("none") EXCEPT !.at = "add_cache_entry", !.n = buf[t].len]
  <2>1. buf[t].len \in Nat
    <3>1. buf[t].len \in 0 .. buffer_size /\ buffer_size \in Nat
      BY <1>3, BufferSize DEF IInv
    <3> QED BY <3>1
  <2>2. a \in Activation /\ a.at = "add_cache_entry" /\ a.n = buf[t].len
    BY <2>1 DEF Returned, Activation, Labels, Results, Adding
  <2>3. fn' = [fn EXCEPT ![t] = a]
    BY <1>5 DEF Call, Becomes
  <2> HIDE DEF a
  <2>4. OnlyMoves(t)
    BY <1>2, <1>5 DEF ThreadInv, OnlyMoves
  <2>5. CacheInv'
    BY <1>1, <1>2, <1>4, <1>5, <2>2, <2>3, <2>4, CallInv DEF Late
  <2>6. {th[t].at, th'[t].at} \subseteq Served \ Answered
    BY <1>1, <1>5 DEF Served, Answered
  <2>7. Own(buf'[t], t, program)
    BY <1>1, <1>2, <1>4 DEF BufInv
  <2> QED BY <1>3, <1>4, <1>5, <2>4, <2>5, <2>6, <2>7, GoesOn
<1>6. CASE Step(t, "respond") /\ fn' = fn
  <2>1. "respond" \in Steps
    BY DEF Steps, Connected, Served
  <2>2. /\ OnlyMoves(t) /\ th'[t].at = "respond"
        /\ th'[t].vargp = th[t].vargp /\ th'[t].connfd = th[t].connfd
        /\ th'[t].clientfd = th[t].clientfd
    BY <1>2, <1>6, <2>1, StepMoves
  <2>3. CacheInv'
    BY <1>1, <1>2, <1>6, <2>2, CacheFrame DEF Late, memory, cacheVars
  <2>4. {th[t].at, th'[t].at} \subseteq Served \ Answered
    BY <1>1, <2>2 DEF Served, Answered
  <2>5. Own(buf'[t], t, program)
    BY <1>1, <1>2, <1>4 DEF BufInv
  <2> QED BY <1>3, <1>4, <2>2, <2>3, <2>4, <2>5, GoesOn
<1> QED BY <1>5, <1>6 DEF SwitchOnCanAdd

----------------------------------------------------------------------------
(* The steps of a thread that open and close descriptors.                  *)

(* A descriptor that is closed, or that thread t alone has, does not       *)
(* matter to main and the other threads.                                   *)
LEMMA OthersHold ==
  ASSUME MainInv, ThreadInv, sock \in [Fd -> Endpoint \cup {CLOSED}], NEW t \in Thread,
         OnlyMoves(t), UNCHANGED <<main, box>>, NEW fd \in Fd, NEW v \in Endpoint \cup {CLOSED},
         sock' = [sock EXCEPT ![fd] = v], main \in Held,
         sock[fd] \in {CLOSED, ServerEnd(t)} \/ (sock[fd] = ClientEnd(t) /\ main.of # t)
  PROVE  MainInv' /\ \A u \in Thread \ {t} : Holds(u)'
<1> USE Apart, EndsApart DEF Client
<1>1. \A f \in Fd \ {fd} : sock'[f] = sock[f]
  OBVIOUS
<1>2. \A u \in Thread \ {t} : sock[fd] # ClientEnd(u) /\ sock[fd] # ServerEnd(u)
  BY DEF CLOSED
<1>3. main.of \in Thread => sock[fd] # ClientEnd(main.of)
  BY <1>2 DEF CLOSED
<1>4. MainInv'
  <2>1. main.at = "create" => main.of \in Thread
    BY DEF MainInv, Held
  <2> QED BY <1>1, <1>3, <2>1 DEF MainInv
<1>5. ASSUME NEW u \in Thread \ {t} PROVE Holds(u)'
  <2>1. Holds(u) /\ th'[u] = th[u]
    BY DEF ThreadInv, OnlyMoves
  <2>2. /\ th[u].at = "start" => box[th[u].vargp] \in Fd \ {fd}
        /\ th[u].at \in Connected => th[u].connfd \in Fd \ {fd}
        /\ th[u].at \in Served => th[u].clientfd \in Fd \ {fd}
    BY <1>2, <2>1, Holding DEF Holds
  <2> QED BY <1>1, <2>1, <2>2 DEF Holds
<1> QED BY <1>4, <1>5

(* A thread without a server opens a socket for it.                        *)
LEMMA Opened ==
  ASSUME IInv, NEW t \in Thread, OnlyMoves(t), UNCHANGED <<main, box>>,
         NEW fd \in Fd, sock[fd] = CLOSED, sock' = [sock EXCEPT ![fd] = ServerEnd(t)],
         th[t].at = "socket", th'[t].at = "connect", th'[t].clientfd = fd,
         th'[t].vargp = th[t].vargp, th'[t].connfd = th[t].connfd
  PROVE  (MainInv /\ ThreadInv /\ BoxInv /\ SockInv)'
<1> USE Apart, EndsApart DEF Client
<1>1. MainInv /\ ThreadInv /\ BoxInv /\ SockInv
  BY DEF IInv, ProcInv
<1>2. /\ sock \in [Fd -> Endpoint \cup {CLOSED}] /\ main \in Held
      /\ ServerEnd(t) \in Endpoint \cup {CLOSED}
  BY DEF IInv, TypeOK, ServerEnd, Endpoint
<1>3. MainInv' /\ \A u \in Thread \ {t} : Holds(u)'
  BY <1>1, <1>2, OthersHold
<1>4. sock'[fd] = ServerEnd(t) /\ \A f \in Fd \ {fd} : sock'[f] = sock[f]
  BY <1>2
<1>5. Holds(t)'
  <2>1. Holds(t) /\ th[t].connfd \in Fd \ {fd} /\ sock[th[t].connfd] = ClientEnd(t)
    BY <1>1, Holding DEF ThreadInv, Connected, CLOSED
  <2> QED BY <1>4, <2>1 DEF Holds, Boxed, Connected, Served
<1>6. ThreadInv'
  BY <1>3, <1>5 DEF ThreadInv, OnlyMoves
<1>7. BoxInv'
  <2>1. \A u \in Thread : th'[u].vargp = th[u].vargp
    BY DEF OnlyMoves
  <2> QED BY <1>1, <2>1, SameBoxes
<1>8. SockInv'
  <2> SUFFICES ASSUME NEW f \in Fd, NEW c \in Client
               PROVE  /\ sock'[f] = ClientEnd(c) =>
                           \/ th'[c].connfd = f
                           \/ th'[c].at = "start" /\ box[th'[c].vargp] = f
                           \/ main.of = c /\ box[main.connfdp] = f
                      /\ sock'[f] = ServerEnd(c) => th'[c].clientfd = f
    BY DEF SockInv
  <2>1. CASE f = fd
    BY <1>4, <2>1
  <2>2. CASE f # fd
    <3>1. sock'[f] = sock[f]
      BY <1>4, <2>2
    <3>2. CASE c # t
      BY <1>1, <3>1, <3>2 DEF SockInv, OnlyMoves
    <3>3. CASE c = t
      <4>1. th[t].clientfd = NONE
        BY <1>1 DEF ThreadInv, Holds, Served
      <4>2. sock[f] # ServerEnd(t)
        BY <1>1, <4>1 DEF SockInv
      <4>3. sock[f] = ClientEnd(t) => th[t].connfd = f \/ (main.of = t /\ box[main.connfdp] = f)
        BY <1>1 DEF SockInv
      <4> QED BY <3>1, <3>3, <4>2, <4>3
    <3> QED BY <3>2, <3>3
  <2> QED BY <2>1, <2>2
<1> QED BY <1>3, <1>6, <1>7, <1>8

(* A thread closes the socket of its server.                               *)
LEMMA Closed ==
  ASSUME IInv, NEW t \in Thread, OnlyMoves(t), UNCHANGED <<main, box>>,
         sock' = [sock EXCEPT ![th[t].clientfd] = CLOSED],
         th[t].at \in Served, th'[t].at \in {"socket", "close client"}, th'[t].clientfd = NONE,
         th'[t].vargp = th[t].vargp, th'[t].connfd = th[t].connfd
  PROVE  (MainInv /\ ThreadInv /\ BoxInv /\ SockInv)'
<1> USE Apart, EndsApart DEF Client
<1>1. MainInv /\ ThreadInv /\ BoxInv /\ SockInv
  BY DEF IInv, ProcInv
<1>2. /\ sock \in [Fd -> Endpoint \cup {CLOSED}] /\ main \in Held
      /\ CLOSED \in Endpoint \cup {CLOSED}
  BY DEF IInv, TypeOK
<1>3. PICK fd \in Fd : fd = th[t].clientfd /\ sock[fd] = ServerEnd(t)
  BY <1>1, Holding
<1>4. MainInv' /\ \A u \in Thread \ {t} : Holds(u)'
  BY <1>1, <1>2, <1>3, OthersHold
<1>5. sock'[fd] = CLOSED /\ \A f \in Fd \ {fd} : sock'[f] = sock[f]
  BY <1>2, <1>3
<1>6. th[t].at \in Connected /\ th[t].at \notin Boxed
  BY DEF Connected, Served, Boxed
<1>7. Holds(t)'
  <2>1. Holds(t) /\ th[t].connfd \in Fd \ {fd} /\ sock[th[t].connfd] = ClientEnd(t)
    BY <1>1, <1>3, <1>6, Holding DEF ThreadInv
  <2> QED BY <1>5, <1>6, <2>1 DEF Holds, Boxed, Connected, Served
<1>8. ThreadInv'
  BY <1>4, <1>7 DEF ThreadInv, OnlyMoves
<1>9. BoxInv'
  <2>1. \A u \in Thread : th'[u].vargp = th[u].vargp
    BY DEF OnlyMoves
  <2> QED BY <1>1, <2>1, SameBoxes
<1>10. SockInv'
  <2> SUFFICES ASSUME NEW f \in Fd, NEW c \in Client
               PROVE  /\ sock'[f] = ClientEnd(c) =>
                           \/ th'[c].connfd = f
                           \/ th'[c].at = "start" /\ box[th'[c].vargp] = f
                           \/ main.of = c /\ box[main.connfdp] = f
                      /\ sock'[f] = ServerEnd(c) => th'[c].clientfd = f
    BY DEF SockInv
  <2>1. CASE f = fd
    BY <1>5, <2>1 DEF CLOSED
  <2>2. CASE f # fd
    <3>1. sock'[f] = sock[f]
      BY <1>5, <2>2
    <3>2. CASE c # t
      <4>1. th'[c] = th[c]
        BY <3>2 DEF OnlyMoves
      <4>2. /\ sock[f] = ClientEnd(c) =>
                  \/ th[c].connfd = f
                  \/ th[c].at = "start" /\ box[th[c].vargp] = f
                  \/ main.of = c /\ box[main.connfdp] = f
            /\ sock[f] = ServerEnd(c) => th[c].clientfd = f
        BY <1>1 DEF SockInv
      <4> QED BY <3>1, <4>1, <4>2
    <3>3. CASE c = t
      <4>1. sock[f] # ServerEnd(t)
        BY <1>1, <1>3, <2>2 DEF SockInv
      <4>2. sock[f] = ClientEnd(t) => th[t].connfd = f \/ (main.of = t /\ box[main.connfdp] = f)
        BY <1>1, <1>6 DEF SockInv, Boxed
      <4> QED BY <3>1, <3>3, <4>1, <4>2
    <3> QED BY <3>2, <3>3
  <2> QED BY <2>1, <2>2
<1> QED BY <1>4, <1>8, <1>9, <1>10

(* A socket that is opened belongs to the thread that opened it.           *)
LEMMA OpenSocketInv ==
  ASSUME IInv, NEW t \in Thread, OpenSocket(t), UNCHANGED program
  PROVE  IInv'
<1>1. th[t].at = "socket" /\ ThreadInv /\ CacheInv
  BY DEF OpenSocket, Runs, IInv, ProcInv
<1>2. th[t] \in ThreadRecord /\ th[t].clientfd = NONE /\ th \in [Thread -> ThreadRecord]
  BY <1>1 DEF ThreadInv, Holds, Served
<1>3. CASE /\ ClosedFds # {}
           /\ sock' = [sock EXCEPT ![LowestFd] =
                         [end |-> "server", of |-> sock[th[t].connfd].of]]
           /\ th' = [th EXCEPT ![t].at = "connect", ![t].clientfd = LowestFd]
           /\ UNCHANGED <<cacheVars, status, main, box, buf, worldVars>>
  <2>1. PICK fd \in Fd : fd = LowestFd /\ sock[fd] = CLOSED
    BY <1>3, LowestFdClosed
  <2>2. sock' = [sock EXCEPT ![fd] = ServerEnd(t)]
    <3>1. sock[th[t].connfd] = ClientEnd(t)
      BY <1>1, Holding DEF Connected
    <3> QED BY <1>3, <2>1, <3>1 DEF ClientEnd, ServerEnd
  <2> DEFINE r == [th[t] EXCEPT !.at = "connect", !.clientfd = fd]
  <2>3. r \in ThreadRecord
    BY <1>2, <2>1 DEF ThreadRecord, Steps, Connected, Served
  <2>4. th' = [th EXCEPT ![t] = r]
    BY <1>2, <1>3, <2>1
  <2>5. OnlyMoves(t) /\ th'[t] = r
    BY <1>1, <2>3, <2>4, Moved
  <2>6. /\ th'[t].at = "connect" /\ th'[t].clientfd = fd
        /\ th'[t].vargp = th[t].vargp /\ th'[t].connfd = th[t].connfd
    BY <1>2, <2>5 DEF ThreadRecord
  <2> HIDE DEF r
  <2>7. UNCHANGED <<cacheVars, status, main, box, buf, conn, got, program>>
    BY <1>3 DEF worldVars
  <2>8. (MainInv /\ ThreadInv /\ BoxInv /\ SockInv)'
    BY <1>1, <2>1, <2>2, <2>5, <2>6, <2>7, Opened
  <2>9. TypeOK'
    BY <2>2, <2>7 DEF IInv, TypeOK, cacheVars, buffer_size, ServerEnd, Endpoint, Client
  <2>10. ConnInv' /\ BufInv'
    <3>1. /\ {th[t].at, th'[t].at} \subseteq Unanswered
          /\ "none" \notin Unanswered /\ Unanswered \cap Answered = {}
      BY <1>1, <2>6 DEF Unanswered, Connected, Served, Answered
    <3>2. \A u \in Thread : th'[u].at = th[u].at \/ {th[u].at, th'[u].at} \subseteq Unanswered
      BY <2>5, <3>1 DEF OnlyMoves
    <3>3. ConnInv'
      BY <2>7, <3>1, <3>2 DEF IInv, ProcInv, ConnInv, Client
    <3>4. BufInv'
      BY <2>5, <2>6, <2>7 DEF IInv, ProcInv, BufInv, OnlyMoves
    <3> QED BY <3>3, <3>4
  <2>11. CacheInv'
    BY <1>1, <2>5, <2>7, CacheFrame DEF Late
  <2> QED BY <2>7, <2>8, <2>9, <2>10, <2>11 DEF IInv, ProcInv
<1>4. CASE NextAddress(t) /\ UNCHANGED <<cacheVars, status, main, box, sock, buf, worldVars>>
  <2> DEFINE r == [th[t] EXCEPT !.at = "socket", !.left = th[t].left - 1, !.clientfd = NONE]
  <2>1. r \in ThreadRecord
    <3>1. th[t].left \in Nat /\ th[t].left > 1
      BY <1>2, <1>4 DEF ThreadRecord, NextAddress
    <3>2. th[t].left - 1 \in Nat
      BY <3>1
    <3> QED BY <1>2, <3>2 DEF ThreadRecord, Steps, Connected
  <2>2. th' = [th EXCEPT ![t] = r]
    BY <1>2, <1>4 DEF NextAddress
  <2>3. OnlyMoves(t) /\ th'[t] = r
    BY <1>1, <2>1, <2>2, Moved
  <2>4. /\ th'[t].at = "socket" /\ th'[t].vargp = th[t].vargp
        /\ th'[t].connfd = th[t].connfd /\ th'[t].clientfd = th[t].clientfd
    BY <1>2, <2>3 DEF ThreadRecord
  <2> HIDE DEF r
  <2>5. CacheInv'
    BY <1>1, <1>4, <2>3, CacheFrame DEF Late
  <2>6. buf \in [Thread -> [of : Client \cup {NONE}, len : 0 .. buffer_size, sent : Nat]]
    BY DEF IInv, TypeOK
  <2>7. /\ UNCHANGED <<main, box, sock, conn, got, program>>
        /\ UNCHANGED memory /\ buf' = buf
    BY <1>4 DEF memory, cacheVars, worldVars
  <2> QED BY <1>1, <2>3, <2>4, <2>5, <2>6, <2>7, GoesOn
<1>5. CASE unix_error
  BY <1>5, EndsInv DEF Ends, unix_error
<1> QED BY <1>3, <1>4, <1>5 DEF OpenSocket

(* Connecting it leaves it with the thread; a failure ends the process or  *)
(* goes on without a server.                                               *)
LEMMA ConnectInv ==
  ASSUME IInv, NEW t \in Thread, Connect(t), UNCHANGED program
  PROVE  IInv'
<1>1. th[t].at = "connect" /\ ThreadInv /\ CacheInv
  BY DEF Connect, Runs, IInv, ProcInv
<1>2. th[t] \in ThreadRecord /\ th \in [Thread -> ThreadRecord]
  BY <1>1 DEF ThreadInv
<1>3. CASE /\ th' = [th EXCEPT ![t].at = "request", ![t].left = 0]
           /\ UNCHANGED <<cacheVars, status, main, box, sock, buf, worldVars>>
  <2> DEFINE r == [th[t] EXCEPT !.at = "request", !.left = 0]
  <2>1. r \in ThreadRecord
    BY <1>2 DEF ThreadRecord, Steps, Connected, Served
  <2>2. th' = [th EXCEPT ![t] = r]
    BY <1>2, <1>3
  <2>3. OnlyMoves(t) /\ th'[t] = r
    BY <1>1, <2>1, <2>2, Moved
  <2>4. /\ th'[t].at = "request" /\ th'[t].vargp = th[t].vargp
        /\ th'[t].connfd = th[t].connfd /\ th'[t].clientfd = th[t].clientfd
    BY <1>2, <2>3 DEF ThreadRecord
  <2> HIDE DEF r
  <2>5. CacheInv'
    BY <1>1, <1>3, <2>3, CacheFrame DEF Late
  <2>6. buf \in [Thread -> [of : Client \cup {NONE}, len : 0 .. buffer_size, sent : Nat]]
    BY DEF IInv, TypeOK
  <2>7. /\ UNCHANGED <<main, box, sock, conn, got, program>>
        /\ UNCHANGED memory /\ buf' = buf
    BY <1>3 DEF memory, cacheVars, worldVars
  <2>8. {th[t].at, th'[t].at} \subseteq Served \ Answered
    BY <1>1, <2>4 DEF Served, Answered
  <2> QED BY <2>3, <2>4, <2>5, <2>6, <2>7, <2>8, GoesOn
<1>4. CASE /\ NextAddress(t)
           /\ sock' = [sock EXCEPT ![th[t].clientfd] = CLOSED]
           /\ UNCHANGED <<cacheVars, status, main, box, buf, worldVars>>
  <2> DEFINE r == [th[t] EXCEPT !.at = "socket", !.left = th[t].left - 1, !.clientfd = NONE]
  <2>1. r \in ThreadRecord
    <3>1. th[t].left \in Nat /\ th[t].left > 1
      BY <1>2, <1>4 DEF ThreadRecord, NextAddress
    <3>2. th[t].left - 1 \in Nat
      BY <3>1
    <3> QED BY <1>2, <3>2 DEF ThreadRecord, Steps, Connected
  <2>2. th' = [th EXCEPT ![t] = r]
    BY <1>2, <1>4 DEF NextAddress
  <2>3. OnlyMoves(t) /\ th'[t] = r
    BY <1>1, <2>1, <2>2, Moved
  <2>4. /\ th'[t].at = "socket" /\ th'[t].clientfd = NONE
        /\ th'[t].vargp = th[t].vargp /\ th'[t].connfd = th[t].connfd
    BY <1>2, <2>3 DEF ThreadRecord
  <2> HIDE DEF r
  <2>5. UNCHANGED <<cacheVars, status, main, box, buf, conn, got, program>>
    BY <1>4 DEF worldVars
  <2>6. th[t].at \in Served
    BY <1>1 DEF Served
  <2>7. (MainInv /\ ThreadInv /\ BoxInv /\ SockInv)'
    BY <1>4, <2>3, <2>4, <2>5, <2>6, Closed
  <2>8. TypeOK'
    BY <1>4, <2>5 DEF IInv, TypeOK, cacheVars, buffer_size
  <2>9. ConnInv' /\ BufInv'
    <3>1. /\ {th[t].at, th'[t].at} \subseteq Unanswered
          /\ "none" \notin Unanswered /\ Unanswered \cap Answered = {}
      BY <1>1, <2>4 DEF Unanswered, Connected, Served, Answered
    <3>2. \A u \in Thread : th'[u].at = th[u].at \/ {th[u].at, th'[u].at} \subseteq Unanswered
      BY <2>3, <3>1 DEF OnlyMoves
    <3>3. ConnInv'
      BY <2>5, <3>1, <3>2 DEF IInv, ProcInv, ConnInv, Client
    <3>4. BufInv'
      BY <2>3, <2>4, <2>5 DEF IInv, ProcInv, BufInv, OnlyMoves
    <3> QED BY <3>3, <3>4
  <2>10. CacheInv'
    BY <1>1, <2>3, <2>5, CacheFrame DEF Late
  <2> QED BY <2>5, <2>7, <2>8, <2>9, <2>10 DEF IInv, ProcInv
<1>5. CASE unix_error
  BY <1>5, EndsInv DEF Ends, unix_error
<1> QED BY <1>3, <1>4, <1>5 DEF Connect

(* The client gets what is in the buffer of its thread.                    *)
LEMMA RespondInv ==
  ASSUME IInv, NEW t \in Thread, Respond(t), UNCHANGED program
  PROVE  IInv'
<1> USE DEF Client
<1>1. th[t].at = "respond" /\ ThreadInv /\ CacheInv
  BY DEF Respond, Runs, IInv, ProcInv
<1>2. sock[th[t].connfd].of = t
  <2>1. sock[th[t].connfd] = ClientEnd(t)
    BY <1>1, Holding DEF Connected, Served
  <2> QED BY <2>1 DEF ClientEnd
<1>3. CASE Killed
  BY <1>3, EndsInv DEF Ends, Killed
<1>4. CASE ~Killed
  <2>1. /\ got' = [got EXCEPT ![t] = buf[t]] /\ Step(t, "close server")
        /\ UNCHANGED <<cacheVars, status, main, box, sock, buf, conn, gone, program>>
    BY <1>2, <1>4 DEF Respond
  <2>2. "close server" \in Steps
    BY DEF Steps, Connected, Served
  <2>3. /\ OnlyMoves(t) /\ th'[t].at = "close server"
        /\ th'[t].vargp = th[t].vargp /\ th'[t].connfd = th[t].connfd
        /\ th'[t].clientfd = th[t].clientfd
    BY <1>1, <2>1, <2>2, StepMoves
  <2>4. buf[t] \in [of : Client, len : Nat, sent : Nat] /\ buf[t] # NONE
    <3>1. buf[t] \in [of : Client \cup {NONE}, len : 0 .. buffer_size, sent : Nat] /\ buf[t].of = t
      BY <1>1 DEF IInv, TypeOK, ProcInv, BufInv, Own
    <3>2. 0 .. buffer_size \subseteq Nat
      BY BufferSize DEF IInv
    <3> QED BY <3>1, <3>2, NullAssumption
  <2>5. (MainInv /\ ThreadInv /\ BoxInv /\ SockInv)'
    <3>1. {th[t].at, th'[t].at} \subseteq Served
      BY <1>1, <2>3 DEF Served
    <3> QED BY <2>1, <2>3, <3>1, MoveInv DEF IInv, ProcInv
  <2>6. TypeOK'
    BY <2>1 DEF IInv, TypeOK, cacheVars, buffer_size
  <2>7. ConnInv'
    <3>1. /\ conn[t] = "open" /\ main.of # t
          /\ got \in [Client -> {NONE} \cup [of : Client, len : Nat, sent : Nat]]
      BY <1>1 DEF IInv, ProcInv, ConnInv, Unanswered, Connected, Served, Answered
    <3>2. got'[t] # NONE /\ \A c \in Client \ {t} : got'[c] = got[c]
      BY <2>1, <2>4, <3>1
    <3>3. got' \in [Client -> {NONE} \cup [of : Client, len : Nat, sent : Nat]]
      BY <2>1, <2>4, <3>1
    <3>4. "close server" \notin Unanswered /\ "close server" \in Answered
      BY DEF Unanswered, Answered
    <3>5. ASSUME NEW c \in Client
          PROVE  /\ conn[c] \in {"idle", "queued"} =>
                      th'[c].at = "none" /\ main.of # c /\ got'[c] = NONE
                 /\ main.of = c => th'[c].at = "none" /\ conn[c] = "open" /\ got'[c] = NONE
                 /\ th'[c].at \in Unanswered => conn[c] = "open" /\ got'[c] = NONE
                 /\ th'[c].at \in Answered => conn[c] = "open" /\ got'[c] # NONE
      <4>1. CASE c = t
        BY <2>3, <3>1, <3>2, <3>4, <4>1
      <4>2. CASE c # t
        <5>1. th'[c] = th[c] /\ got'[c] = got[c]
          BY <2>3, <3>2, <4>2 DEF OnlyMoves
        <5> QED BY <5>1 DEF IInv, ProcInv, ConnInv
      <4> QED BY <4>1, <4>2
    <3>6. conn \in [Client -> {"idle", "queued", "open", "closed"}]
      BY DEF IInv, ProcInv, ConnInv
    <3> QED BY <2>1, <3>3, <3>5, <3>6 DEF ConnInv
  <2>8. BufInv'
    BY <2>1, <2>3 DEF IInv, ProcInv, BufInv, OnlyMoves
  <2>9. CacheInv'
    BY <1>1, <2>1, <2>3, CacheFrame DEF Late
  <2> QED BY <2>1, <2>5, <2>6, <2>7, <2>8, <2>9 DEF IInv, ProcInv
<1> QED BY <1>3, <1>4

(* The server's descriptor is closed once, by its owner.                   *)
LEMMA CloseServerInv ==
  ASSUME IInv, NEW t \in Thread, CloseServer(t), UNCHANGED program
  PROVE  IInv'
<1>1. /\ th[t].at = "close server" /\ ThreadInv /\ CacheInv
      /\ sock' = [sock EXCEPT ![th[t].clientfd] = CLOSED]
      /\ th' = [th EXCEPT ![t].at = "close client", ![t].clientfd = NONE]
      /\ UNCHANGED <<cacheVars, status, main, box, buf, conn, got, program>>
  BY DEF CloseServer, Runs, IInv, ProcInv, worldVars
<1>2. th[t] \in ThreadRecord /\ th \in [Thread -> ThreadRecord]
  BY <1>1 DEF ThreadInv
<1> DEFINE r == [th[t] EXCEPT !.at = "close client", !.clientfd = NONE]
<1>3. r \in ThreadRecord
  BY <1>2 DEF ThreadRecord, Steps, Connected
<1>4. th' = [th EXCEPT ![t] = r]
  BY <1>1, <1>2
<1>5. OnlyMoves(t) /\ th'[t] = r
  BY <1>1, <1>3, <1>4, Moved
<1>6. /\ th'[t].at = "close client" /\ th'[t].clientfd = NONE
      /\ th'[t].vargp = th[t].vargp /\ th'[t].connfd = th[t].connfd
  BY <1>2, <1>5 DEF ThreadRecord
<1> HIDE DEF r
<1>7. (MainInv /\ ThreadInv /\ BoxInv /\ SockInv)'
  <2>1. th[t].at \in Served
    BY <1>1 DEF Served
  <2> QED BY <1>1, <1>5, <1>6, <2>1, Closed
<1>8. TypeOK'
  BY <1>1 DEF IInv, TypeOK, cacheVars, buffer_size
<1>9. ConnInv' /\ BufInv'
  <2>1. /\ {th[t].at, th'[t].at} \subseteq Answered
        /\ "none" \notin Answered /\ Unanswered \cap Answered = {}
    BY <1>1, <1>6 DEF Unanswered, Answered
  <2>2. \A u \in Thread : th'[u].at = th[u].at \/ {th[u].at, th'[u].at} \subseteq Answered
    BY <1>5, <2>1 DEF OnlyMoves
  <2>3. ConnInv'
    BY <1>1, <2>1, <2>2 DEF IInv, ProcInv, ConnInv, Client
  <2>4. BufInv'
    BY <1>1, <1>5, <1>6 DEF IInv, ProcInv, BufInv, OnlyMoves
  <2> QED BY <2>3, <2>4
<1>10. CacheInv'
  BY <1>1, <1>5, <1>6, CacheFrame DEF Late
<1> QED BY <1>1, <1>7, <1>8, <1>9, <1>10 DEF IInv, ProcInv

(* The client's descriptor is closed once, and the thread ends with        *)
(* nothing.                                                                *)
LEMMA CloseClientInv ==
  ASSUME IInv, NEW t \in Thread, CloseClient(t), UNCHANGED program
  PROVE  IInv'
<1> USE Apart, EndsApart DEF Client
<1>1. th[t].at = "close client" /\ MainInv /\ ThreadInv /\ BoxInv /\ SockInv /\ ConnInv /\ CacheInv
  BY DEF CloseClient, Runs, IInv, ProcInv
<1>2. PICK fd \in Fd : fd = th[t].connfd /\ sock[fd] = ClientEnd(t)
  BY <1>1, Holding DEF Connected
<1>3. /\ sock' = [sock EXCEPT ![fd] = CLOSED]
      /\ conn' = [conn EXCEPT ![t] = "closed"]
      /\ th' = [th EXCEPT ![t].at = "ended", ![t].connfd = NONE]
      /\ UNCHANGED <<cacheVars, status, main, box, buf, got, program>>
  <2>1. sock[fd].of = t
    BY <1>2 DEF ClientEnd
  <2> QED BY <1>2, <2>1 DEF CloseClient
<1>4. th[t] \in ThreadRecord /\ th \in [Thread -> ThreadRecord]
  BY <1>1 DEF ThreadInv
<1>5. th[t].vargp = NONE /\ th[t].clientfd = NONE
  BY <1>1 DEF ThreadInv, Holds, Boxed, Served
<1>6. main.of # t
  BY <1>1 DEF ConnInv
<1> DEFINE r == [th[t] EXCEPT !.at = "ended", !.connfd = NONE]
<1>7. r \in ThreadRecord
  BY <1>4 DEF ThreadRecord, Steps
<1>8. th' = [th EXCEPT ![t] = r]
  BY <1>3, <1>4
<1>9. OnlyMoves(t) /\ th'[t] = r
  BY <1>1, <1>7, <1>8, Moved
<1>10. /\ th'[t].at = "ended" /\ th'[t].connfd = NONE
       /\ th'[t].vargp = th[t].vargp /\ th'[t].clientfd = th[t].clientfd
  BY <1>4, <1>9 DEF ThreadRecord
<1> HIDE DEF r
<1>11. sock \in [Fd -> Endpoint \cup {CLOSED}] /\ main \in Held /\ CLOSED \in Endpoint \cup {CLOSED}
  BY DEF IInv, TypeOK
<1>12. MainInv' /\ \A u \in Thread \ {t} : Holds(u)'
  BY <1>1, <1>2, <1>3, <1>6, <1>9, <1>11, OthersHold
<1>13. ThreadInv'
  <2>1. Holds(t)'
    BY <1>5, <1>10 DEF Holds, Boxed, Connected, Served
  <2> QED BY <1>9, <1>12, <2>1 DEF ThreadInv, OnlyMoves
<1>14. BoxInv'
  <2>1. \A u \in Thread : th'[u].vargp = th[u].vargp
    BY <1>9, <1>10 DEF OnlyMoves
  <2> QED BY <1>1, <1>3, <2>1, SameBoxes
<1>15. SockInv'
  <2> SUFFICES ASSUME NEW f \in Fd, NEW c \in Client
               PROVE  /\ sock'[f] = ClientEnd(c) =>
                           \/ th'[c].connfd = f
                           \/ th'[c].at = "start" /\ box[th'[c].vargp] = f
                           \/ main.of = c /\ box[main.connfdp] = f
                      /\ sock'[f] = ServerEnd(c) => th'[c].clientfd = f
    BY <1>3 DEF SockInv
  <2>1. CASE f = fd
    BY <1>3, <1>11, <2>1 DEF CLOSED
  <2>2. CASE f # fd
    <3>1. sock'[f] = sock[f]
      BY <1>3, <2>2
    <3>2. CASE c # t
      <4>1. th'[c] = th[c]
        BY <1>9, <3>2 DEF OnlyMoves
      <4>2. /\ sock[f] = ClientEnd(c) =>
                  \/ th[c].connfd = f
                  \/ th[c].at = "start" /\ box[th[c].vargp] = f
                  \/ main.of = c /\ box[main.connfdp] = f
            /\ sock[f] = ServerEnd(c) => th[c].clientfd = f
        BY <1>1 DEF SockInv
      <4> QED BY <3>1, <4>1, <4>2
    <3>3. CASE c = t
      <4>1. sock[f] # ServerEnd(t)
        BY <1>1, <1>5 DEF SockInv
      <4>2. sock[f] # ClientEnd(t)
        BY <1>1, <1>2, <1>6, <2>2 DEF SockInv
      <4> QED BY <3>1, <3>3, <4>1, <4>2
    <3> QED BY <3>2, <3>3
  <2> QED BY <2>1, <2>2
<1>16. TypeOK'
  BY <1>3 DEF IInv, TypeOK, cacheVars, buffer_size
<1>17. ConnInv'
  <2>1. conn' \in [Client -> {"idle", "queued", "open", "closed"}]
    BY <1>1, <1>3 DEF ConnInv
  <2>2. conn'[t] = "closed" /\ \A c \in Client \ {t} : conn'[c] = conn[c]
    BY <1>1, <1>3 DEF ConnInv
  <2>3. "ended" \notin Unanswered \cup Answered
    BY DEF Unanswered, Answered, Connected, Served
  <2> QED BY <1>1, <1>3, <1>6, <1>9, <1>10, <2>1, <2>2, <2>3 DEF ConnInv, OnlyMoves
<1>18. BufInv'
  BY <1>3, <1>9, <1>10 DEF IInv, ProcInv, BufInv, OnlyMoves
<1>19. CacheInv'
  BY <1>1, <1>3, <1>9, <1>10, CacheFrame DEF Late
<1> QED BY <1>3, <1>12, <1>13, <1>14, <1>15, <1>16, <1>17, <1>18, <1>19 DEF IInv, ProcInv

----------------------------------------------------------------------------
(* Every step of main, of a thread and of a client keeps the invariant.    *)
LEMMA NextInv == IInv /\ [Next]_vars => IInv'
<1> SUFFICES ASSUME IInv, [Next]_vars PROVE IInv'
  OBVIOUS
<1>1. CASE Main
  <2>1. CASE unix_error
    BY <2>1, EndsInv, <1>1 DEF Ends, unix_error, Main
  <2> QED BY <1>1, <2>1, MainMallocInv, MainCreateInv, MainAcceptInv DEF Main
<1>2. ASSUME NEW t \in Thread, ThreadStep(t) PROVE IInv'
  BY <1>2, ThreadStartInv, ThreadFreeInv, ReadRequestInv, OpenSocketInv, ConnectInv,
     SendRequestInv, ReadAnswerInv, SwitchOnCanAddInv, InCacheInv, PlainRequestInv,
     PlainAnswerInv, RespondInv, CloseServerInv, CloseClientInv
     DEF ThreadStep, Cached, Plain
<1>3. ASSUME NEW c \in Thread, ClientStep(c) PROVE IInv'
  BY <1>3, ClientStepInv DEF Client
<1>4. CASE UNCHANGED vars
  <2>1. UNCHANGED <<program, cacheVars, status, main, box, sock, th, buf, conn, got>>
    BY <1>4 DEF vars, procVars, worldVars
  <2>2. TypeOK'
    BY <2>1 DEF cacheVars, IInv, TypeOK, buffer_size
  <2>3. ProcInv'
    BY <2>1 DEF IInv, ProcInv, MainInv, ThreadInv, Holds, BoxInv, SockInv, ConnInv, BufInv
  <2>4. CacheInv'
    BY <2>1 DEF cacheVars, IInv, CacheInv, FnInv, EntryInv
  <2> QED BY <2>1, <2>2, <2>3, <2>4 DEF IInv
<1> QED BY <1>1, <1>2, <1>3, <1>4 DEF Next

(* The inductive invariant holds in every state of every execution.        *)
THEOREM Invariance == Spec => []IInv
<1>1. Init => IInv
  BY InitInv
<1>2. IInv /\ [Next]_vars => IInv'
  BY NextInv
<1> QED BY <1>1, <1>2, PTL DEF Spec

(* The types of the process hold, cached_size is never negative, and entry *)
(* 0 of the cache is never written.                                        *)
THEOREM TypeCorrect == Spec => []TypeOK
<1>1. IInv => TypeOK
  BY DEF IInv
<1> QED BY <1>1, Invariance, PTL

(* While the mutex is free, size and host of every entry come from the     *)
(* same call of add_cache_entry, whatever threads write entries at once.   *)
THEOREM EntriesWhole == Spec => []EntryWhole
<1>1. IInv => EntryWhole
  <2> SUFFICES ASSUME IInv, cache_mutex = NONE, NEW i \in DOMAIN cache, cache[i].host # NONE
               PROVE  cache[i].fileSize = buf[cache[i].host].len
    BY DEF EntryWhole
  <2>1. cache[i].host \in Thread
    BY DEF IInv, CacheInv, EntryInv, Entry
  <2>2. fn[cache[i].host].at # "fileSize"
    BY <2>1, NoneAssumption DEF IInv, CacheInv, FnInv, Locked, InAdd
  <2> QED BY <2>2 DEF IInv, CacheInv, EntryInv
<1> QED BY <1>1, Invariance, PTL

----------------------------------------------------------------------------
(* Descriptors and boxes have one owner.                                   *)

(* Where the number of an open descriptor can be found.                    *)
LEMMA BoxHolds ==
  ASSUME IInv, NEW fd \in Fd, NEW b \in Box, box[b] = fd
  PROVE  \/ /\ main.connfdp = b /\ main.at = "create" /\ main.of \in Thread
            /\ sock[fd] = ClientEnd(main.of) /\ th[main.of].at = "none"
         \/ \E u \in Thread : /\ th[u].vargp = b /\ sock[fd] = ClientEnd(u)
                              /\ th[u].at = "start" \/ (th[u].at = "free" /\ th[u].connfd = fd)
<1> USE Apart DEF Client
<1>1. MainInv /\ ThreadInv /\ BoxInv /\ ConnInv /\ main \in Held
  BY DEF IInv, ProcInv, TypeOK
<1>2. main.connfdp = b \/ \E u \in Thread : th[u].vargp = b
  BY <1>1 DEF BoxInv, FREE
<1>3. CASE main.connfdp = b
  <2>1. main.at = "create"
    BY <1>1, <1>3 DEF MainInv, Held
  <2> QED BY <1>1, <1>3, <2>1 DEF MainInv, Held, ConnInv
<1>4. ASSUME NEW u \in Thread, th[u].vargp = b
      PROVE  /\ sock[fd] = ClientEnd(u)
             /\ th[u].at = "start" \/ (th[u].at = "free" /\ th[u].connfd = fd)
  <2>1. Holds(u) /\ th[u].at \in Boxed
    BY <1>1, <1>4 DEF ThreadInv, Holds
  <2>2. CASE th[u].at = "start"
    BY <1>4, <2>1, <2>2 DEF Holds
  <2>3. CASE th[u].at = "free"
    BY <1>4, <2>1, <2>3 DEF Holds, Connected
  <2> QED BY <2>1, <2>2, <2>3 DEF Boxed
<1> QED BY <1>2, <1>3, <1>4

(* A box is held by main or by one thread.                                 *)
LEMMA OneHolder ==
  ASSUME IInv, NEW fd \in Fd
  PROVE  IF sock[fd] = CLOSED THEN Holders(fd) = {} ELSE \E h : Holders(fd) = {h}
<1> USE Apart, EndsApart DEF Client
<1> DEFINE InBox(b) == /\ box[b] = fd
                       /\ \A u \in Thread : ~(th[u].vargp = b /\ th[u].connfd = fd)
           Clients == {u \in Thread : th[u].connfd = fd}
           Servers == {u \in Thread : th[u].clientfd = fd}
           Boxes == {b \in Box : InBox(b)}
<1>1. Holders(fd) = {<<"connfd", t>> : t \in Clients} \cup {<<"clientfd", t>> : t \in Servers}
                      \cup {<<"box", a>> : a \in Boxes}
  BY DEF Holders
<1>2. ThreadInv /\ SockInv /\ MainInv /\ sock[fd] \in Endpoint \cup {CLOSED}
  BY DEF IInv, ProcInv, TypeOK
<1>3. \A u \in Thread : th[u].connfd = fd => sock[fd] = ClientEnd(u) /\ th[u].at \in Connected
  BY <1>2 DEF ThreadInv, Holds
<1>4. \A u \in Thread : th[u].clientfd = fd => sock[fd] = ServerEnd(u)
  BY <1>2 DEF ThreadInv, Holds
<1>5. "start" \notin Connected /\ "none" \notin Connected
  BY DEF Connected, Served
<1>6. \A b \in Box : InBox(b) => \E c \in Thread :
        /\ sock[fd] = ClientEnd(c)
        /\ th[c].connfd # fd
        /\ \/ th[c].at = "start" /\ th[c].vargp = b
           \/ th[c].at = "none" /\ main.at = "create" /\ main.of = c /\ main.connfdp = b
  BY <1>3, <1>5, BoxHolds
<1>7. CASE sock[fd] = CLOSED
  <2>1. Clients = {} /\ Servers = {} /\ Boxes = {}
    BY <1>3, <1>4, <1>6, <1>7 DEF CLOSED
  <2> QED BY <1>1, <1>7, <2>1
<1>8. ASSUME NEW c \in Thread, sock[fd] = ServerEnd(c) PROVE Holders(fd) = {<<"clientfd", c>>}
  <2>1. Clients = {} /\ Boxes = {}
    BY <1>3, <1>6, <1>8
  <2>2. Servers = {c}
    BY <1>2, <1>4, <1>8 DEF SockInv
  <2> HIDE DEF Clients, Boxes, Servers
  <2> QED BY <1>1, <2>1, <2>2
<1>9. ASSUME NEW c \in Thread, sock[fd] = ClientEnd(c) PROVE \E h : Holders(fd) = {h}
  <2>1. Servers = {}
    BY <1>4, <1>9
  <2>2. CASE th[c].connfd = fd
    <3>1. Clients = {c}
      BY <1>3, <1>9, <2>2
    <3>2. Boxes = {}
      BY <1>6, <1>9, <2>2
    <3> HIDE DEF Clients, Boxes, Servers
    <3>3. Holders(fd) = {<<"connfd", c>>}
      BY <1>1, <2>1, <3>1, <3>2
    <3> QED BY <3>3
  <2>3. CASE th[c].connfd # fd
    <3>1. Clients = {}
      BY <1>3, <1>9, <2>3
    <3>2. PICK a \in Box : /\ box[a] = fd
                           /\ \/ th[c].at = "start" /\ th[c].vargp = a
                              \/ main.of = c /\ main.connfdp = a
      <4>1. CASE th[c].at = "start" /\ box[th[c].vargp] = fd
        BY <1>2, <4>1, Holding DEF Boxed
      <4>2. CASE main.of = c /\ box[main.connfdp] = fd
        <5>1. main.connfdp \in Box
          BY <1>2, <4>2 DEF MainInv, Held, IInv, TypeOK
        <5> QED BY <4>2, <5>1
      <4> QED BY <1>2, <1>9, <2>3, <4>1, <4>2 DEF SockInv
    <3>3. th[c].at = "start" => main.of # c
      BY DEF IInv, ProcInv, ConnInv
    <3>4. \A b \in Box : InBox(b) => b = a
      BY <1>6, <1>9, <3>2, <3>3
    <3>5. InBox(a)
      BY <1>3, <1>9, <2>3, <3>2
    <3>6. Boxes = {a}
      BY <3>4, <3>5
    <3> HIDE DEF Clients, Boxes, Servers
    <3>7. Holders(fd) = {<<"box", a>>}
      BY <1>1, <2>1, <3>1, <3>6
    <3> QED BY <3>7
  <2> QED BY <2>2, <2>3
<1>10. sock[fd] # CLOSED => \E c \in Thread : sock[fd] = ClientEnd(c) \/ sock[fd] = ServerEnd(c)
  BY <1>2 DEF Endpoint, ClientEnd, ServerEnd
<1> QED BY <1>7, <1>8, <1>9, <1>10

(* Every open descriptor is held in exactly one place, every closed one    *)
(* nowhere: no connection is served or closed twice, and none leaks.       *)
THEOREM OneOwnerPerDescriptor == Spec => []DescriptorsOwned
<1>1. ASSUME IInv PROVE DescriptorsOwned
  <2> SUFFICES ASSUME NEW fd \in Fd
               PROVE  Cardinality(Holders(fd)) = IF sock[fd] = CLOSED THEN 0 ELSE 1
    BY DEF DescriptorsOwned
  <2> QED BY <1>1, OneHolder, FS_EmptySet, FS_Singleton
<1> QED BY <1>1, Invariance, PTL

(* Every allocated box is main's or that of exactly one thread that has    *)
(* yet to free it.                                                         *)
THEOREM OneOwnerPerBox == Spec => []BoxesOwned
<1>1. ASSUME IInv PROVE BoxesOwned
  <2> SUFFICES ASSUME NEW a \in Box
               PROVE  Cardinality({t \in Thread : th[t].vargp = a})
                        + (IF main.connfdp = a THEN 1 ELSE 0) = IF box[a] = FREE THEN 0 ELSE 1
    BY DEF BoxesOwned
  <2> DEFINE T == {t \in Thread : th[t].vargp = a}
  <2>1. BoxInv /\ a # NONE
    BY <1>1, Apart DEF IInv, ProcInv
  <2>2. CASE \A t \in Thread : th[t].vargp # a
    <3>1. T = {}
      BY <2>2
    <3>2. Cardinality(T) = 0
      BY <3>1, FS_EmptySet
    <3>3. box[a] # FREE <=> main.connfdp = a
      BY <2>1, <2>2 DEF BoxInv
    <3> QED BY <3>2, <3>3
  <2>3. ASSUME NEW t \in Thread, th[t].vargp = a
        PROVE  /\ Cardinality(T) = 1
               /\ main.connfdp # a /\ box[a] # FREE
    <3>1. T = {t}
      BY <2>1, <2>3 DEF BoxInv
    <3>2. Cardinality(T) = 1
      BY <3>1, FS_Singleton
    <3> QED BY <2>1, <2>3, <3>2 DEF BoxInv
  <2> HIDE DEF T
  <2>4. Cardinality(T) + (IF main.connfdp = a THEN 1 ELSE 0) = IF box[a] = FREE THEN 0 ELSE 1
    BY <2>2, <2>3 DEF T
  <2> QED BY <2>4 DEF T
<1> QED BY <1>1, Invariance, PTL
=============================================================================
