------------------------------- MODULE Proxy -------------------------------
(***************************************************************************)
(* proxy.c: main accepts connections and hands each, in a box it allocates,*)
(* to a detached thread of its own; the thread reads a request, asks the   *)
(* server, looks into the cache, relays at most MAXBUF of the answer,      *)
(* records it in the cache and closes both descriptors.                    *)
(* cocurrency_proxy.c, the proxy before it had a cache, relays what fits   *)
(* into a buffer of MAX_CACHE_SIZE and is otherwise the same.              *)
(*                                                                         *)
(* A client makes one connection, and the thread created for it bears its  *)
(* name.  What the thread serves is not taken from that name but from the  *)
(* descriptor it finds in the box.                                         *)
(***************************************************************************)
EXTENDS Cache

CONSTANTS Fd,              \* descriptors the process may open
          Box,             \* addresses Malloc may return
          MAXBUF,
          Addresses,       \* how many addresses a server has
          Answers,         \* sizes a server may answer with
          Silent,          \* clients that, or whose server, may never send or read
          Impatient        \* clients that may reset their connection

Client == Thread

ASSUME FdAssumption == Fd \subseteq Nat
ASSUME BufferAssumption == MAXBUF \in Nat /\ MAXBUF <= MAX_OBJECT_SIZE
ASSUME AnswersAssumption == Answers \subseteq Nat
ASSUME AddressesAssumption == Addresses \in Nat \ {0}
ASSUME ClientAssumption == Silent \subseteq Client /\ Impatient \subseteq Client
ASSUME NullAssumption ==
  /\ NONE \notin Int \cup Box
  /\ NONE \notin [end : {"client", "server"}, of : Client] \cup [of : Client, len : Nat, sent : Nat]

VARIABLES program,         \* "proxy" or "cocurrency_proxy"
          main,            \* where main is, its connfdp, its connection
          box,             \* what each allocated box holds
          sock,            \* the end that each open descriptor leads to
          th,              \* the threads
          buf,             \* the answer in do_response's buffer: the part of what
                           \* the server sent that it holds
          conn,            \* the connection of each client
          gone,            \* clients that have reset their connection
          got              \* what each client has received

procVars == <<main, box, sock, th, buf>>
worldVars == <<conn, gone, got>>
vars == <<program, cacheVars, status, procVars, worldVars>>

(* The size of the buffer in do_response.                                  *)
buffer_size == IF program = "proxy" THEN MAXBUF ELSE MAX_CACHE_SIZE

CLOSED == NONE             \* a descriptor that leads nowhere
FREE == NONE               \* a box that is not allocated
UNSET == -1                \* an allocated box nothing was written to
Endpoint == [end : {"client", "server"}, of : Client]

ClosedFds == {fd \in Fd : sock[fd] = CLOSED}
LowestFd == CHOOSE fd \in ClosedFds : \A other \in ClosedFds : fd <= other

MainMallocs == [at |-> "malloc", connfdp |-> NONE, of |-> NONE]
NoBoxes == [a \in Box |-> FREE]
NoSockets == [fd \in Fd |-> CLOSED]
NoThreads ==
  [t \in Thread |->
     [at |-> "none", vargp |-> NONE, connfd |-> NONE, clientfd |-> NONE, left |-> 0]]
NoAnswers == [t \in Thread |-> [of |-> NONE, len |-> 0, sent |-> 0]]

Init ==
  /\ program \in {"proxy", "cocurrency_proxy"}
  /\ status = "running"
  /\ CacheInit
  /\ main = MainMallocs
  /\ box = NoBoxes
  /\ sock = NoSockets
  /\ th = NoThreads
  /\ buf = NoAnswers
  /\ conn = [c \in Client |-> "idle"]
  /\ gone = {}
  /\ got = [c \in Client |-> NONE]

ProcessGone ==
  /\ main' = MainMallocs
  /\ box' = NoBoxes
  /\ sock' = NoSockets
  /\ th' = NoThreads
  /\ buf' = NoAnswers

(* unix_error exits the whole process; a write to a connection that was    *)
(* reset raises SIGPIPE, which nothing ignores.                            *)
unix_error == Stop("exited") /\ ProcessGone /\ UNCHANGED worldVars
posix_error == unix_error
Killed == Stop("killed") /\ ProcessGone /\ UNCHANGED worldVars

----------------------------------------------------------------------------
(* Clients *)

ClientConnects(c) ==
  /\ status = "running" /\ conn[c] = "idle"
  /\ conn' = [conn EXCEPT ![c] = "queued"]
  /\ UNCHANGED <<cacheVars, status, procVars, gone, got>>

ClientResets(c) ==
  /\ status = "running" /\ c \in Impatient \ gone
  /\ conn[c] \in {"queued", "open"}
  /\ gone' = gone \cup {c}
  /\ UNCHANGED <<cacheVars, status, procVars, conn, got>>

----------------------------------------------------------------------------
(* main *)

(* Mutant: one box for all connections.                                    *)
MainOneBox ==
  /\ status = "running" /\ main.at = "malloc"
  /\ \E a \in Box :
       /\ \A b \in Box : b # a => box[b] = FREE
       /\ box' = [box EXCEPT ![a] = UNSET]
       /\ main' = [main EXCEPT !.at = "accept", !.connfdp = a]
  /\ UNCHANGED <<cacheVars, status, sock, th, buf, worldVars>>

MainMalloc ==
  /\ status = "running" /\ main.at = "malloc"
  /\ \/ /\ \E a \in Box :
             /\ box[a] = FREE
             /\ box' = [box EXCEPT ![a] = UNSET]
             /\ main' = [main EXCEPT !.at = "accept", !.connfdp = a]
        /\ UNCHANGED <<cacheVars, status, sock, th, buf, worldVars>>
     \/ unix_error         \* no memory

MainAccept(c) ==
  /\ status = "running" /\ main.at = "accept" /\ conn[c] = "queued"
  /\ \/ /\ ClosedFds # {}
        /\ sock' = [sock EXCEPT ![LowestFd] = [end |-> "client", of |-> c]]
        /\ box' = [box EXCEPT ![main.connfdp] = LowestFd]
        /\ conn' = [conn EXCEPT ![c] = "open"]
        /\ main' = [main EXCEPT !.at = "create", !.of = c]
        /\ UNCHANGED <<cacheVars, status, th, buf, gone, got>>
     \/ ClosedFds = {} /\ unix_error

MainCreate ==
  /\ status = "running" /\ main.at = "create"
  /\ \/ /\ th' = [th EXCEPT ![main.of].at = "start", ![main.of].vargp = main.connfdp]
        /\ main' = MainMallocs
        /\ UNCHANGED <<cacheVars, status, box, sock, buf, worldVars>>
     \/ posix_error        \* no more threads

Main ==
  /\ MainMalloc \/ MainCreate \/ \E c \in Client : MainAccept(c)
  /\ UNCHANGED program

----------------------------------------------------------------------------
(* thread and do_it *)

Runs(t, label) == status = "running" /\ th[t].at = label
Step(t, label) == th' = [th EXCEPT ![t].at = label]

ThreadStart(t) ==
  /\ Runs(t, "start")
  /\ th' = [th EXCEPT ![t].at = "free", ![t].connfd = box[th[t].vargp]]
  /\ UNCHANGED <<cacheVars, status, main, box, sock, buf, worldVars>>

ThreadFree(t) ==
  /\ Runs(t, "free")
  /\ box' = [box EXCEPT ![th[t].vargp] = FREE]
  /\ th' = [th EXCEPT ![t].at = "read", ![t].vargp = NONE]
  /\ UNCHANGED <<cacheVars, status, main, sock, buf, worldVars>>

(* A request without "://" leaves host and port unset, and do_it does not  *)
(* look at what parse_uri returns: the name is not found, or whatever the  *)
(* stack holds is used.                                                    *)
ReadRequest(t) ==
  /\ Runs(t, "read")
  /\ \/ /\ sock[th[t].connfd].of \notin gone
        /\ th' = [th EXCEPT ![t].at = "socket", ![t].left = Addresses]
        /\ UNCHANGED <<cacheVars, status, main, box, sock, buf, worldVars>>
     \/ sock[th[t].connfd].of \in gone /\ unix_error
     \/ /\ sock[th[t].connfd].of \notin gone
        /\ Stop("undefined")
        /\ ProcessGone /\ UNCHANGED worldVars

(* open_clientfd tries the addresses of the server in turn: a socket for   *)
(* which there is no descriptor is passed over, one that cannot connect is *)
(* closed.  While connect waits, the descriptor is taken.  Without another *)
(* address, or any at all, the process ends.                               *)
NextAddress(t) ==
  /\ th[t].left > 1
  /\ th' = [th EXCEPT ![t].at = "socket", ![t].left = @ - 1, ![t].clientfd = NONE]

OpenSocket(t) ==
  /\ Runs(t, "socket")
  /\ \/ /\ ClosedFds # {}
        /\ sock' = [sock EXCEPT ![LowestFd] =
                      [end |-> "server", of |-> sock[th[t].connfd].of]]
        /\ th' = [th EXCEPT ![t].at = "connect", ![t].clientfd = LowestFd]
        /\ UNCHANGED <<cacheVars, status, main, box, buf, worldVars>>
     \/ /\ ClosedFds = {} /\ NextAddress(t)
        /\ UNCHANGED <<cacheVars, status, main, box, sock, buf, worldVars>>
     \/ ClosedFds = {} /\ th[t].left = 1 /\ unix_error
     \/ th[t].left = Addresses /\ unix_error      \* the name has no address

Connect(t) ==
  /\ Runs(t, "connect")
  /\ \/ /\ th' = [th EXCEPT ![t].at = "request", ![t].left = 0]
        /\ UNCHANGED <<cacheVars, status, main, box, sock, buf, worldVars>>
     \/ /\ NextAddress(t)
        /\ sock' = [sock EXCEPT ![th[t].clientfd] = CLOSED]
        /\ UNCHANGED <<cacheVars, status, main, box, buf, worldVars>>
     \/ th[t].left = 1 /\ unix_error

SendRequest(t) ==
  /\ Runs(t, "request") /\ program = "proxy"
  /\ \/ /\ Step(t, "lookup")
        /\ Call(t, "isInCache", 0)
        /\ UNCHANGED <<memory, main, box, sock, buf, worldVars>>
     \/ Killed             \* the server has reset the connection

(* Mutant: the size of the buffer is not looked at.                        *)
Rio_readnb_all(size) == size

(* Rio_readnb returns what the server sent, up to the size of the buffer.  *)
Rio_readnb(size) == IF size < buffer_size THEN size ELSE buffer_size
Read(server, size) == [of |-> server, len |-> Rio_readnb(size), sent |-> size]

(* Mutant: the buffer is static, one for all threads.                      *)
FilledStatic(t, answer) == [u \in Thread |-> answer]
Filled(t, answer) == [buf EXCEPT ![t] = answer]

ReadAnswer(t) ==
  /\ Runs(t, "lookup") /\ At(t, "returned")
  /\ \/ \E size \in Answers :
          /\ buf' = Filled(t, Read(sock[th[t].clientfd].of, size))
          /\ Step(t, "canAdd")
          /\ Call(t, "canAddToCache", Rio_readnb(size))
          /\ UNCHANGED <<memory, main, box, sock, worldVars>>
     \/ unix_error         \* the server has reset the connection

(* Without a cache the answer is read next, and then relayed.              *)
PlainRequest(t) ==
  /\ Runs(t, "request") /\ program = "cocurrency_proxy"
  /\ \/ /\ Step(t, "answer")
        /\ UNCHANGED <<cacheVars, status, main, box, sock, buf, worldVars>>
     \/ Killed

PlainAnswer(t) ==
  /\ Runs(t, "answer")
  /\ \/ \E size \in Answers :
          /\ buf' = Filled(t, Read(sock[th[t].clientfd].of, size))
          /\ Step(t, "respond")
          /\ UNCHANGED <<cacheVars, status, main, box, sock, worldVars>>
     \/ unix_error

(* do_response adds the entry itself only on CACHE_OK.                     *)
SwitchOnCanAdd(t) ==
  /\ Runs(t, "canAdd") /\ At(t, "returned")
  /\ IF fn[t].ret = "CACHE_OK"
     THEN /\ Call(t, "add_cache_entry", buf[t].len)
          /\ UNCHANGED th
     ELSE /\ Step(t, "respond")
          /\ UNCHANGED fn
  /\ UNCHANGED <<memory, main, box, sock, buf, worldVars>>

Respond(t) ==
  /\ Runs(t, "respond")
  /\ LET c == sock[th[t].connfd].of IN
     \/ /\ c \notin gone \/ buf[t].len = 0
        /\ got' = [got EXCEPT ![c] = buf[t]]
        /\ Step(t, "close server")
        /\ UNCHANGED <<cacheVars, status, main, box, sock, buf, conn, gone>>
     \/ c \in gone /\ buf[t].len > 0 /\ Killed

(* Mutant: the descriptor of the server stays open.                        *)
CloseServerForgotten(t) ==
  /\ Runs(t, "close server")
  /\ th' = [th EXCEPT ![t].at = "close client", ![t].clientfd = NONE]
  /\ UNCHANGED <<cacheVars, status, main, box, sock, buf, worldVars>>

CloseServer(t) ==
  /\ Runs(t, "close server")
  /\ sock' = [sock EXCEPT ![th[t].clientfd] = CLOSED]
  /\ th' = [th EXCEPT ![t].at = "close client", ![t].clientfd = NONE]
  /\ UNCHANGED <<cacheVars, status, main, box, buf, worldVars>>

CloseClient(t) ==
  /\ Runs(t, "close client")
  /\ sock' = [sock EXCEPT ![th[t].connfd] = CLOSED]
  /\ conn' = [conn EXCEPT ![sock[th[t].connfd].of] = "closed"]
  /\ th' = [th EXCEPT ![t].at = "ended", ![t].connfd = NONE]
  /\ UNCHANGED <<cacheVars, status, main, box, buf, gone, got>>

InCache(t) ==
  /\ CacheStep(t)
  /\ IF status' = "running" THEN UNCHANGED procVars ELSE ProcessGone
  /\ UNCHANGED worldVars

(* What only one of the two programs does to serve a request.              *)
Cached(t) == SendRequest(t) \/ ReadAnswer(t) \/ SwitchOnCanAdd(t) \/ InCache(t)
Plain(t) == PlainRequest(t) \/ PlainAnswer(t)

ThreadStep(t) ==
  /\ \/ ThreadStart(t) \/ ThreadFree(t) \/ ReadRequest(t)
     \/ OpenSocket(t) \/ Connect(t)
     \/ Cached(t) \/ Plain(t)
     \/ Respond(t) \/ CloseServer(t) \/ CloseClient(t)
  /\ UNCHANGED program

ClientStep(c) == (ClientConnects(c) \/ ClientResets(c)) /\ UNCHANGED program

Next == Main \/ \E t \in Thread : ThreadStep(t) \/ ClientStep(t)

Spec == Init /\ [][Next]_vars

(* main and every thread keep being scheduled; a thread that reads from a  *)
(* silent client or its server, or writes to it, waits for as long as that *)
(* likes.                                                                  *)
Waits(t) ==
  /\ t \in Silent
  /\ \/ Runs(t, "read") \/ Runs(t, "request") \/ Runs(t, "answer") \/ Runs(t, "respond")
     \/ Runs(t, "lookup") /\ At(t, "returned")

FairSpec ==
  /\ Spec
  /\ WF_vars(Main)
  /\ \A t \in Thread : WF_vars(ThreadStep(t) /\ ~Waits(t))

----------------------------------------------------------------------------
(* Properties *)

Held == [at : {"malloc", "accept", "create"}, connfdp : Box \cup {NONE},
         of : Client \cup {NONE}]

TypeOK ==
  /\ status \in {"running", "exited", "killed", "segfault", "undefined"}
  /\ count \in [slot_used : Int, cached_size : Nat] /\ slot_allocated \in Nat
  /\ cache_mutex \in Thread \cup {NONE}
  /\ 0 \in DOMAIN cache /\ cache[0] = ZeroedEntries[0]
  /\ main \in Held
  /\ box \in [Box -> Fd \cup {FREE, UNSET}]
  /\ sock \in [Fd -> Endpoint \cup {CLOSED}]
  /\ buf \in [Thread -> [of : Client \cup {NONE}, len : 0 .. buffer_size, sent : Nat]]

(* The places that hold descriptor fd: a thread's connfd or clientfd, or   *)
(* the box on its way from main to a thread.                               *)
Holders(fd) ==
  {<<"connfd", t>> : t \in {u \in Thread : th[u].connfd = fd}}
    \cup {<<"clientfd", t>> : t \in {u \in Thread : th[u].clientfd = fd}}
    \cup {<<"box", a>> : a \in {b \in Box : box[b] = fd
                                 /\ \A u \in Thread :
                                      ~(th[u].vargp = b /\ th[u].connfd = fd)}}

(* Every open descriptor is held in exactly one place and every closed one *)
(* nowhere: no connection is served twice, closed twice or left open after *)
(* its thread has ended, though the number is reused as soon as it is      *)
(* closed.                                                                 *)
DescriptorsOwned ==
  \A fd \in Fd : Cardinality(Holders(fd)) = IF sock[fd] = CLOSED THEN 0 ELSE 1

(* A box that is allocated is main's or that of exactly one thread that    *)
(* has yet to free it: none leaks and none is used after it was freed.     *)
BoxesOwned ==
  \A a \in Box :
    Cardinality({t \in Thread : th[t].vargp = a})
      + (IF main.connfdp = a THEN 1 ELSE 0) = IF box[a] = FREE THEN 0 ELSE 1

(* While nobody holds the mutex, the entries of the cache are whole: size  *)
(* and host come from the same call of add_cache_entry.                    *)
EntryWhole ==
  cache_mutex = NONE =>
    \A i \in DOMAIN cache :
      cache[i].host # NONE => cache[i].fileSize = buf[cache[i].host].len

(* Each client gets at most one answer, its own, before its connection is  *)
(* closed, and the whole of it where it fits the buffer (module Relay),    *)
(* whatever the threads do to the cache meanwhile.                         *)
Promise == INSTANCE Relay WITH up <- status = "running", answer <- got, limit <- buffer_size
ImplementsRelay == Promise!Spec

(* What comes through the proxy is what the server sent (driver.sh fetches *)
(* files of all sizes with the proxy and without it and compares the two). *)
WholeAnswer == \A c \in Client : got[c] # NONE => got[c].len = got[c].sent

(* A connection whose client and server send and read is closed in the     *)
(* end, unless the process ends: a peer that does not holds up its own     *)
(* thread and no other.                                                    *)
EveryConnectionEnds ==
  \A c \in Client \ Silent : conn[c] = "open" ~> conn[c] = "closed" \/ status # "running"

(* A proxy fetches one file after another: looking into the cache does not *)
(* end the process (driver.sh fetches three files from one proxy).         *)
LookupReturns == status # "segfault"
=============================================================================
