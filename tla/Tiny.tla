-------------------------------- MODULE Tiny --------------------------------
(***************************************************************************)
(* tiny.c, a web server that serves one connection after the other, its    *)
(* CGI program adder.c, and clients that send a request in pieces, end or  *)
(* reset the connection when they like, and come back when they were       *)
(* served.  An action runs from one system call to the next.               *)
(***************************************************************************)
EXTENDS Rio

CONSTANTS Client,
          NONE,
          Scripts,         \* Scripts[c]: what client c may send
          Addresses,       \* what getaddrinfo may offer the server
          Disks,           \* states of the static file and the CGI program
          Faults,          \* of "fin", "reset", "edit", "io"
          Deaf             \* clients that may not read what they are sent

ASSUME NoneAssumption == NONE \notin Client

VARIABLES net,             \* the connection of each client
          backlog,         \* connections that wait for Accept, oldest first
          srv,             \* the server process
          child,           \* its CGI process: "none", "forked" or "exited"
          disk,            \* the file and the CGI program
          stdout           \* the clients of whom something is printed and not
                           \* yet flushed

vars == <<net, backlog, srv, child, disk, stdout>>

(* A request line is one token and its newline; args are the parameters in *)
(* the query string of a CGI program, which '&' divides.                   *)
To(method, uri, args) == [method |-> method, uri |-> uri, args |-> args]
RequestLine == [get_file  |-> To("GET", "file", <<>>),
                head_file |-> To("HEAD", "file", <<>>),
                get_sum   |-> To("GET", "cgi", <<1, 2>>),
                get_one   |-> To("GET", "cgi", <<1>>),
                post_file |-> To("POST", "file", <<>>),
                devtools  |-> To("GET", "devtools", <<>>)]
Request == {RequestLine[l] : l \in DOMAIN RequestLine}

(* What a client may send: request lines, newlines and "h", which is all   *)
(* other text.  It begins with a request line.                             *)
Token == DOMAIN RequestLine \cup NewLine \cup {"h"}
ASSUME ScriptsAssumption ==
  \A c \in Client : \A script \in Scripts[c] :
    script \in Seq(Token) /\ script # <<>> /\ script[1] \in DOMAIN RequestLine

Mode == {"ok", "denied", "none"}
ASSUME DisksAssumption ==
  Disks \subseteq [file : [mode : Mode, size : Nat], cgi : [mode : Mode]]

(* What sscanf makes of a line: a line that is not a request leaves method *)
(* and uri as the stack has them.                                          *)
Parsed(line) ==
  IF line # <<>> /\ line[1] \in DOMAIN RequestLine THEN {RequestLine[line[1]]} ELSE Request

(* What can be written to a client: a status line with its headers, a page,*)
(* a block of the file, memory that was never written to, adder's answer,  *)
(* what tiny prints about the clients in S.                                *)
Page(code) == <<<<code>>, <<"page">>>>
Header(size) == <<<<"200", size>>>>
Block == <<"block">>
Junk == <<"junk">>
Printed(S) == <<"printed", S>>

(* adder.c adds up the two parameters it finds, or 0 and 0.                *)
adder(args) ==
  <<<<"sum", IF Len(args) < 2 THEN 0 ELSE args[1] + args[2]>>>>

----------------------------------------------------------------------------
(* The environment                                                         *)

NoConnection ==
  [fd |-> "none", script |-> <<>>, sent |-> 0, wire |-> <<>>, peer |-> "up", got |-> <<>>]

(* A client connects for the first time, or again.                         *)
Connects(c) ==
  /\ net[c].fd \in {"none", "closed"} /\ srv.pc \notin {"start", "down"}
  /\ \E script \in Scripts[c] :
       net' = [net EXCEPT ![c] = [NoConnection EXCEPT !.fd = "queued", !.script = script]]
  /\ backlog' = Append(backlog, c)
  /\ UNCHANGED <<srv, child, disk, stdout>>

Connected(c) == net[c].fd \in {"queued", "open"} /\ srv.pc # "down"

Sends(c) ==
  /\ Connected(c) /\ net[c].peer = "up"
  /\ \E k \in net[c].sent + 1 .. Len(net[c].script) :
       net' = [net EXCEPT ![c].sent = k,
                          ![c].wire = @ \o SubSeq(net[c].script, net[c].sent + 1, k)]
  /\ UNCHANGED <<backlog, srv, child, disk, stdout>>

Ends(c) ==
  /\ "fin" \in Faults /\ Connected(c) /\ net[c].peer = "up"
  /\ net' = [net EXCEPT ![c].peer = "fin"]
  /\ UNCHANGED <<backlog, srv, child, disk, stdout>>

Resets(c) ==
  /\ "reset" \in Faults /\ Connected(c) /\ net[c].peer \in {"up", "fin"}
  /\ net' = [net EXCEPT ![c].peer = "reset", ![c].wire = <<>>]
  /\ UNCHANGED <<backlog, srv, child, disk, stdout>>

(* Somebody truncates, extends or removes a file, or changes its rights.   *)
Edits ==
  /\ "edit" \in Faults /\ srv.pc # "down"
  /\ disk' \in Disks \ {disk}
  /\ UNCHANGED <<net, backlog, srv, child, stdout>>

Blocks(file) == [k \in 1 .. file.size |-> Block]

----------------------------------------------------------------------------
(* The server                                                              *)
(*                                                                         *)
(* connfd is a client, taken what doit has got of its text.  buf and rio   *)
(* are the state of the line that is read.  header is the buffer of        *)
(* read_requestheaders, empty while nothing was stored in it.  unsent is   *)
(* what rio_writen has left to write, and after where it returns to.       *)

Idle == [pc |-> "accept", connfd |-> NONE, taken |-> <<>>, buf |-> <<>>, rio |-> <<>>,
         req |-> NONE, header |-> <<>>, size |-> 0, srcfd |-> "closed", filedata |-> NONE,
         unsent |-> <<>>, after |-> NONE]
Down == [Idle EXCEPT !.pc = "down"]

(* unix_error ends the process, as SIGPIPE does; main never ignores it.    *)
unix_error ==
  /\ srv' = Down
  /\ backlog' = <<>>
  /\ stdout' = {}
  /\ UNCHANGED <<net, child, disk>>

At(pc) == srv.pc = pc
Sock == net[srv.connfd]

(* The server goes on as s.                                                *)
Continues(s) == srv' = s /\ UNCHANGED <<net, backlog, child, disk, stdout>>

(* printf of something about client c.  A terminal flushes every line; else*)
(* the text stays until the buffer is full, and then its end, if anything. *)
printf(c) == stdout' \in {stdout \cup {c}, {c}, {}}

(* Rio_writen of these tokens, then pc.                                    *)
Writing(s, tokens, pc) == [s EXCEPT !.pc = "write", !.unsent = tokens, !.after = pc]

clienterror(s, code, pc) == Writing(s, Page(code), pc)

Open_listenfd ==
  /\ At("start")
  /\ \E addresses \in Addresses, listens \in BOOLEAN :
       IF open_listenfd(addresses, listens) < 0 THEN unix_error ELSE Continues(Idle)

Accept ==
  /\ At("accept") /\ backlog # <<>>
  /\ srv' = [srv EXCEPT !.pc = "request", !.connfd = Head(backlog)]
  /\ net' = [net EXCEPT ![Head(backlog)].fd = "open"]
  /\ backlog' = Tail(backlog)
  /\ printf(Head(backlog))
  /\ UNCHANGED <<child, disk>>

(* A step r of rio_readlineb, and what the server has after it.            *)
LineSteps == rio_readlineb(srv.buf, srv.rio, Sock)
Gathers(r) == [srv EXCEPT !.buf = r.buf, !.rio = r.rio]
GotLine(r) == [srv EXCEPT !.buf = <<>>, !.rio = r.rio, !.taken = @ \o r.buf]

(* doit from the request line to the headers.                              *)
Takes(s, req) ==
  LET t == [s EXCEPT !.req = req]
  IN  IF req.uri = "devtools" THEN [t EXCEPT !.pc = "close"]
      ELSE IF req.method \notin {"GET", "HEAD"} THEN clienterror(t, "501", "close")
      ELSE [t EXCEPT !.pc = "headers"]

(* Only 0 makes doit return: after -1 it goes on with whatever buf holds.  *)
ReadRequest ==
  /\ At("request")
  /\ \E r \in LineSteps :
       /\ net' = [net EXCEPT ![srv.connfd] = r.sock]
       /\ \/ /\ UNCHANGED stdout
             /\ \/ ~r.done /\ srv' = Gathers(r)
                \/ r.done /\ r.rc = 0 /\ srv' = [GotLine(r) EXCEPT !.pc = "close"]
          \/ /\ printf(srv.connfd)
             /\ \/ r.done /\ r.rc > 0 /\ \E req \in Parsed(r.buf) : srv' = Takes(GotLine(r), req)
                \/ r.done /\ r.rc < 0 /\ \E req \in Parsed(<<>>) : srv' = Takes(GotLine(r), req)
  /\ UNCHANGED <<backlog, child, disk>>

(* Mutant: only a bare newline is taken for an empty line.                 *)
HeaderEnds_lf(header) == header = <<"lf">>

HeaderEnds(header) == header = <<"crlf">>

(* The end of the connection leaves buf as it is: the last header, or, at  *)
(* the first call, what the stack has there.                               *)
HeaderRead(r) ==
  IF r.rc > 0 THEN {r.buf} ELSE IF srv.header # <<>> THEN {srv.header} ELSE {<<"crlf">>, Junk}

read_requestheaders ==
  /\ At("headers")
  /\ \E r \in LineSteps :
       \/ /\ ~r.done \/ r.rc >= 0
          /\ net' = [net EXCEPT ![srv.connfd] = r.sock]
          /\ \/ ~r.done /\ srv' = Gathers(r) /\ UNCHANGED stdout
             \/ /\ r.done
                /\ \E header \in HeaderRead(r) :
                     srv' = [GotLine(r) EXCEPT !.header = header,
                                               !.pc = IF HeaderEnds(header) THEN "stat" ELSE "headers"]
                /\ IF srv.header = <<>> THEN UNCHANGED stdout ELSE printf(srv.connfd)
          /\ UNCHANGED <<backlog, child, disk>>
       \/ r.done /\ r.rc < 0 /\ unix_error

(* doit from parse_uri on.  403 for a CGI program does not return.         *)
Stat ==
  /\ At("stat")
  /\ LET file == IF srv.req.uri = "cgi" THEN disk.cgi ELSE disk.file
     IN  Continues(
           IF file.mode = "none" THEN clienterror(srv, "404", "close")
           ELSE IF srv.req.uri = "file"
           THEN IF file.mode = "denied" THEN clienterror(srv, "403", "close")
                ELSE Writing([srv EXCEPT !.size = file.size], Header(file.size),
                             IF srv.req.method = "HEAD" THEN "close" ELSE "open")
           ELSE Writing(srv, (IF file.mode = "denied" THEN Page("403") ELSE <<>>) \o Header(0), "fork"))

(* A round of rio_writen.  The body of a file is written without the       *)
(* wrapper: serve_static cleans up and reports the failure to the client.  *)
(* It prints the header of a file once that is written.                    *)
WritesFileHeader == srv.after # "fork" /\ srv.unsent = Header(srv.size)

Write ==
  /\ At("write")
  /\ \E r \in WriteRounds(srv.unsent, Sock) :
       IF r.rc = "ok"
       THEN /\ net' = [net EXCEPT ![srv.connfd].got = @ \o r.sent]
            /\ srv' = [srv EXCEPT !.unsent = r.unsent,
                                  !.pc = IF r.unsent = <<>> THEN srv.after ELSE "write"]
            /\ IF WritesFileHeader THEN printf(srv.connfd) ELSE UNCHANGED stdout
            /\ UNCHANGED <<backlog, child, disk>>
       ELSE IF r.rc = "error" /\ srv.after = "served"
       THEN /\ net' = [net EXCEPT ![srv.connfd] = r.sock]
            /\ srv' = clienterror([srv EXCEPT !.srcfd = "closed", !.filedata = NONE], "500", "close")
            /\ UNCHANGED <<backlog, child, disk, stdout>>
       ELSE unix_error

(* serve_static: the file may have gone since stat.                        *)
Open ==
  /\ At("open")
  /\ IF disk.file.mode # "ok" THEN unix_error
     ELSE Continues([srv EXCEPT !.pc = "read", !.srcfd = "open", !.filedata = <<>>])

(* rio_readn on the file, which may have another size by now: what it does *)
(* not fill of filedata is sent as malloc left it.                         *)
ReadFile ==
  /\ At("read")
  /\ \/ /\ ~ReadEnds(srv.filedata, Blocks(disk.file), srv.size)
        /\ \E data \in ReadRounds(srv.filedata, Blocks(disk.file), srv.size) :
             Continues([srv EXCEPT !.filedata = data])
     \/ /\ ReadEnds(srv.filedata, Blocks(disk.file), srv.size)
        /\ LET body == srv.filedata \o [k \in 1 .. srv.size - Len(srv.filedata) |-> Junk]
           IN  Continues(IF body = <<>> THEN [srv EXCEPT !.pc = "served"]
                         ELSE Writing([srv EXCEPT !.filedata = body], body, "served"))
     \/ "io" \in Faults /\ Continues(clienterror(srv, "500", "failed"))

(* Mutant: the file is closed only when it was sent.                       *)
CloseFileForgotten ==
  \/ /\ At("served")
     /\ Continues([srv EXCEPT !.pc = "close", !.srcfd = "closed", !.filedata = NONE])
  \/ At("failed") /\ Continues([srv EXCEPT !.pc = "close", !.filedata = NONE])

CloseFile ==
  /\ At("served") \/ At("failed")
  /\ Continues([srv EXCEPT !.pc = "close", !.srcfd = "closed", !.filedata = NONE])

(* serve_dynamic                                                           *)
Fork ==
  /\ At("fork")
  /\ \/ /\ child' = "forked"
        /\ srv' = [srv EXCEPT !.pc = "wait"]
        /\ UNCHANGED <<net, backlog, disk, stdout>>
     \/ "io" \in Faults /\ unix_error

(* The child's standard output is the connection.  When execve fails, the  *)
(* child exits through unix_error, and exit flushes the buffer of printf   *)
(* that it inherited: what tiny has printed and not yet flushed.           *)
CgiOutput ==
  IF disk.cgi.mode = "ok" THEN adder(srv.req.args)
  ELSE IF stdout # {} THEN <<Printed(stdout)>> ELSE <<>>

(* A write that fails, fails the child alone.                              *)
RunCgi ==
  /\ child = "forked" /\ ~At("down")
  /\ child' = "exited"
  /\ IF CgiOutput = <<>> THEN UNCHANGED net
     ELSE IF Sock.peer \in {"up", "fin"}
     THEN net' = [net EXCEPT ![srv.connfd].got = @ \o CgiOutput]
     ELSE net' = [net EXCEPT ![srv.connfd].peer = "broken"]
  /\ UNCHANGED <<backlog, srv, disk, stdout>>

Wait ==
  /\ At("wait") /\ child = "exited"
  /\ child' = "none"
  /\ srv' = [srv EXCEPT !.pc = "close"]
  /\ UNCHANGED <<net, backlog, disk, stdout>>

(* Mutant: the rio_t is not initialised for each connection.               *)
CloseKeepsRio ==
  /\ At("close")
  /\ net' = [net EXCEPT ![srv.connfd] = [@ EXCEPT !.fd = "closed", !.sent = 0, !.wire = <<>>]]
  /\ srv' = [Idle EXCEPT !.rio = srv.rio, !.srcfd = srv.srcfd, !.filedata = srv.filedata]
  /\ UNCHANGED <<backlog, child, disk, stdout>>

(* doit has returned; its rio_t and buffers go with it.                    *)
Close ==
  /\ At("close")
  /\ net' = [net EXCEPT ![srv.connfd] = [@ EXCEPT !.fd = "closed", !.sent = 0, !.wire = <<>>]]
  /\ srv' = [Idle EXCEPT !.srcfd = srv.srcfd, !.filedata = srv.filedata]
  /\ UNCHANGED <<backlog, child, disk, stdout>>

doit ==
  \/ ReadRequest \/ read_requestheaders \/ Stat \/ Write
  \/ Open \/ ReadFile \/ CloseFile \/ Fork \/ Wait

main == Open_listenfd \/ Accept \/ doit \/ Close

----------------------------------------------------------------------------

Init ==
  /\ net = [c \in Client |-> NoConnection]
  /\ backlog = <<>>
  /\ srv = [Idle EXCEPT !.pc = "start"]
  /\ child = "none"
  /\ disk \in Disks
  /\ stdout = {}

Next ==
  \/ main
  \/ RunCgi
  \/ Edits
  \/ \E c \in Client : Connects(c) \/ Sends(c) \/ Ends(c) \/ Resets(c)

(* The two processes are scheduled, but a write may wait for ever for a    *)
(* client that does not read.  Nothing is asked of a client in Deaf; any   *)
(* other reads, and need not send.                                         *)
Unread(pc) == At(pc) /\ srv.connfd \in Deaf /\ Sock.peer \in {"up", "fin"}

Spec ==
  /\ Init /\ [][Next]_vars
  /\ WF_vars(main /\ ~Unread("write"))
  /\ WF_vars(RunCgi /\ ~Unread("wait"))

----------------------------------------------------------------------------
(* Properties *)

Sizes == {d.file.size : d \in Disks}

Process ==
  [pc : {"start", "accept", "request", "headers", "stat", "write", "open", "read", "served",
         "failed", "fork", "wait", "close", "down"},
   connfd : Client \cup {NONE}, req : Request \cup {NONE}, size : Sizes \cup {0},
   srcfd : {"closed", "open"},
   after : {NONE, "close", "open", "served", "failed", "fork"}]

TypeOK ==
  /\ \A c \in Client :
       /\ net[c].fd \in {"none", "queued", "open", "closed"}
       /\ net[c].script \in Scripts[c] \cup {<<>>} /\ net[c].sent \in 0 .. Len(net[c].script)
       /\ net[c].peer \in Peer
  /\ \A k \in DOMAIN backlog : backlog[k] \in Client
  /\ [f \in {"pc", "connfd", "req", "size", "srcfd", "after"} |-> srv[f]] \in Process
  /\ Len(srv.buf) < MAXLINE - 1 /\ Len(srv.rio) <= RIO_BUFSIZE
  /\ child \in {"none", "forked", "exited"}
  /\ stdout \subseteq Client

(* What doit was given, what rio_readlineb has of the next line, what its  *)
(* internal buffer holds and what the kernel holds are together what the   *)
(* client sent, in order, however it was cut into pieces: the carry-over   *)
(* from refill to refill and from line to line (rio_read, rio_readlineb).  *)
StreamIntact ==
  (srv.connfd # NONE /\ Sock.peer \in {"up", "fin"}) =>
    srv.taken \o srv.buf \o srv.rio \o Sock.wire = SubSeq(Sock.script, 1, Sock.sent)

(* The end of a header: a "crlf" on a line of its own.                     *)
IsHeaderEnd(script, k) == k \in 2 .. Len(script) /\ script[k] = "crlf" /\ script[k - 1] \in NewLine
HeaderSent(c) == \E k \in 1 .. net[c].sent : IsHeaderEnd(net[c].script, k)
(* No line is too long for a buffer.                                       *)
ShortLines(script) ==
  \A k \in 0 .. Len(script) - (MAXLINE - 1) : \E j \in 1 .. MAXLINE - 1 : script[k + j] \in NewLine

(* A client that stays connected is answered after the first empty line,   *)
(* and what it sent up to there was read and no more: read_requestheaders  *)
(* stops at the blank line and nowhere else, though a line can arrive in   *)
(* any number of pieces.  A line of MAXLINE - 1 characters or more is      *)
(* excepted: its rest can pass for a blank line.                           *)
AnswersAfterHeader ==
  (/\ srv.pc \in {"stat", "open", "read", "served", "failed", "fork", "wait"}
   /\ Sock.peer = "up" /\ ShortLines(Sock.script)) =>
    /\ IsHeaderEnd(Sock.script, Len(srv.taken))
    /\ \A k \in 1 .. Len(srv.taken) - 1 : ~IsHeaderEnd(Sock.script, k)

(* Between two connections the server holds nothing of the last one: its   *)
(* descriptor and the file's are closed, filedata is freed, the CGI child  *)
(* is reaped, whichever of the exits of doit and serve_static was taken.   *)
NothingHeld ==
  srv.pc = "accept" =>
    /\ srv.srcfd = "closed" /\ srv.filedata = NONE /\ child = "none"
    /\ \A c \in Client : net[c].fd # "open"

(* The complete answers to a request.  A file that shrinks after stat is   *)
(* filled up with junk to the promised length; one that cannot be read is  *)
(* reported after the header that promised it.                             *)
Body(n, m) == [k \in 1 .. n |-> IF k <= m THEN Block ELSE Junk]
FileAnswers(n) == {Header(n) \o Page("500")} \cup {Header(n) \o Body(n, m) : m \in 0 .. n}

PrintedText == {<<Printed(S)>> : S \in (SUBSET Client) \ {{}}}
CgiResults(req) == {adder(req.args)} \cup PrintedText

AnswersTo(req) ==
  IF req.uri = "devtools" THEN {<<>>}
  ELSE IF req.method \notin {"GET", "HEAD"} THEN {Page("501")}
  ELSE IF req.uri = "cgi"
  THEN {Page("404")} \cup {refusal \o Header(0) \o out : refusal \in {<<>>, Page("403")},
                                              out \in {<<>>} \cup CgiResults(req)}
  ELSE {Page("404"), Page("403")} \cup
       (IF req.method = "HEAD" THEN {Header(n) : n \in Sizes} ELSE UNION {FileAnswers(n) : n \in Sizes})

(* A client gets a prefix of one answer to its own request line, of as many*)
(* blocks as the header promised, and when it stayed connected the whole   *)
(* answer before the connection is closed: nothing of the request before   *)
(* it, which is still on the stack, and nothing of it to the next client.  *)
(* What follows the header of a CGI answer is excepted: where the program  *)
(* cannot be executed it is what tiny printed, of any client.              *)
OwnAnswer ==
  \A c \in {d \in Client : net[d].fd # "none"} :
    \E answer \in AnswersTo(RequestLine[net[c].script[1]]) :
      LET n == Len(net[c].got)
      IN  /\ n <= Len(answer) /\ net[c].got = SubSeq(answer, 1, n)
          /\ net[c].fd = "closed" /\ net[c].peer = "up" => net[c].got = answer

(* Every connection is accepted in the end, unless the process ends or one *)
(* client keeps the only thread for ever: it never sends the end of its    *)
(* header (it says no more, or it has ended, and read_requestheaders does  *)
(* not look whether it has), or it does not read what it is sent.          *)
Withholds(c) ==
  /\ srv.connfd = c /\ srv.pc \in {"request", "headers"}
  /\ HeaderSent(c) => net[c].peer # "up"
DoesNotRead(c) == srv.connfd = c /\ (Unread("write") \/ Unread("wait"))
EveryoneAccepted ==
  \/ \A c \in Client : net[c].fd = "queued" ~> net[c].fd # "queued" \/ srv.pc = "down"
  \/ \E c \in Client : <>[](Withholds(c) \/ DoesNotRead(c))
=============================================================================
