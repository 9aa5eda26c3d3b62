----------------------------- MODULE TinyProof ------------------------------
(***************************************************************************)
(* Proofs about Tiny, for any clients, scripts, files and sizes of the     *)
(* buffers: what the server holds between two connections, that the text of*)
(* a connection is put together right, where a header ends, and that every *)
(* client gets the answer to its own request.                              *)
(***************************************************************************)
EXTENDS Tiny, TLAPS, SequenceTheorems, WellFoundedInduction

Word == Token \cup {"junk"}
Text == Seq(Word)
Piece ==
  {Block, Junk, <<"page">>, <<"403">>, <<"404">>, <<"500">>, <<"501">>}
  \cup {<<"200", n>> : n \in Sizes \cup {0}} \cup {adder(req.args)[1] : req \in Request}
  \cup {Printed(S) : S \in (SUBSET Client) \ {{}}}
Output == Seq(Piece)

Connection ==
  [fd : {"none", "queued", "open", "closed"}, script : Text, sent : Nat, wire : Text,
   peer : Peer, got : Output]

Pc == {"start", "accept", "request", "headers", "stat", "write", "open", "read", "served",
       "failed", "fork", "wait", "close", "down"}

Server ==
  [pc : Pc, connfd : Client \cup {NONE}, taken : Text, buf : Text, rio : Text,
   req : Request \cup {NONE}, header : Text, size : Sizes \cup {0},
   srcfd : {"closed", "open"}, filedata : Output \cup {NONE}, unsent : Output,
   after : {NONE, "close", "open", "served", "failed", "fork"}]

(* What is typed.                                                          *)
ClientTyped(c, sock) ==
  /\ sock \in Connection
  /\ sock.script \in Scripts[c] \cup {<<>>}
  /\ sock.sent <= Len(sock.script)

ServerTyped(s, cgi) ==
  /\ s \in Server /\ cgi \in {"none", "forked", "exited"}
  /\ cgi # "none" <=> s.pc = "wait"
  /\ s.connfd = NONE <=> s.pc \in {"start", "accept", "down"}
  /\ s.pc \notin {"start", "accept", "down", "request", "close"} => s.req \in Request
  /\ s.pc = "read" => s.filedata \in Output
  /\ s.pc = "write" => s.after \in {"close", "open", "served", "failed", "fork"}
  /\ ~Complete(s.buf) /\ Len(s.rio) <= RIO_BUFSIZE

NetInv == net \in [Client -> Connection] /\ \A c \in Client : ClientTyped(c, net[c])

TypesInv ==
  /\ NetInv /\ backlog \in Seq(Client) /\ disk \in Disks
  /\ ServerTyped(srv, child)

(* Whatever is printed is about clients.                                   *)
PrintedInv == stdout \subseteq Client

(* Where the server goes when it has written.                              *)
GoalOf(s) == IF s.pc = "write" THEN s.after ELSE s.pc
Goal == GoalOf(srv)
Idling == srv.pc \in {"start", "accept"}

(* The connections: the one that is served is open, and those that wait are*)
(* in the backlog once.                                                    *)
QueueInv ==
  srv.pc # "down" =>
    /\ \A c \in Client :
         /\ net[c].fd = "open" <=> c = srv.connfd
         /\ net[c].fd = "queued" <=> \E k \in DOMAIN backlog : backlog[k] = c
    /\ \A j, k \in DOMAIN backlog : backlog[j] = backlog[k] => j = k

(* The file is open, and filedata allocated, only while it is served.      *)
FileClosed(s) == s.srcfd = "closed" /\ s.filedata = NONE
FileInv == Goal \in {"read", "served", "failed"} \/ FileClosed(srv)

HeldInv == QueueInv /\ FileInv

Listens(sock) == sock.peer \in {"up", "fin"}

(* The text of every connection.                                           *)
StreamInv ==
  /\ \A c \in Client :
       /\ net[c].fd # "none" => net[c].script \in Scripts[c]
       /\ net[c].fd = "queued" /\ Listens(net[c]) =>
            net[c].wire = SubSeq(net[c].script, 1, net[c].sent)
  /\ StreamIntact
  /\ Idling \/ At("request") => srv.taken = <<>>
  /\ Idling => srv.buf = <<>> /\ srv.rio = <<>>

(* The first n tokens of a script are lines, none of them the empty line   *)
(* that ends its header; or they are its header.                           *)
InHeader(script, n) ==
  n > 0 /\ script[n] \in NewLine /\ \A k \in 1 .. n : ~IsHeaderEnd(script, k)
AtHeaderEnd(script, n) ==
  IsHeaderEnd(script, n) /\ \A k \in 1 .. n - 1 : ~IsHeaderEnd(script, k)

(* The header that has been read, of a client that stays connected.        *)
PastHeader == Goal \in {"stat", "open", "read", "served", "failed", "fork", "wait"}
HeaderInv ==
  ~Idling /\ ~At("down") /\ Sock.peer = "up" /\ ShortLines(Sock.script) =>
    /\ At("headers") => InHeader(Sock.script, Len(srv.taken))
    /\ PastHeader => AtHeaderEnd(Sock.script, Len(srv.taken))

(* What a client asked for, and what it has when the server has written.   *)
Asked(sock) == RequestLine[sock.script[1]]
Out(s, sock) == sock.got \o (IF s.pc = "write" THEN s.unsent ELSE <<>>)
Refusals == {<<>>, Page("403")}

(* What it should have by then, of the answer to its request.              *)
Owed(s, cgi, peer, req, out) ==
  /\ GoalOf(s) \in {"request", "headers", "stat"} => out = <<>>
  /\ GoalOf(s) \notin {"request", "close"} => req.method \in {"GET", "HEAD"} /\ req.uri # "devtools"
  /\ GoalOf(s) \in {"open", "read", "served", "failed"} =>
       /\ req.uri = "file" /\ req.method = "GET" /\ s.size \in Sizes
       /\ GoalOf(s) \in {"open", "read"} => out = Header(s.size)
       /\ GoalOf(s) = "read" => \E m \in 0 .. s.size : s.filedata = [k \in 1 .. m |-> Block]
       /\ GoalOf(s) = "served" => \E m \in 0 .. s.size : out = Header(s.size) \o Body(s.size, m)
       /\ GoalOf(s) = "failed" => out = Header(s.size) \o Page("500")
  /\ GoalOf(s) \in {"fork", "wait"} =>
       /\ req.uri = "cgi"
       /\ \E refusal \in Refusals :
            \/ out = refusal \o Header(0)
            \/ cgi = "exited" /\ \E result \in CgiResults(req) :
                                    out = (refusal \o Header(0)) \o result
  /\ GoalOf(s) = "close" => out \in AnswersTo(req) \/ (peer = "fin" /\ out = <<>>)

(* While the client listens, the server answers the request it made.       *)
Answering(s, cgi, sock) ==
  Listens(sock) => /\ GoalOf(s) \notin {"request", "close"} => s.req = Asked(sock)
                   /\ Owed(s, cgi, sock.peer, Asked(sock), Out(s, sock))

IsBegun(answer, got) == Len(got) <= Len(answer) /\ got = SubSeq(answer, 1, Len(got))
Begun(sock) == \E answer \in AnswersTo(Asked(sock)) : IsBegun(answer, sock.got)

(* A client that is being served has the beginning of an answer, and one   *)
(* that was served the whole of it.                                        *)
Answered(sock) ==
  /\ sock.fd = "queued" => sock.got = <<>>
  /\ sock.fd # "none" => Begun(sock)
  /\ sock.fd = "closed" /\ sock.peer = "up" => sock.got \in AnswersTo(Asked(sock))

AnswerInv ==
  /\ \A c \in Client : Answered(net[c])
  /\ srv.pc \notin {"start", "accept", "down"} => Answering(srv, child, Sock)

(* What is held by and between the connections, and their text.            *)
ServedInv == TypesInv /\ PrintedInv /\ HeldInv /\ StreamInv

IInv == ServedInv /\ HeaderInv /\ AnswerInv

----------------------------------------------------------------------------

(* A text divided where its first n tokens end.                            *)
LEMMA Divided ==
  ASSUME NEW S, NEW s \in Seq(S), NEW n \in 0 .. Len(s)
  PROVE  /\ SubSeq(s, 1, n) \in Seq(S) /\ Skip(s, n) \in Seq(S)
         /\ Len(SubSeq(s, 1, n)) = n /\ Len(Skip(s, n)) = Len(s) - n
         /\ SubSeq(s, 1, n) \o Skip(s, n) = s
         /\ \A k \in 1 .. n : SubSeq(s, 1, n)[k] = s[k]
         /\ \A k \in 1 .. Len(s) - n : Skip(s, n)[k] = s[n + k]
<1>1. Len(s) \in Nat /\ \A k \in 1 .. Len(s) : s[k] \in S
  BY LenProperties, ElementOfSeq
<1>2. /\ SubSeq(s, 1, n) \in Seq(S) /\ Len(SubSeq(s, 1, n)) = n
      /\ \A k \in 1 .. n : SubSeq(s, 1, n)[k] = s[k]
  BY <1>1, SubSeqProperties
<1>3. /\ Skip(s, n) \in Seq(S) /\ Len(Skip(s, n)) = Len(s) - n
      /\ \A k \in 1 .. Len(s) - n : Skip(s, n)[k] = s[n + k]
  BY <1>1, SubSeqProperties DEF Skip
<1>4. SubSeq(s, 1, n) \o Skip(s, n) = SubSeq(s, 1, Len(s))
  <2>1. 1 \in 1 .. Len(s) + 1 /\ n \in 1 - 1 .. Len(s) /\ Len(s) \in n .. Len(s)
    BY <1>1
  <2> QED BY <2>1, ConcatAdjacentSubSeq DEF Skip
<1>5. SubSeq(s, 1, Len(s)) = s
  BY SubSeqFull
<1> QED BY <1>2, <1>3, <1>4, <1>5

(* Texts can be joined, in any order.                                      *)
LEMMA TextsJoin ==
  ASSUME NEW s \in Text, NEW t \in Text, NEW u \in Text
  PROVE  /\ (s \o t) \o u = s \o (t \o u)
         /\ s \o t \in Text /\ Len(s \o t) = Len(s) + Len(t)
         /\ s \o <<>> = s /\ <<>> \o s = s
<1> DEFINE S == Word
<1>1. s \in Seq(S) /\ t \in Seq(S) /\ u \in Seq(S)
  BY DEF Text
<1>2. Seq(S) = Text
  BY DEF Text
<1> HIDE DEF S
<1>3. (s \o t) \o u = s \o (t \o u)
  BY <1>1, ConcatAssociative
<1>4. s \o t \in Seq(S) /\ Len(s \o t) = Len(s) + Len(t)
  BY <1>1, ConcatProperties
<1>5. s \o <<>> = s /\ <<>> \o s = s
  BY <1>1, ConcatEmptySeq
<1> QED BY <1>2, <1>3, <1>4, <1>5

(* The line a text begins with ends at the first newline, or at the token  *)
(* that fills the buffer.                                                  *)
LEMMA LineEnds ==
  ASSUME NEW s \in Text, Complete(s)
  PROVE  /\ LineLength(s) \in 1 .. Len(s)
         /\ s[LineLength(s)] \in NewLine \/ Full(LineLength(s))
         /\ \A j \in 1 .. LineLength(s) - 1 : s[j] \notin NewLine /\ ~Full(j)
<1> DEFINE R == OpToRel(<, Nat)
           ends == {k \in DOMAIN s : s[k] \in NewLine \/ Full(k)}
<1>1. Len(s) \in Nat /\ DOMAIN s = 1 .. Len(s)
  BY LenProperties DEF Text
<1>2. PICK k \in ends : \A j \in ends : <<j, k>> \notin R
  <2>1. IsWellFoundedOn(R, Nat)
    BY NatLessThanWellFounded
  <2>2. ends \subseteq Nat /\ ends # {}
    BY <1>1 DEF Complete
  <2> HIDE DEF R, ends
  <2> QED BY <2>1, <2>2, WFMin
<1>3. ASSUME NEW j \in ends PROVE k <= j
  <2>1. j \in Nat /\ k \in Nat /\ (j < k => <<j, k>> \in R)
    BY <1>1 DEF OpToRel
  <2>2. <<j, k>> \notin R
    BY <1>2
  <2> HIDE DEF R, ends
  <2> QED BY <2>1, <2>2
<1>4. \A j \in 1 .. k - 1 : s[j] \notin NewLine /\ ~Full(j)
  BY <1>1, <1>3
<1> QED BY <1>1, <1>4 DEF LineLength

(* A line that is not complete leaves room in the buffer.                  *)
LEMMA Incomplete ==
  ASSUME NEW s \in Text, ~Complete(s)
  PROVE  Len(s) < MAXLINE - 1
<1>1. Len(s) \in Nat /\ DOMAIN s = 1 .. Len(s)
  BY LenProperties DEF Text
<1> QED BY <1>1, RioAssumption DEF Complete, Full

(* What read() and a step of rio_readlineb do to a connection.             *)
After(sock, later) ==
  \E wire \in Text, peer \in Peer :
    /\ later = [sock EXCEPT !.wire = wire, !.peer = peer]
    /\ peer # sock.peer => sock.peer = "reset" /\ peer = "broken"

(* read() takes text from the front of the kernel's buffer, at most        *)
(* RIO_BUFSIZE of it, or reports the end or the reset of the connection.   *)
LEMMA ReadOutcome ==
  ASSUME NEW sock \in Connection, NEW r \in read(sock)
  PROVE  /\ r.data \in Text /\ Len(r.data) <= RIO_BUFSIZE /\ r.rc \in Int
         /\ After(sock, r.sock)
         /\ r.rc > 0 => r.data \o r.sock.wire = sock.wire /\ r.sock.peer = sock.peer
         /\ r.rc = 0 => r.sock = sock /\ sock.peer \in {"fin", "broken"} /\ sock.wire = <<>>
         /\ r.rc < 0 => sock.peer = "reset" /\ r.sock.peer = "broken"
<1>1. sock.wire \in Seq(Word) /\ sock.peer \in Peer
  BY DEF Connection, Text
<1>2. CASE sock.wire # <<>>
  <2>1. PICK k \in 1 .. Least(Len(sock.wire), RIO_BUFSIZE) :
          r = [rc |-> k, data |-> SubSeq(sock.wire, 1, k), sock |-> [sock EXCEPT !.wire = Skip(@, k)]]
    BY <1>2 DEF read
  <2>2. k \in 0 .. Len(sock.wire) /\ k <= RIO_BUFSIZE /\ k > 0
    BY <1>1, LenProperties, RioAssumption DEF Least
  <2>3. /\ SubSeq(sock.wire, 1, k) \in Seq(Word) /\ Skip(sock.wire, k) \in Seq(Word)
        /\ Len(SubSeq(sock.wire, 1, k)) = k
        /\ SubSeq(sock.wire, 1, k) \o Skip(sock.wire, k) = sock.wire
    BY <1>1, <2>2, Divided
  <2>4. /\ r.rc = k /\ r.data = SubSeq(sock.wire, 1, k)
        /\ r.sock = [sock EXCEPT !.wire = Skip(sock.wire, k), !.peer = sock.peer]
        /\ r.sock.wire = Skip(sock.wire, k) /\ r.sock.peer = sock.peer
    BY <2>1 DEF Connection
  <2>5. After(sock, r.sock)
    BY <1>1, <2>3, <2>4 DEF After, Text
  <2> HIDE <2>1
  <2> QED BY <2>2, <2>3, <2>4, <2>5 DEF Text
<1>3. CASE sock.wire = <<>> /\ sock.peer = "reset"
  <2>1. r = [rc |-> -1, data |-> <<>>, sock |-> [sock EXCEPT !.peer = "broken"]]
    BY <1>3 DEF read
  <2>2. /\ r.rc = -1 /\ r.data = <<>> /\ r.sock.peer = "broken"
        /\ r.sock = [sock EXCEPT !.wire = <<>>, !.peer = "broken"]
    BY <1>3, <2>1 DEF Connection
  <2>3. <<>> \in Text /\ Len(<<>>) = 0 /\ "broken" \in Peer
    BY DEF Text, Peer
  <2>4. After(sock, r.sock)
    BY <1>3, <2>2, <2>3 DEF After
  <2> QED BY <1>3, <2>2, <2>3, <2>4, RioAssumption
<1>4. CASE sock.wire = <<>> /\ sock.peer # "reset"
  <2>1. r = [rc |-> 0, data |-> <<>>, sock |-> sock] /\ sock.peer \in {"fin", "broken"}
    BY <1>4 DEF read
  <2>2. sock = [sock EXCEPT !.wire = <<>>, !.peer = sock.peer]
    BY <1>4 DEF Connection
  <2>3. <<>> \in Text /\ Len(<<>>) = 0
    BY DEF Text
  <2>4. r.rc = 0 /\ r.data = <<>> /\ r.sock = sock
    BY <2>1
  <2>5. After(sock, r.sock)
    BY <1>1, <2>2, <2>3, <2>4, <1>4 DEF After
  <2> QED BY <1>4, <2>1, <2>3, <2>4, <2>5, RioAssumption
<1> QED BY <1>2, <1>3, <1>4

(* Nothing of the text is lost or doubled between what the line has, the   *)
(* internal buffer and the kernel, and a line that is returned while the   *)
(* client is connected is a whole one.                                     *)
WholeLine(line) ==
  LET n == Len(line)
  IN  /\ n > 0 /\ (line[n] \in NewLine \/ Full(n))
      /\ \A j \in 1 .. n - 1 : line[j] \notin NewLine /\ ~Full(j)

LineResult(buf, rio, sock, r) ==
  /\ r.buf \in Text /\ r.rio \in Text /\ Len(r.rio) <= RIO_BUFSIZE /\ r.rc \in Int
  /\ After(sock, r.sock)
  /\ Listens(sock) => (r.buf \o r.rio) \o r.sock.wire = (buf \o rio) \o sock.wire
  /\ ~r.done => ~Complete(r.buf)
  /\ r.done /\ r.rc < 0 => r.sock.peer = "broken"
  /\ r.done /\ r.rc = 0 => r.sock.peer \in {"fin", "broken"}
  /\ r.done /\ r.rc > 0 => r.buf # <<>>
  /\ r.done /\ r.sock.peer = "up" => r.rc > 0 /\ WholeLine(r.buf)

(* Every step of rio_readlineb has the outcome that is described above.    *)
LEMMA LineStep ==
  ASSUME NEW sock \in Connection, NEW buf \in Text, NEW rio \in Text,
         ~Complete(buf), Len(rio) <= RIO_BUFSIZE, NEW r \in rio_readlineb(buf, rio, sock)
  PROVE  LineResult(buf, rio, sock, r)
<1> DEFINE text == buf \o rio
<1>1. /\ text \in Text /\ Len(text) = Len(buf) + Len(rio)
      /\ Len(buf) \in Nat /\ Len(rio) \in Nat /\ DOMAIN buf = 1 .. Len(buf)
      /\ \A k \in 1 .. Len(buf) : text[k] = buf[k]
  BY ConcatProperties, LenProperties DEF Text
<1>2. sock.wire \in Text /\ sock.peer \in Peer
  BY DEF Connection
<1> HIDE DEF text
<1>3. CASE Complete(text)
  <2> DEFINE n == LineLength(text)
  <2>1. r = Returns(SubSeq(text, 1, n), n, Skip(text, n), sock)
    BY <1>3 DEF rio_readlineb, text
  <2>2. /\ n \in 1 .. Len(text) /\ (text[n] \in NewLine \/ Full(n))
        /\ \A j \in 1 .. n - 1 : text[j] \notin NewLine /\ ~Full(j)
    BY <1>1, <1>3, LineEnds
  <2> HIDE DEF n
  <2>3. /\ SubSeq(text, 1, n) \in Text /\ Skip(text, n) \in Text
        /\ Len(SubSeq(text, 1, n)) = n /\ Len(Skip(text, n)) = Len(text) - n
        /\ SubSeq(text, 1, n) \o Skip(text, n) = text
        /\ \A k \in 1 .. n : SubSeq(text, 1, n)[k] = text[k]
    <3>1. text \in Seq(Word) /\ n \in 0 .. Len(text)
      BY <1>1, <2>2 DEF Text
    <3> QED BY <3>1, Divided DEF Text
  <2>4. n > Len(buf)
    BY <1>1, <2>2 DEF Complete
  <2>5. After(sock, sock)
    <3>1. sock = [sock EXCEPT !.wire = sock.wire, !.peer = sock.peer]
      BY DEF Connection
    <3> QED BY <1>2, <3>1 DEF After
  <2>6. /\ r.buf = SubSeq(text, 1, n) /\ r.rio = Skip(text, n) /\ r.rc = n /\ r.done
        /\ r.sock = sock
    BY <2>1 DEF Returns
  <2>7. Len(r.buf) = n /\ n > 0 /\ r.buf # <<>> /\ Len(r.rio) <= RIO_BUFSIZE
    BY <1>1, <2>2, <2>3, <2>4, <2>6, RioAssumption
  <2>8. WholeLine(r.buf)
    BY <2>2, <2>3, <2>6, <2>7 DEF WholeLine
  <2>9. (r.buf \o r.rio) \o r.sock.wire = (buf \o rio) \o sock.wire
    BY <2>3, <2>6 DEF text
  <2>10. /\ r.buf \in Text /\ r.rio \in Text /\ Len(r.rio) <= RIO_BUFSIZE /\ r.rc \in Int
         /\ After(sock, r.sock) /\ r.rc > 0 /\ ~(r.rc < 0) /\ r.rc # 0
    BY <2>2, <2>3, <2>5, <2>6, <2>7
  <2> QED BY <2>6, <2>7, <2>8, <2>9, <2>10, Zenon DEF LineResult
<1>4. CASE ~Complete(text)
  <2>1. PICK q \in read(sock) :
          r = IF q.rc > 0
              THEN [done |-> FALSE, rc |-> 0, buf |-> text, rio |-> q.data, sock |-> q.sock]
              ELSE Returns(text, IF q.rc = 0 THEN Len(text) ELSE -1, <<>>, q.sock)
    BY <1>4 DEF rio_readlineb, text
  <2>2. /\ q.data \in Text /\ Len(q.data) <= RIO_BUFSIZE /\ q.rc \in Int
        /\ After(sock, q.sock)
        /\ q.rc > 0 => q.data \o q.sock.wire = sock.wire /\ q.sock.peer = sock.peer
        /\ q.rc = 0 => q.sock = sock /\ sock.peer \in {"fin", "broken"} /\ sock.wire = <<>>
        /\ q.rc < 0 => sock.peer = "reset" /\ q.sock.peer = "broken"
    BY ReadOutcome
  <2>3. q.sock.wire \in Text
    BY <2>2 DEF After, Connection
  <2>4. CASE q.rc > 0
    <3>1. /\ ~r.done /\ r.buf = text /\ r.rio = q.data /\ r.sock = q.sock /\ r.rc = 0
      BY <2>1, <2>4
    <3> HIDE <2>1
    <3>2. (text \o q.data) \o q.sock.wire = text \o (q.data \o q.sock.wire)
      BY <1>1, <2>2, <2>3, TextsJoin
    <3>3. (r.buf \o r.rio) \o r.sock.wire = (buf \o rio) \o sock.wire
      BY <2>2, <2>4, <3>1, <3>2 DEF text
    <3> QED BY <1>1, <1>4, <2>2, <3>1, <3>3 DEF LineResult
  <2>5. CASE ~(q.rc > 0)
    <3>1. /\ r.done /\ r.buf = text /\ r.rio = <<>> /\ r.sock = q.sock
          /\ r.rc = IF q.rc = 0 THEN Len(text) ELSE -1
      BY <2>1, <2>5 DEF Returns
    <3>2. Len(text) \in Nat /\ (text = <<>> <=> Len(text) = 0)
      BY <1>1, LenProperties, EmptySeq DEF Text
    <3>3. <<>> \in Text /\ Len(<<>>) = 0
      BY DEF Text
    <3>4. Listens(sock) => (r.buf \o r.rio) \o r.sock.wire = (buf \o rio) \o sock.wire
      <4>1. text \o <<>> = text
        BY <1>1, ConcatEmptySeq DEF Text
      <4>2. CASE q.rc = 0
        <5>1. r.buf \o r.rio = buf \o rio
          BY <3>1, <4>1 DEF text
        <5> QED BY <2>2, <3>1, <4>2, <5>1
      <4>3. CASE q.rc < 0
        BY <2>2, <4>3 DEF Listens
      <4>4. q.rc = 0 \/ q.rc < 0
        BY <2>2, <2>5
      <4> QED BY <4>2, <4>3, <4>4, Zenon
    <3>5. r.sock.peer # "up"
      BY <2>2, <2>5, <3>1
    <3>6. /\ r.rc < 0 => r.sock.peer = "broken"
          /\ r.rc = 0 => r.sock.peer \in {"fin", "broken"}
          /\ r.rc > 0 => r.buf # <<>>
      BY <2>2, <2>5, <3>1, <3>2
    <3>7. /\ r.buf \in Text /\ r.rio \in Text /\ Len(r.rio) <= RIO_BUFSIZE /\ r.rc \in Int
          /\ After(sock, r.sock)
      BY <1>1, <2>2, <3>1, <3>2, <3>3, RioAssumption
    <3> QED BY <3>1, <3>4, <3>5, <3>6, <3>7, Zenon DEF LineResult
  <2> QED BY <2>2, <2>4, <2>5
<1> QED BY <1>3, <1>4

(* The typed state has the types the model declares.                       *)
LEMMA TypesGiveTypeOK == TypesInv /\ PrintedInv => TypeOK
<1> SUFFICES ASSUME TypesInv, PrintedInv PROVE TypeOK
  OBVIOUS
<1>1. srv \in Server /\ child \in {"none", "forked", "exited"}
      /\ ~Complete(srv.buf) /\ Len(srv.rio) <= RIO_BUFSIZE
  BY DEF TypesInv, ServerTyped
<1>2. srv.buf \in Text
  BY <1>1 DEF Server
<1>3. Len(srv.buf) < MAXLINE - 1
  BY <1>1, <1>2, Incomplete
<1>4. [f \in {"pc", "connfd", "req", "size", "srcfd", "after"} |-> srv[f]] \in Process
  BY <1>1 DEF Server, Process, Pc
<1>5. \A k \in DOMAIN backlog : backlog[k] \in Client
  BY ElementOfSeq, LenProperties DEF TypesInv
<1>6. ASSUME NEW c \in Client
      PROVE  /\ net[c].fd \in {"none", "queued", "open", "closed"}
             /\ net[c].script \in Scripts[c] \cup {<<>>} /\ net[c].sent \in 0 .. Len(net[c].script)
             /\ net[c].peer \in Peer
  <2>1. net[c] \in Connection
    BY DEF TypesInv, NetInv
  <2>2. Len(net[c].script) \in Nat
    BY <2>1, LenProperties DEF Connection, Text
  <2> QED BY <2>1, <2>2 DEF TypesInv, NetInv, ClientTyped, Connection
<1> QED BY <1>1, <1>4, <1>5, <1>6, <1>3 DEF TypeOK, PrintedInv

(* One connection changes and the others do not.                           *)
LEMMA NetTyped ==
  ASSUME NetInv, NEW c \in Client, NEW v, ClientTyped(c, v), net' = [net EXCEPT ![c] = v]
  PROVE  NetInv'
<1>1. /\ net' \in [Client -> Connection] /\ net'[c] = v
      /\ \A d \in Client : d # c => net'[d] = net[d]
  BY DEF NetInv, ClientTyped
<1>2. \A d \in Client : ClientTyped(d, net'[d])
  BY <1>1 DEF NetInv
<1> QED BY <1>1, <1>2 DEF NetInv, ClientTyped

(* What the server starts and ends with.                                   *)
LEMMA EmptyTexts == /\ <<>> \in Text /\ <<>> \in Output /\ Len(<<>>) = 0 /\ ~Complete(<<>>)
  BY DEF Text, Output, Complete

(* A server with no connection, before the first, between two, and after   *)
(* the last.                                                               *)
LEMMA IdleTyped ==
  ASSUME NEW pc \in {"start", "accept", "down"}
  PROVE  ServerTyped([Idle EXCEPT !.pc = pc], "none")
<1>1. [Idle EXCEPT !.pc = pc] \in Server
  BY EmptyTexts DEF Idle, Server, Pc
<1> QED BY <1>1, EmptyTexts, RioAssumption DEF ServerTyped, Idle

(* A server that ended.                                                    *)
LEMMA DownTyped == ServerTyped(Down, "none")
  BY IdleTyped DEF Down

(* What main starts with is typed.                                         *)
LEMMA InitTyped == Init => TypesInv
<1> SUFFICES ASSUME Init PROVE TypesInv
  OBVIOUS
<1>1. NoConnection \in Connection
  BY EmptyTexts DEF NoConnection, Connection, Peer
<1>2. NetInv
  BY <1>1, EmptyTexts DEF Init, NetInv, ClientTyped, NoConnection
<1> QED BY <1>2, IdleTyped DEF Init, TypesInv

(* A sequence of one and the same element.                                 *)
LEMMA Repeated ==
  ASSUME NEW S, NEW x \in S, NEW n \in Int
  PROVE  /\ [k \in 1 .. n |-> x] \in Seq(S)
         /\ Len([k \in 1 .. n |-> x]) = IF n > 0 THEN n ELSE 0
<1> DEFINE s == [k \in 1 .. n |-> x]
           m == IF n > 0 THEN n ELSE 0
<1>1. m \in Nat /\ 1 .. n = 1 .. m
  OBVIOUS
<1>2. s \in [1 .. m -> S]
  BY <1>1
<1> HIDE DEF s, m
<1>3. s \in Seq(S)
  BY <1>1, <1>2, SeqDef
<1>4. Len(s) = m
  BY <1>1, <1>2, <1>3, LenProperties
<1> QED BY <1>3, <1>4 DEF s, m

(* What is written to a client.                                            *)
LEMMA PiecesTyped ==
  /\ \A code \in {"403", "404", "500", "501"} : Page(code) \in Output
  /\ \A n \in Sizes \cup {0} : Header(n) \in Output
  /\ \A req \in Request : adder(req.args) \in Output
  /\ \A req \in Request : CgiResults(req) \subseteq Output
  /\ Block \in Piece /\ Junk \in Piece
<1>1. \A code \in {"403", "404", "500", "501"} : Page(code) \in Output
  BY DEF Page, Output, Piece
<1>2. \A n \in Sizes \cup {0} : Header(n) \in Output
  BY DEF Header, Output, Piece
<1>3. ASSUME NEW req \in Request PROVE adder(req.args) \in Output
  <2>1. adder(req.args)[1] \in Piece
    BY DEF Piece
  <2>2. PICK x : adder(req.args) = <<x>>
    BY DEF adder
  <2> QED BY <2>1, <2>2 DEF Output
<1>4. PrintedText \subseteq Output
  <2> SUFFICES ASSUME NEW S \in (SUBSET Client) \ {{}} PROVE <<Printed(S)>> \in Output
    BY DEF PrintedText
  <2>1. Printed(S) \in Piece
    BY DEF Piece
  <2> QED BY <2>1 DEF Output
<1> QED BY <1>1, <1>2, <1>3, <1>4 DEF Piece, CgiResults

(* What a client may send is text.                                         *)
LEMMA ScriptIsText == \A c \in Client : Scripts[c] \subseteq Text
  BY ScriptsAssumption, SeqMonotonic DEF Text, Word

(* A client connects.                                                      *)
LEMMA ConnectsTyped ==
  ASSUME TypesInv, NEW c \in Client, Connects(c)
  PROVE  TypesInv'
<1>1. PICK script \in Scripts[c] :
        net' = [net EXCEPT ![c] = [NoConnection EXCEPT !.fd = "queued", !.script = script]]
  BY DEF Connects
<1> DEFINE v == [NoConnection EXCEPT !.fd = "queued", !.script = script]
<1>2. script \in Text /\ Len(script) \in Nat
  BY ScriptsAssumption, ScriptIsText, LenProperties DEF Text
<1>3. ClientTyped(c, v)
  <2>1. v \in Connection
    BY <1>2, EmptyTexts DEF NoConnection, Connection, Peer
  <2> QED BY <1>2, <2>1 DEF ClientTyped, NoConnection
<1> HIDE DEF v
<1>4. NetInv'
  BY <1>1, <1>3, NetTyped DEF TypesInv, v
<1>5. backlog' \in Seq(Client) /\ UNCHANGED <<srv, child, disk>>
  BY AppendProperties DEF Connects, TypesInv
<1> QED BY <1>4, <1>5 DEF TypesInv, ServerTyped, NetInv

(* A client sends more of its script.                                      *)
LEMMA SendsTyped ==
  ASSUME TypesInv, NEW c \in Client, Sends(c)
  PROVE  TypesInv'
<1>1. PICK k \in net[c].sent + 1 .. Len(net[c].script) :
        net' = [net EXCEPT ![c].sent = k,
                           ![c].wire = @ \o SubSeq(net[c].script, net[c].sent + 1, k)]
  BY DEF Sends
<1> DEFINE more == SubSeq(net[c].script, net[c].sent + 1, k)
           v == [net[c] EXCEPT !.sent = k, !.wire = @ \o more]
<1>2. /\ net[c] \in Connection /\ net[c].script \in Text /\ net[c].wire \in Text
      /\ net[c].sent \in Nat /\ ClientTyped(c, net[c]) /\ NetInv
  BY DEF TypesInv, NetInv, Connection
<1>3. Len(net[c].script) \in Nat /\ k \in Nat /\ k <= Len(net[c].script)
  BY <1>1, <1>2, LenProperties DEF Text
<1>4. more \in Text
  <2>1. ASSUME NEW i \in net[c].sent + 1 .. k PROVE net[c].script[i] \in Word
    <3>1. i \in 1 .. Len(net[c].script)
      BY <1>1, <1>2, <1>3
    <3> QED BY <1>2, <3>1, ElementOfSeq DEF Text
  <2> QED BY <1>2, <1>3, <2>1, SubSeqProperties DEF Text
<1> HIDE DEF more
<1>5. net[c].wire \o more \in Text
  BY <1>2, <1>4, TextsJoin
<1>6. v \in Connection
  BY <1>2, <1>3, <1>5 DEF Connection
<1>7. ClientTyped(c, v)
  BY <1>2, <1>3, <1>6 DEF ClientTyped, Connection
<1>8. net' = [net EXCEPT ![c] = v]
  BY <1>1, <1>2 DEF NetInv, Connection, more
<1> HIDE DEF v
<1>9. NetInv'
  BY <1>2, <1>7, <1>8, NetTyped
<1> QED BY <1>9 DEF Sends, TypesInv, ServerTyped

(* A client ends or resets its connection.                                 *)
LEMMA LeavesTyped ==
  ASSUME TypesInv, NEW c \in Client, Ends(c) \/ Resets(c)
  PROVE  TypesInv'
<1>1. PICK peer \in Peer, wire \in Text :
        net' = [net EXCEPT ![c] = [net[c] EXCEPT !.peer = peer, !.wire = wire]]
  <2>1. net[c] \in Connection /\ net[c].wire \in Text /\ net \in [Client -> Connection]
    BY DEF TypesInv, NetInv, Connection
  <2>2. CASE Ends(c)
    <3>1. net' = [net EXCEPT ![c] = [net[c] EXCEPT !.peer = "fin", !.wire = net[c].wire]]
      BY <2>1, <2>2 DEF Ends, Connection
    <3> QED BY <2>1, <3>1 DEF Peer
  <2>3. CASE Resets(c)
    <3>1. net' = [net EXCEPT ![c] = [net[c] EXCEPT !.peer = "reset", !.wire = <<>>]]
      BY <2>1, <2>3 DEF Resets, Connection
    <3> QED BY <3>1, EmptyTexts DEF Peer
  <2> QED BY <2>2, <2>3
<1> DEFINE v == [net[c] EXCEPT !.peer = peer, !.wire = wire]
<1>2. NetInv /\ ClientTyped(c, net[c])
  BY DEF TypesInv, NetInv
<1>3. ClientTyped(c, v)
  BY <1>2 DEF ClientTyped, Connection
<1> HIDE DEF v
<1>4. NetInv'
  BY <1>1, <1>2, <1>3, NetTyped DEF v
<1> QED BY <1>4 DEF Ends, Resets, TypesInv, ServerTyped

(* The process ends, before it has forked or after it has waited.          *)
LEMMA DiesTyped ==
  ASSUME TypesInv, unix_error, ~At("wait")
  PROVE  TypesInv'
<1>1. child = "none"
  BY DEF TypesInv, ServerTyped, At
<1>2. srv' = Down /\ backlog' = <<>> /\ UNCHANGED <<net, child, disk>>
  BY DEF unix_error
<1>3. ServerTyped(srv', child')
  BY <1>1, <1>2, DownTyped
<1>4. NetInv' /\ backlog' \in Seq(Client)
  BY <1>2 DEF TypesInv, NetInv, ClientTyped
<1> QED BY <1>2, <1>3, <1>4 DEF TypesInv

(* The server goes on and nothing else has changed.                        *)
LEMMA ContinuesTyped ==
  ASSUME TypesInv, NEW s, Continues(s), ServerTyped(s, child)
  PROVE  TypesInv'
<1>1. srv' = s /\ UNCHANGED <<net, backlog, child, disk>>
  BY DEF Continues
<1>2. NetInv'
  BY <1>1 DEF TypesInv, NetInv, ClientTyped
<1> QED BY <1>1, <1>2 DEF TypesInv

(* The server begins to write some tokens, before the CGI process is       *)
(* forked.                                                                 *)
LEMMA WritingTyped ==
  ASSUME NEW s, ServerTyped(s, "none"), s.connfd # NONE, s.req \in Request,
         NEW tokens \in Output, NEW after \in {"close", "open", "served", "failed", "fork"}
  PROVE  ServerTyped(Writing(s, tokens, after), "none")
<1> DEFINE w == Writing(s, tokens, after)
<1>1. w \in Server
  BY DEF Writing, ServerTyped, Server, Pc
<1>2. /\ w.pc = "write" /\ w.connfd = s.connfd /\ w.req = s.req /\ w.buf = s.buf /\ w.rio = s.rio
      /\ w.after = after
  BY DEF Writing, ServerTyped, Server
<1> HIDE DEF w
<1> QED BY <1>1, <1>2 DEF ServerTyped, w

(* The server is at a step with a connection.                              *)
LEMMA Serves ==
  ASSUME TypesInv, srv.pc \notin {"start", "accept", "down"}
  PROVE  /\ srv \in Server /\ srv.connfd \in Client /\ ClientTyped(srv.connfd, Sock)
         /\ NetInv /\ ServerTyped(srv, child) /\ (~At("wait") => child = "none")
<1>1. srv \in Server /\ NetInv /\ ServerTyped(srv, child) /\ srv.connfd # NONE
      /\ (~At("wait") => child = "none")
  BY DEF TypesInv, ServerTyped, At
<1>2. srv.connfd \in Client
  BY <1>1 DEF Server
<1> QED BY <1>1, <1>2 DEF NetInv, Sock

(* The oldest waiting connection is accepted.                              *)
LEMMA AcceptTyped ==
  ASSUME TypesInv, Accept
  PROVE  TypesInv'
<1> DEFINE c == Head(backlog)
           v == [net[c] EXCEPT !.fd = "open"]
           s == [srv EXCEPT !.pc = "request", !.connfd = c]
<1>1. c \in Client /\ backlog' \in Seq(Client)
  BY HeadTailProperties DEF Accept, TypesInv
<1> HIDE DEF c
<1>2. /\ srv' = s /\ UNCHANGED <<child, disk>>
  BY DEF Accept, c
<1>3. /\ net[c] \in Connection /\ NetInv /\ ClientTyped(c, net[c])
      /\ srv \in Server /\ child = "none" /\ ServerTyped(srv, child)
  BY <1>1 DEF TypesInv, NetInv, ServerTyped, Accept, At
<1>4. net' = [net EXCEPT ![c] = v]
  BY <1>1, <1>3 DEF Accept, c, NetInv
<1>5. ClientTyped(c, v)
  BY <1>3 DEF ClientTyped, Connection
<1> HIDE DEF v
<1>6. NetInv'
  BY <1>1, <1>3, <1>4, <1>5, NetTyped
<1>7. ServerTyped(s, "none")
  <2>1. s \in Server
    BY <1>1, <1>3 DEF Server, Pc
  <2>2. s.pc = "request" /\ s.connfd = c /\ s.buf = srv.buf /\ s.rio = srv.rio
    BY <1>3 DEF Server
  <2> HIDE DEF s
  <2> QED BY <1>1, <1>3, <2>1, <2>2, NoneAssumption DEF ServerTyped
<1> QED BY <1>1, <1>2, <1>3, <1>6, <1>7 DEF TypesInv

(* The line of a connection that is read.                                  *)
LEMMA LineTyped ==
  ASSUME TypesInv, srv.pc \in {"request", "headers"}, NEW r \in LineSteps
  PROVE  /\ LineResult(srv.buf, srv.rio, Sock, r) /\ ClientTyped(srv.connfd, r.sock)
         /\ net' = [net EXCEPT ![srv.connfd] = r.sock] => NetInv'
         /\ ~r.done => ServerTyped(Gathers(r), "none")
         /\ r.done => GotLine(r) \in Server
<1>1. /\ srv \in Server /\ srv.connfd \in Client /\ ClientTyped(srv.connfd, Sock)
      /\ NetInv /\ ServerTyped(srv, "none")
  BY Serves DEF At
<1>2. /\ srv.buf \in Text /\ srv.rio \in Text /\ ~Complete(srv.buf) /\ Len(srv.rio) <= RIO_BUFSIZE
      /\ Sock \in Connection
  BY <1>1 DEF Server, ServerTyped, ClientTyped
<1>3. LineResult(srv.buf, srv.rio, Sock, r)
  BY <1>2, LineStep DEF LineSteps
<1>4. /\ r.buf \in Text /\ r.rio \in Text /\ Len(r.rio) <= RIO_BUFSIZE /\ After(Sock, r.sock)
      /\ ~r.done => ~Complete(r.buf)
  BY <1>3 DEF LineResult
<1>5. ClientTyped(srv.connfd, r.sock)
  <2>1. PICK wire \in Text, peer \in Peer : r.sock = [Sock EXCEPT !.wire = wire, !.peer = peer]
    BY <1>4 DEF After
  <2>2. r.sock \in Connection /\ r.sock.script = Sock.script /\ r.sock.sent = Sock.sent
    BY <1>2, <2>1 DEF Connection
  <2> HIDE <2>1
  <2> QED BY <1>1, <2>2 DEF ClientTyped
<1>6. net' = [net EXCEPT ![srv.connfd] = r.sock] => NetInv'
  BY <1>1, <1>5, NetTyped
<1>7. ASSUME ~r.done PROVE ServerTyped(Gathers(r), "none")
  <2> DEFINE s == Gathers(r)
  <2>1. s \in Server
    BY <1>1, <1>4 DEF Gathers, Server
  <2>2. /\ s.pc = srv.pc /\ s.connfd = srv.connfd /\ s.req = srv.req
        /\ s.filedata = srv.filedata /\ s.after = srv.after
        /\ s.buf = r.buf /\ s.rio = r.rio
    BY <1>1 DEF Gathers, Server
  <2> HIDE DEF s
  <2>3. ServerTyped(s, "none")
    BY <1>1, <1>4, <1>7, <2>1, <2>2 DEF ServerTyped
  <2> QED BY <2>3 DEF s
<1>8. GotLine(r) \in Server
  <2>1. srv.taken \o r.buf \in Text
    BY <1>1, <1>4, TextsJoin DEF Server
  <2> QED BY <1>1, <1>4, <2>1, EmptyTexts DEF GotLine, Server
<1> QED BY <1>3, <1>5, <1>6, <1>7, <1>8

(* A line was read, and doit goes on with it.                              *)
LEMMA GotLineTyped ==
  ASSUME TypesInv, srv.pc \in {"request", "headers"}, NEW r \in LineSteps, r.done
  PROVE  LET s == GotLine(r)
         IN  /\ s \in Server /\ s.connfd = srv.connfd /\ s.connfd # NONE /\ s.pc = srv.pc
             /\ s.req = srv.req /\ s.rio = r.rio
             /\ Len(s.rio) <= RIO_BUFSIZE /\ s.buf = <<>> /\ s.taken = srv.taken \o r.buf
             /\ ServerTyped(s, "none")
<1> DEFINE s == GotLine(r)
<1>1. s \in Server /\ LineResult(srv.buf, srv.rio, Sock, r)
  BY LineTyped
<1>2. srv \in Server /\ srv.connfd \in Client /\ ServerTyped(srv, "none")
  BY Serves DEF At
<1>3. /\ s.connfd = srv.connfd /\ s.pc = srv.pc /\ s.req = srv.req
      /\ s.filedata = srv.filedata /\ s.after = srv.after
      /\ s.buf = <<>> /\ s.rio = r.rio /\ s.taken = srv.taken \o r.buf
  BY <1>2 DEF GotLine, Server
<1> HIDE DEF s
<1>4. Len(s.rio) <= RIO_BUFSIZE /\ s.connfd # NONE
  BY <1>1, <1>2, <1>3, NoneAssumption DEF LineResult
<1>5. ServerTyped(s, "none")
  BY <1>1, <1>2, <1>3, <1>4, EmptyTexts DEF ServerTyped
<1> QED BY <1>1, <1>3, <1>4, <1>5 DEF s

(* From the request line to the headers, an answer, or the end.            *)
LEMMA TakesTyped ==
  ASSUME NEW s, ServerTyped(s, "none"), s.connfd # NONE, NEW req \in Request
  PROVE  ServerTyped(Takes(s, req), "none")
<1> DEFINE t == [s EXCEPT !.req = req]
<1>1. s \in Server
  BY DEF ServerTyped
<1>2. /\ t \in Server /\ t.req = req /\ t.connfd = s.connfd /\ t.pc = s.pc /\ t.buf = s.buf
      /\ t.rio = s.rio /\ t.filedata = s.filedata /\ t.after = s.after
  BY <1>1 DEF Server
<1> HIDE DEF t
<1>3. ServerTyped(t, "none")
  BY <1>2 DEF ServerTyped
<1>4. CASE Takes(s, req) = [t EXCEPT !.pc = "close"]
  <2> DEFINE u == [t EXCEPT !.pc = "close"]
  <2>1. u \in Server /\ u.pc = "close" /\ u.connfd = t.connfd /\ u.buf = t.buf /\ u.rio = t.rio
    BY <1>2 DEF Server, Pc
  <2> HIDE DEF u
  <2>2. ServerTyped(u, "none")
    BY <1>2, <1>3, <2>1 DEF ServerTyped
  <2> QED BY <1>4, <2>2 DEF u
<1>5. CASE Takes(s, req) = [t EXCEPT !.pc = "headers"]
  <2> DEFINE u == [t EXCEPT !.pc = "headers"]
  <2>1. /\ u \in Server /\ u.pc = "headers" /\ u.connfd = t.connfd /\ u.buf = t.buf /\ u.rio = t.rio
        /\ u.req = t.req
    BY <1>2 DEF Server, Pc
  <2> HIDE DEF u
  <2>2. ServerTyped(u, "none")
    BY <1>2, <1>3, <2>1 DEF ServerTyped
  <2> QED BY <1>5, <2>2 DEF u
<1>6. CASE Takes(s, req) = clienterror(t, "501", "close")
  <2>1. Page("501") \in Output
    BY PiecesTyped
  <2> QED BY <1>2, <1>3, <1>6, <2>1, WritingTyped DEF clienterror
<1> QED BY <1>4, <1>5, <1>6 DEF Takes, t

(* Whatever sscanf finds or leaves on the stack is a request.              *)
LEMMA ParsedTyped == \A line : Parsed(line) \subseteq Request
  BY DEF Parsed, Request

(* A step of reading the request line.                                     *)
LEMMA ReadRequestTyped ==
  ASSUME TypesInv, ReadRequest
  PROVE  TypesInv'
<1>1. PICK r \in LineSteps :
        /\ net' = [net EXCEPT ![srv.connfd] = r.sock]
        /\ \/ ~r.done /\ srv' = Gathers(r)
           \/ r.done /\ r.rc = 0 /\ srv' = [GotLine(r) EXCEPT !.pc = "close"]
           \/ r.done /\ \E req \in Request : srv' = Takes(GotLine(r), req)
  BY ParsedTyped DEF ReadRequest
<1>2. srv.pc \in {"request", "headers"} /\ UNCHANGED <<backlog, child, disk>>
  BY DEF ReadRequest, At
<1>3. NetInv' /\ child = "none"
  BY <1>1, <1>2, LineTyped, Serves DEF At
<1>4. ServerTyped(srv', "none")
  <2>1. CASE ~r.done /\ srv' = Gathers(r)
    BY <1>2, <2>1, LineTyped
  <2>2. CASE r.done /\ r.rc = 0 /\ srv' = [GotLine(r) EXCEPT !.pc = "close"]
    <3> DEFINE s == GotLine(r)
               u == [s EXCEPT !.pc = "close"]
    <3>1. s \in Server /\ s.connfd # NONE /\ ServerTyped(s, "none")
      BY <1>2, <2>2, GotLineTyped
    <3> HIDE DEF s
    <3>2. u \in Server /\ u.pc = "close" /\ u.connfd = s.connfd /\ u.buf = s.buf /\ u.rio = s.rio
      BY <3>1 DEF Server, Pc
    <3> HIDE DEF u
    <3>3. ServerTyped(u, "none")
      BY <3>1, <3>2 DEF ServerTyped
    <3> QED BY <2>2, <3>3 DEF u, s
  <2>3. CASE r.done /\ \E req \in Request : srv' = Takes(GotLine(r), req)
    BY <1>2, <2>3, GotLineTyped, TakesTyped
  <2> QED BY <1>1, <2>1, <2>2, <2>3
<1> QED BY <1>2, <1>3, <1>4 DEF TypesInv

(* A step of reading the headers.                                          *)
LEMMA HeadersTyped ==
  ASSUME TypesInv, read_requestheaders
  PROVE  TypesInv'
<1>1. srv.pc \in {"request", "headers"} /\ srv.pc = "headers" /\ ~At("wait")
  BY DEF read_requestheaders, At
<1>2. PICK r \in LineSteps :
        \/ /\ net' = [net EXCEPT ![srv.connfd] = r.sock]
           /\ \/ ~r.done /\ srv' = Gathers(r)
              \/ r.done /\ \E header \in HeaderRead(r), pc \in {"stat", "headers"} :
                   srv' = [GotLine(r) EXCEPT !.header = header, !.pc = pc]
           /\ UNCHANGED <<backlog, child, disk>>
        \/ unix_error
  BY DEF read_requestheaders
<1>3. CASE unix_error
  BY <1>1, <1>3, DiesTyped
<1>4. CASE ~unix_error
  <2>1. NetInv' /\ child = "none" /\ UNCHANGED <<backlog, child, disk>>
    BY <1>1, <1>2, <1>4, LineTyped, Serves
  <2>2. CASE ~r.done /\ srv' = Gathers(r)
    <3>1. ServerTyped(srv', "none")
      BY <1>1, <2>2, LineTyped
    <3> QED BY <2>1, <3>1 DEF TypesInv
  <2>3. CASE r.done /\ \E header \in HeaderRead(r), pc \in {"stat", "headers"} :
                         srv' = [GotLine(r) EXCEPT !.header = header, !.pc = pc]
    <3> DEFINE s == GotLine(r)
    <3>1. PICK header \in HeaderRead(r), pc \in {"stat", "headers"} :
            srv' = [s EXCEPT !.header = header, !.pc = pc]
      BY <2>3
    <3>2. s \in Server /\ s.connfd # NONE /\ ServerTyped(s, "none") /\ s.pc = "headers"
      BY <1>1, <2>3, GotLineTyped
    <3>3. header \in Text
      <4>1. r.buf \in Text
        BY <1>1, LineTyped DEF LineResult
      <4>2. <<"crlf">> \in Text /\ Junk \in Text
        <5>1. "crlf" \in Word /\ "junk" \in Word
          BY DEF Word, Token, NewLine
        <5> QED BY <5>1 DEF Text, Junk
      <4>3. srv.header \in Text
        BY DEF TypesInv, ServerTyped, Server
      <4> QED BY <4>1, <4>2, <4>3 DEF HeaderRead
    <3> HIDE DEF s
    <3>4. /\ srv' \in Server /\ srv'.pc = pc /\ srv'.connfd = s.connfd /\ srv'.buf = s.buf
          /\ srv'.rio = s.rio /\ srv'.req = s.req
      BY <3>1, <3>2, <3>3 DEF Server, Pc
    <3>5. ServerTyped(srv', "none")
      BY <3>2, <3>4 DEF ServerTyped
    <3> QED BY <2>1, <3>5 DEF TypesInv
  <2> QED BY <1>2, <1>4, <2>2, <2>3
<1> QED BY <1>3, <1>4

(* What is written can be joined, in any order.                            *)
LEMMA OutputsJoin ==
  ASSUME NEW s \in Output, NEW t \in Output, NEW u \in Output
  PROVE  /\ (s \o t) \o u = s \o (t \o u)
         /\ s \o t \in Output /\ Len(s \o t) = Len(s) + Len(t)
         /\ s \o <<>> = s /\ <<>> \o s = s
<1> DEFINE S == Piece
<1>1. s \in Seq(S) /\ t \in Seq(S) /\ u \in Seq(S) /\ Seq(S) = Output
  BY DEF Output
<1> HIDE DEF S
<1>2. (s \o t) \o u = s \o (t \o u)
  BY <1>1, ConcatAssociative
<1>3. s \o t \in Seq(S) /\ Len(s \o t) = Len(s) + Len(t)
  BY <1>1, ConcatProperties
<1>4. s \o <<>> = s /\ <<>> \o s = s
  BY <1>1, ConcatEmptySeq
<1> QED BY <1>1, <1>2, <1>3, <1>4

(* The server has found the file, or not.                                  *)
LEMMA StatTyped ==
  ASSUME TypesInv, Stat
  PROVE  TypesInv'
<1>1. /\ srv \in Server /\ srv.pc = "stat" /\ srv.connfd # NONE /\ srv.req \in Request
      /\ ServerTyped(srv, "none") /\ child = "none" /\ disk \in Disks
  BY Serves, NoneAssumption DEF Stat, At, TypesInv, ServerTyped
<1>2. disk.file.size \in Sizes
  BY <1>1 DEF Sizes
<1>3. /\ \A code \in {"403", "404"} : Page(code) \in Output
      /\ Header(disk.file.size) \in Output /\ Header(0) \in Output /\ <<>> \in Output
  BY <1>2, PiecesTyped, EmptyTexts
<1>4. Page("403") \o Header(0) \in Output /\ <<>> \o Header(0) \in Output
  BY <1>3, OutputsJoin
<1> DEFINE t == [srv EXCEPT !.size = disk.file.size]
<1>5. ServerTyped(t, "none") /\ t.connfd # NONE /\ t.req \in Request
  <2>1. /\ t \in Server /\ t.pc = srv.pc /\ t.connfd = srv.connfd /\ t.req = srv.req
        /\ t.buf = srv.buf /\ t.rio = srv.rio
    BY <1>1, <1>2 DEF Server
  <2> HIDE DEF t
  <2> QED BY <1>1, <2>1 DEF ServerTyped
<1> HIDE DEF t
<1>6. \E s \in {srv, t}, tokens \in Output, after \in {"close", "open", "fork"} :
        Continues(Writing(s, tokens, after))
  BY <1>3, <1>4 DEF Stat, clienterror, t
<1> QED BY <1>1, <1>5, <1>6, WritingTyped, ContinuesTyped

(* A round of rio_writen, and what it leaves to be written.                *)
RoundResult(unsent, sock, r) ==
  /\ r.rc = "ok" => /\ r.sent \in Output /\ r.unsent \in Output
                    /\ r.sent \o r.unsent = unsent /\ r.sent # <<>> /\ Listens(sock)
  /\ r.rc = "error" => r.sock = [sock EXCEPT !.peer = "broken"]
  /\ r.rc # "ok" => ~Listens(sock)

(* A round of rio_writen divides what is left into what was sent and what  *)
(* is unsent.                                                              *)
LEMMA RoundTyped ==
  ASSUME NEW unsent \in Output, NEW sock \in Connection, NEW r \in WriteRounds(unsent, sock)
  PROVE  RoundResult(unsent, sock, r)
<1> USE DEF RoundResult
<1>1. CASE ~Listens(sock)
  <2>1. CASE sock.peer = "reset"
    <3>1. r = [rc |-> "error", sent |-> <<>>, unsent |-> unsent, sock |-> [sock EXCEPT !.peer = "broken"]]
      BY <2>1 DEF WriteRounds
    <3>2. r.rc = "error" /\ r.sock = [sock EXCEPT !.peer = "broken"]
      BY <3>1
    <3> HIDE <3>1
    <3> QED BY <1>1, <3>2
  <2>2. CASE sock.peer = "broken"
    <3>1. r.rc = "SIGPIPE"
      BY <2>2 DEF WriteRounds
    <3> QED BY <1>1, <3>1
  <2> QED BY <1>1, <2>1, <2>2 DEF Listens, Connection, Peer
<1>2. CASE Listens(sock)
  <2>1. PICK k \in 1 .. Len(unsent) :
          r = [rc |-> "ok", sent |-> SubSeq(unsent, 1, k), unsent |-> Skip(unsent, k), sock |-> sock]
    BY <1>2 DEF WriteRounds, Listens
  <2>2. Len(unsent) \in Nat /\ k \in 0 .. Len(unsent) /\ unsent # <<>>
    BY LenProperties, EmptySeq DEF Output
  <2>3. /\ SubSeq(unsent, 1, k) \in Output /\ Skip(unsent, k) \in Output
        /\ SubSeq(unsent, 1, k) \o Skip(unsent, k) = unsent
        /\ Len(SubSeq(unsent, 1, k)) = k
    BY <2>2, Divided DEF Output
  <2>4. SubSeq(unsent, 1, k) # <<>>
    BY <2>3, EmptyTexts
  <2> QED BY <1>2, <2>1, <2>2, <2>3, <2>4
<1> QED BY <1>1, <1>2

(* What one step of Write does.                                            *)
LEMMA WriteCases ==
  ASSUME TypesInv, Write
  PROVE  \/ /\ Listens(Sock) /\ UNCHANGED <<backlog, child, disk>>
            /\ \E sent \in Output, unsent \in Output :
                 /\ sent \o unsent = srv.unsent /\ sent # <<>>
                 /\ net' = [net EXCEPT ![srv.connfd] = [Sock EXCEPT !.got = Sock.got \o sent]]
                 /\ srv' = [srv EXCEPT !.unsent = unsent,
                                       !.pc = IF unsent = <<>> THEN srv.after ELSE "write"]
         \/ /\ ~Listens(Sock) /\ srv.after = "served" /\ UNCHANGED <<backlog, child, disk>>
            /\ net' = [net EXCEPT ![srv.connfd] = [Sock EXCEPT !.peer = "broken"]]
            /\ srv' = clienterror([srv EXCEPT !.srcfd = "closed", !.filedata = NONE], "500", "close")
         \/ unix_error
<1>1. /\ srv \in Server /\ srv.connfd \in Client /\ ClientTyped(srv.connfd, Sock) /\ NetInv
  BY Serves DEF Write, At
<1>2. srv.unsent \in Output /\ Sock \in Connection
  BY <1>1 DEF Server, ClientTyped
<1>3. PICK r \in WriteRounds(srv.unsent, Sock) :
       IF r.rc = "ok"
       THEN /\ net' = [net EXCEPT ![srv.connfd].got = @ \o r.sent]
            /\ srv' = [srv EXCEPT !.unsent = r.unsent,
                                  !.pc = IF r.unsent = <<>> THEN srv.after ELSE "write"]
            /\ UNCHANGED <<backlog, child, disk>>
       ELSE IF r.rc = "error" /\ srv.after = "served"
       THEN /\ net' = [net EXCEPT ![srv.connfd] = r.sock]
            /\ srv' = clienterror([srv EXCEPT !.srcfd = "closed", !.filedata = NONE], "500", "close")
            /\ UNCHANGED <<backlog, child, disk>>
       ELSE unix_error
  <2>1. srv.pc = "write"
    BY DEF Write, At
  <2>2. At("write") /\ srv.pc = "write"
    BY <2>1 DEF At
  <2> QED BY <2>2 DEF Write
<1>4. RoundResult(srv.unsent, Sock, r)
  BY <1>2, RoundTyped
<1>5. CASE r.rc = "ok"
  <2>1. net' = [net EXCEPT ![srv.connfd] = [Sock EXCEPT !.got = Sock.got \o r.sent]]
    BY <1>1, <1>2, <1>3, <1>5 DEF NetInv, Sock, Connection
  <2> QED BY <1>3, <1>4, <1>5, <2>1 DEF RoundResult
<1>6. CASE r.rc # "ok"
  BY <1>3, <1>4, <1>6 DEF RoundResult
<1> QED BY <1>5, <1>6

(* A round of rio_writen, with what the server does when it fails.         *)
LEMMA WriteTyped ==
  ASSUME TypesInv, Write
  PROVE  TypesInv'
<1>1. /\ srv \in Server /\ srv.pc = "write" /\ srv.connfd \in Client /\ ClientTyped(srv.connfd, Sock)
      /\ NetInv /\ ServerTyped(srv, "none") /\ child = "none"
  BY Serves DEF Write, At
<1>2. Sock \in Connection /\ srv.connfd # NONE
  BY <1>1, NoneAssumption DEF ClientTyped
<1>3. CASE unix_error
  BY <1>1, <1>3, DiesTyped DEF At
<1>4. ASSUME UNCHANGED <<backlog, child, disk>>, NEW sent \in Output, NEW unsent \in Output,
             net' = [net EXCEPT ![srv.connfd] = [Sock EXCEPT !.got = Sock.got \o sent]],
             srv' = [srv EXCEPT !.unsent = unsent,
                                !.pc = IF unsent = <<>> THEN srv.after ELSE "write"]
      PROVE  TypesInv'
  <2>1. Sock.got \o sent \in Output
    BY <1>2, <1>4, OutputsJoin DEF Connection
  <2>2. ClientTyped(srv.connfd, [Sock EXCEPT !.got = Sock.got \o sent])
    BY <1>1, <1>2, <2>1 DEF ClientTyped, Connection
  <2>3. NetInv'
    BY <1>1, <1>4, <2>2, NetTyped
  <2>4. PICK pc \in {"write", "close", "open", "served", "failed", "fork"} :
          srv' = [srv EXCEPT !.unsent = unsent, !.pc = pc]
    BY <1>1, <1>4 DEF ServerTyped
  <2>5. /\ srv' \in Server /\ srv'.pc = pc /\ srv'.connfd = srv.connfd /\ srv'.req = srv.req
        /\ srv'.buf = srv.buf /\ srv'.rio = srv.rio /\ srv'.after = srv.after
    BY <1>1, <1>4, <2>4 DEF Server, Pc
  <2>6. ServerTyped(srv', "none")
    BY <1>1, <2>5 DEF ServerTyped
  <2> QED BY <1>1, <1>4, <2>3, <2>6 DEF TypesInv
<1>5. CASE /\ UNCHANGED <<backlog, child, disk>>
           /\ net' = [net EXCEPT ![srv.connfd] = [Sock EXCEPT !.peer = "broken"]]
           /\ srv' = clienterror([srv EXCEPT !.srcfd = "closed", !.filedata = NONE], "500", "close")
  <2> DEFINE s == [srv EXCEPT !.srcfd = "closed", !.filedata = NONE]
  <2>1. ClientTyped(srv.connfd, [Sock EXCEPT !.peer = "broken"])
    BY <1>1, <1>2 DEF ClientTyped, Connection, Peer
  <2>2. NetInv'
    BY <1>1, <1>5, <2>1, NetTyped
  <2>3. /\ s \in Server /\ s.pc = "write" /\ s.connfd = srv.connfd /\ s.req = srv.req
        /\ s.buf = srv.buf /\ s.rio = srv.rio /\ s.after = srv.after
    BY <1>1 DEF Server
  <2>4. ServerTyped(s, "none") /\ s.req \in Request /\ s.connfd # NONE
    BY <1>1, <1>2, <2>3 DEF ServerTyped
  <2>5. srv' = Writing(s, Page("500"), "close")
    BY <1>5 DEF clienterror
  <2> HIDE DEF s
  <2>6. ServerTyped(srv', "none")
    BY <2>4, <2>5, PiecesTyped, WritingTyped
  <2> QED BY <1>1, <1>5, <2>2, <2>6 DEF TypesInv
<1> QED BY <1>3, <1>4, <1>5, WriteCases

(* The server takes another step with the same connection and request.     *)
LEMMA StepTyped ==
  ASSUME ServerTyped(srv, "none"), srv.pc \notin {"start", "accept", "down"},
         NEW s \in Server, s.connfd = srv.connfd, s.req = srv.req, s.buf = srv.buf, s.rio = srv.rio,
         s.pc \notin {"start", "accept", "down", "wait", "write"},
         srv.req \in Request \/ s.pc = "close", s.pc = "read" => s.filedata \in Output
  PROVE  ServerTyped(s, "none")
  BY DEF ServerTyped

(* The file is opened and memory is allocated for it.                      *)
LEMMA OpenTyped ==
  ASSUME TypesInv, Open
  PROVE  TypesInv'
<1>1. /\ srv \in Server /\ srv.pc = "open" /\ srv.req \in Request
      /\ ServerTyped(srv, "none") /\ child = "none"
  BY Serves DEF Open, At, ServerTyped
<1> DEFINE s == [srv EXCEPT !.pc = "read", !.srcfd = "open", !.filedata = <<>>]
<1>2. CASE unix_error
  BY <1>1, <1>2, DiesTyped DEF At
<1>3. CASE Continues(s)
  <2>1. /\ s \in Server /\ s.pc = "read" /\ s.connfd = srv.connfd /\ s.req = srv.req
        /\ s.buf = srv.buf /\ s.rio = srv.rio /\ s.filedata = <<>>
    BY <1>1, EmptyTexts DEF Server, Pc
  <2> HIDE DEF s
  <2>2. ServerTyped(s, "none")
    BY <1>1, <2>1, StepTyped, EmptyTexts
  <2> QED BY <1>1, <1>3, <2>2, ContinuesTyped
<1> QED BY <1>2, <1>3 DEF Open

(* What is read of a file is a part of it.                                 *)
LEMMA FileTyped ==
  ASSUME TypesInv
  PROVE  /\ Blocks(disk.file) \in Output /\ disk.file.size \in Nat /\ Len(Blocks(disk.file)) = disk.file.size
<1>1. disk.file.size \in Nat
  BY DisksAssumption DEF TypesInv
<1> DEFINE n == disk.file.size
<1> HIDE DEF n
<1>2. [k \in 1 .. n |-> Block] \in Seq(Piece) /\ Len([k \in 1 .. n |-> Block]) = n
  BY <1>1, PiecesTyped, Repeated DEF n
<1> QED BY <1>1, <1>2 DEF Blocks, Output, n

(* The size of a file is a number.                                         *)
LEMMA SizesAreNat == Sizes \subseteq Nat
  BY DisksAssumption DEF Sizes

(* A round of rio_readn on the file.                                       *)
LEMMA ReadRoundTyped ==
  ASSUME NEW got \in Output, NEW file \in Output, NEW n \in Nat, NEW data \in ReadRounds(got, file, n)
  PROVE  data \in Output
<1>1. PICK k \in Len(got) + 1 .. Least(n, Len(file)) : data = got \o SubSeq(file, Len(got) + 1, k)
  BY DEF ReadRounds
<1>2. Len(got) \in Nat /\ Len(file) \in Nat /\ k <= Len(file)
  BY <1>1, LenProperties DEF Output, Least
<1>3. SubSeq(file, Len(got) + 1, k) \in Output
  <2>1. ASSUME NEW j \in Len(got) + 1 .. k PROVE file[j] \in Piece
    <3>1. j \in 1 .. Len(file)
      BY <1>1, <1>2
    <3> QED BY <3>1, ElementOfSeq DEF Output
  <2> QED BY <1>1, <1>2, <2>1, SubSeqProperties DEF Output
<1> QED BY <1>1, <1>3, OutputsJoin

(* What one step of ReadFile does.                                         *)
LEMMA ReadFileCases ==
  ASSUME TypesInv, ReadFile
  PROVE  /\ srv.pc = "read" /\ srv.filedata \in Output /\ srv.size \in Nat
         /\ LET body == srv.filedata \o [k \in 1 .. srv.size - Len(srv.filedata) |-> Junk]
            IN  \/ \E data \in ReadRounds(srv.filedata, Blocks(disk.file), srv.size) :
                     data \in Output /\ Continues([srv EXCEPT !.filedata = data])
                \/ body \in Output /\ body = <<>> /\ Continues([srv EXCEPT !.pc = "served"])
                \/ body \in Output /\ Continues(Writing([srv EXCEPT !.filedata = body], body, "served"))
                \/ Continues(clienterror(srv, "500", "failed"))
<1> DEFINE rest == [k \in 1 .. srv.size - Len(srv.filedata) |-> Junk]
<1>1. srv.pc = "read" /\ srv.filedata \in Output /\ srv.size \in Nat
  BY SizesAreNat DEF ReadFile, At, TypesInv, ServerTyped, Server
<1>2. rest \in Output
  <2>1. srv.size - Len(srv.filedata) \in Int
    BY <1>1, LenProperties DEF Output
  <2> DEFINE n == srv.size - Len(srv.filedata)
  <2> HIDE DEF n
  <2>2. [k \in 1 .. n |-> Junk] \in Seq(Piece)
    BY <2>1, PiecesTyped, Repeated DEF n
  <2> QED BY <2>2 DEF n, Output
<1> HIDE DEF rest
<1>3. srv.filedata \o rest \in Output
  BY <1>1, <1>2, OutputsJoin
<1>4. \A data \in ReadRounds(srv.filedata, Blocks(disk.file), srv.size) : data \in Output
  BY <1>1, FileTyped, ReadRoundTyped
<1> QED BY <1>1, <1>3, <1>4 DEF ReadFile, rest

(* A round of rio_readn, or its end.                                       *)
LEMMA ReadFileTyped ==
  ASSUME TypesInv, ReadFile
  PROVE  TypesInv'
<1>1. /\ srv \in Server /\ srv.pc = "read" /\ srv.req \in Request /\ srv.connfd # NONE
      /\ ServerTyped(srv, "none") /\ child = "none"
  BY Serves, NoneAssumption DEF ReadFile, At, ServerTyped
<1>2. ASSUME NEW data \in Output
      PROVE  LET s == [srv EXCEPT !.filedata = data]
             IN  ServerTyped(s, "none") /\ s.connfd # NONE /\ s.req \in Request
  <2> DEFINE s == [srv EXCEPT !.filedata = data]
  <2>1. /\ s \in Server /\ s.pc = "read" /\ s.connfd = srv.connfd /\ s.req = srv.req
        /\ s.buf = srv.buf /\ s.rio = srv.rio /\ s.filedata = data
    BY <1>1 DEF Server
  <2> HIDE DEF s
  <2>2. ServerTyped(s, "none")
    BY <1>1, <2>1, StepTyped
  <2> QED BY <1>1, <2>1, <2>2 DEF s
<1>3. ServerTyped([srv EXCEPT !.pc = "served"], "none")
  <2> DEFINE s == [srv EXCEPT !.pc = "served"]
  <2>1. /\ s \in Server /\ s.pc = "served" /\ s.connfd = srv.connfd /\ s.req = srv.req
        /\ s.buf = srv.buf /\ s.rio = srv.rio
    BY <1>1 DEF Server, Pc
  <2> HIDE DEF s
  <2>2. ServerTyped(s, "none")
    BY <1>1, <2>1, StepTyped
  <2> QED BY <2>2 DEF s
<1>4. \E s : Continues(s) /\ ServerTyped(s, "none")
  <2>1. ASSUME NEW data \in Output
        PROVE  ServerTyped(Writing([srv EXCEPT !.filedata = data], data, "served"), "none")
    BY <1>2, WritingTyped
  <2>2. ServerTyped(clienterror(srv, "500", "failed"), "none")
    BY <1>1, PiecesTyped, WritingTyped DEF clienterror
  <2> QED BY <1>2, <1>3, <2>1, <2>2, ReadFileCases
<1> QED BY <1>1, <1>4, ContinuesTyped

(* serve_static is done with the file.                                     *)
LEMMA CloseFileTyped ==
  ASSUME TypesInv, CloseFile
  PROVE  TypesInv'
<1>1. /\ srv \in Server /\ srv.pc \in {"served", "failed"} /\ ServerTyped(srv, "none") /\ child = "none"
  BY Serves DEF CloseFile, At
<1> DEFINE s == [srv EXCEPT !.pc = "close", !.srcfd = "closed", !.filedata = NONE]
<1>2. /\ s \in Server /\ s.pc = "close" /\ s.connfd = srv.connfd /\ s.req = srv.req
      /\ s.buf = srv.buf /\ s.rio = srv.rio
  BY <1>1 DEF Server, Pc
<1>3. Continues(s)
  BY DEF CloseFile
<1> HIDE DEF s
<1>4. ServerTyped(s, "none")
  BY <1>1, <1>2, StepTyped
<1> QED BY <1>1, <1>3, <1>4, ContinuesTyped

(* The CGI process is forked.                                              *)
LEMMA ForkTyped ==
  ASSUME TypesInv, Fork
  PROVE  TypesInv'
<1>1. /\ srv \in Server /\ srv.pc = "fork" /\ srv.req \in Request /\ ServerTyped(srv, "none")
  BY Serves DEF Fork, At, ServerTyped
<1>2. CASE unix_error
  BY <1>1, <1>2, DiesTyped DEF At
<1>3. CASE /\ child' = "forked" /\ srv' = [srv EXCEPT !.pc = "wait"]
           /\ UNCHANGED <<net, backlog, disk>>
  <2>1. /\ srv' \in Server /\ srv'.pc = "wait" /\ srv'.connfd = srv.connfd /\ srv'.req = srv.req
        /\ srv'.buf = srv.buf /\ srv'.rio = srv.rio
    BY <1>1, <1>3 DEF Server, Pc
  <2>2. ServerTyped(srv', child')
    BY <1>1, <1>3, <2>1 DEF ServerTyped
  <2>3. NetInv'
    BY <1>3 DEF TypesInv, NetInv, ClientTyped
  <2> QED BY <1>3, <2>2, <2>3 DEF TypesInv
<1> QED BY <1>2, <1>3 DEF Fork

(* The CGI process writes its answer and exits, while the server waits for *)
(* it.                                                                     *)
LEMMA CgiOutputIs ==
  ASSUME PrintedInv, CgiOutput # <<>>
  PROVE  CgiOutput \in CgiResults(srv.req)
<1>1. CASE disk.cgi.mode = "ok"
  BY <1>1 DEF CgiOutput, CgiResults
<1>2. CASE disk.cgi.mode # "ok"
  <2>1. stdout # {} /\ CgiOutput = <<Printed(stdout)>>
    BY <1>2 DEF CgiOutput
  <2>2. stdout \in (SUBSET Client) \ {{}}
    BY <2>1 DEF PrintedInv
  <2>3. <<Printed(stdout)>> \in PrintedText
    BY <2>2 DEF PrintedText
  <2> QED BY <2>1, <2>3 DEF CgiResults
<1> QED BY <1>1, <1>2

LEMMA RunCgiTyped ==
  ASSUME TypesInv, PrintedInv, RunCgi
  PROVE  TypesInv'
<1>1. child = "forked" /\ srv.pc = "wait"
  BY DEF RunCgi, TypesInv, ServerTyped
<1>2. /\ srv \in Server /\ srv.connfd \in Client /\ ClientTyped(srv.connfd, Sock) /\ NetInv
      /\ ServerTyped(srv, child) /\ srv.req \in Request
  BY <1>1, Serves DEF ServerTyped
<1>3. Sock \in Connection /\ CgiOutput \in Output
  BY <1>2, CgiOutputIs, PiecesTyped, EmptyTexts DEF ClientTyped
<1>4. ASSUME net' = [net EXCEPT ![srv.connfd].got = @ \o CgiOutput]
      PROVE  NetInv'
  <2> DEFINE v == [Sock EXCEPT !.got = Sock.got \o CgiOutput]
  <2>1. Sock.got \o CgiOutput \in Output
    BY <1>3, OutputsJoin DEF Connection
  <2>2. ClientTyped(srv.connfd, v)
    BY <1>2, <1>3, <2>1 DEF ClientTyped, Connection
  <2>3. net' = [net EXCEPT ![srv.connfd] = v]
    BY <1>2, <1>3, <1>4 DEF NetInv, Connection, Sock
  <2> QED BY <1>2, <2>2, <2>3, NetTyped
<1>5. ASSUME net' = [net EXCEPT ![srv.connfd].peer = "broken"]
      PROVE  NetInv'
  <2> DEFINE v == [Sock EXCEPT !.peer = "broken"]
  <2>1. net' = [net EXCEPT ![srv.connfd] = v]
    BY <1>2, <1>3, <1>5 DEF NetInv, Connection, Sock
  <2>2. ClientTyped(srv.connfd, v)
    BY <1>2, <1>3 DEF ClientTyped, Connection, Peer
  <2> QED BY <1>2, <2>1, <2>2, NetTyped
<1>6. NetInv'
  <2>1. CASE UNCHANGED net
    BY <1>2, <2>1 DEF NetInv, ClientTyped
  <2> QED BY <1>4, <1>5, <2>1 DEF RunCgi
<1>7. ServerTyped(srv', child')
  <2>1. srv' = srv /\ child' = "exited"
    BY DEF RunCgi
  <2> QED BY <1>1, <1>2, <2>1 DEF ServerTyped
<1> QED BY <1>6, <1>7 DEF TypesInv, RunCgi

(* The CGI process is reaped.                                              *)
LEMMA WaitTyped ==
  ASSUME TypesInv, Wait
  PROVE  TypesInv'
<1>1. /\ srv \in Server /\ srv.pc = "wait" /\ ServerTyped(srv, child) /\ child' = "none"
      /\ srv' = [srv EXCEPT !.pc = "close"]
  BY Serves DEF Wait, At
<1>2. /\ srv' \in Server /\ srv'.pc = "close" /\ srv'.connfd = srv.connfd /\ srv'.req = srv.req
      /\ srv'.buf = srv.buf /\ srv'.rio = srv.rio
  BY <1>1 DEF Server, Pc
<1>3. ServerTyped(srv', child')
  BY <1>1, <1>2 DEF ServerTyped
<1>4. NetInv' /\ UNCHANGED <<backlog, disk>>
  BY DEF Wait, TypesInv, NetInv, ClientTyped
<1> QED BY <1>3, <1>4 DEF TypesInv

(* main closes the connection.                                             *)
LEMMA CloseTyped ==
  ASSUME TypesInv, Close
  PROVE  TypesInv'
<1>1. /\ srv \in Server /\ srv.pc = "close" /\ srv.connfd \in Client /\ ClientTyped(srv.connfd, Sock)
      /\ NetInv /\ ServerTyped(srv, "none") /\ child = "none"
  BY Serves DEF Close, At
<1> DEFINE v == [Sock EXCEPT !.fd = "closed", !.sent = 0, !.wire = <<>>]
           s == [Idle EXCEPT !.srcfd = srv.srcfd, !.filedata = srv.filedata]
<1>2. Sock \in Connection /\ Len(Sock.script) \in Nat
  BY <1>1, LenProperties DEF ClientTyped, Connection, Text
<1>3. net' = [net EXCEPT ![srv.connfd] = v]
  BY <1>1, <1>2 DEF Close, Sock, NetInv
<1>4. ClientTyped(srv.connfd, v)
  <2>1. v \in Connection
    BY <1>2, EmptyTexts DEF Connection
  <2>2. v.script = Sock.script /\ v.sent = 0
    BY <1>2 DEF Connection
  <2> HIDE DEF v
  <2> QED BY <1>1, <1>2, <2>1, <2>2 DEF ClientTyped
<1> HIDE DEF v
<1>5. NetInv'
  BY <1>1, <1>3, <1>4, NetTyped
<1>6. ServerTyped(s, "none")
  <2>1. s \in Server
    BY <1>1, EmptyTexts DEF Idle, Server, Pc
  <2>2. s.pc = "accept" /\ s.connfd = NONE /\ s.buf = <<>> /\ s.rio = <<>>
    BY DEF Idle
  <2> HIDE DEF s
  <2> QED BY <2>1, <2>2, EmptyTexts, RioAssumption DEF ServerTyped
<1> QED BY <1>1, <1>5, <1>6 DEF TypesInv, Close

(* The server listens, or cannot.                                          *)
LEMMA ListenTyped ==
  ASSUME TypesInv, Open_listenfd
  PROVE  TypesInv'
<1>1. child = "none" /\ ~At("wait")
  BY DEF TypesInv, ServerTyped, Open_listenfd, At
<1>2. unix_error \/ Continues(Idle)
  BY DEF Open_listenfd
<1>3. ServerTyped(Idle, "none")
  <2>1. Idle = [Idle EXCEPT !.pc = "accept"]
    BY DEF Idle
  <2> QED BY <2>1, IdleTyped
<1> QED BY <1>1, <1>2, <1>3, DiesTyped, ContinuesTyped

(* Every step of the program and of its clients keeps the types.           *)
LEMMA NextTyped == TypesInv /\ PrintedInv /\ [Next]_vars => TypesInv'
<1> SUFFICES ASSUME TypesInv, PrintedInv, [Next]_vars PROVE TypesInv'
  OBVIOUS
<1>1. CASE main
  BY <1>1, ListenTyped, AcceptTyped, ReadRequestTyped, HeadersTyped, StatTyped, WriteTyped, OpenTyped,
     ReadFileTyped, CloseFileTyped, ForkTyped, WaitTyped, CloseTyped DEF main, doit
<1>2. CASE Edits
  <2>1. disk' \in Disks /\ UNCHANGED <<net, backlog, srv, child>>
    BY <1>2 DEF Edits
  <2> QED BY <2>1 DEF TypesInv, NetInv, ClientTyped, ServerTyped
<1>3. CASE UNCHANGED vars
  BY <1>3 DEF vars, TypesInv, NetInv, ClientTyped, ServerTyped
<1> QED BY <1>1, <1>2, <1>3, RunCgiTyped, ConnectsTyped, SendsTyped, LeavesTyped DEF Next

(* The server prints about the client that it serves.                      *)
LEMMA PrintedStep == TypesInv /\ PrintedInv /\ [Next]_vars => PrintedInv'
<1> SUFFICES ASSUME TypesInv, PrintedInv, [Next]_vars PROVE PrintedInv'
  OBVIOUS
<1>1. ASSUME NEW c \in Client, printf(c) PROVE PrintedInv'
  BY <1>1 DEF printf, PrintedInv
<1>2. ASSUME stdout' \in {stdout, {}} PROVE PrintedInv'
  BY <1>2 DEF PrintedInv
<1>3. CASE Accept
  <2>1. Head(backlog) \in Client
    BY <1>3 DEF Accept, TypesInv
  <2> QED BY <1>1, <1>3, <2>1 DEF Accept
<1>4. ASSUME ReadRequest \/ read_requestheaders \/ Write PROVE srv.connfd \in Client
  BY <1>4, Serves DEF ReadRequest, read_requestheaders, Write, At
<1>5. CASE ReadRequest
  BY <1>1, <1>2, <1>4, <1>5 DEF ReadRequest
<1>6. CASE read_requestheaders
  BY <1>1, <1>2, <1>4, <1>6 DEF read_requestheaders, unix_error
<1>7. CASE Write
  BY <1>1, <1>2, <1>4, <1>7 DEF Write, unix_error
<1>8. CASE Open_listenfd \/ Stat \/ Open
  BY <1>2, <1>8 DEF Open_listenfd, Stat, Open, Continues, unix_error
<1>9. CASE ReadFile \/ CloseFile \/ Fork \/ Wait \/ Close \/ RunCgi
  BY <1>2, <1>9 DEF ReadFile, CloseFile, Fork, Wait, Close, RunCgi, Continues, unix_error
<1>10. CASE Edits \/ UNCHANGED vars \/ \E c \in Client : Connects(c) \/ Sends(c) \/ Ends(c) \/ Resets(c)
  BY <1>2, <1>10 DEF Edits, vars, Connects, Sends, Ends, Resets
<1> QED BY <1>3, <1>5, <1>6, <1>7, <1>8, <1>9, <1>10 DEF Next, main, doit

----------------------------------------------------------------------------
(* What is held                                                            *)

LEMMA FileStep == TypesInv /\ FileInv /\ [Next]_vars => FileInv'
<1> SUFFICES ASSUME TypesInv, FileInv, [Next]_vars PROVE FileInv'
  OBVIOUS
<1>1. srv \in Server /\ ServerTyped(srv, child)
  BY DEF TypesInv, ServerTyped
<1>2. CASE srv' \in {srv, Down, Idle}
  BY <1>2 DEF FileInv, Goal, GoalOf, FileClosed, Down, Idle
<1>3. ASSUME FileClosed(srv), srv'.srcfd = srv.srcfd, srv'.filedata = srv.filedata
      PROVE  FileInv'
  BY <1>3 DEF FileInv, FileClosed
<1>4. ASSUME srv.pc \notin {"write", "read", "served", "failed"}
      PROVE  FileClosed(srv)
  BY <1>4 DEF FileInv, Goal, GoalOf
<1>5. CASE Open_listenfd
  BY <1>2, <1>5 DEF Open_listenfd, unix_error, Continues
<1>6. CASE Accept
  BY <1>1, <1>3, <1>4, <1>6 DEF Accept, At, Server
<1>7. CASE ReadRequest
  <2>1. PICK r \in LineSteps :
          \/ srv' = Gathers(r) \/ srv' = [GotLine(r) EXCEPT !.pc = "close"]
          \/ \E req : srv' = Takes(GotLine(r), req)
    BY <1>7 DEF ReadRequest
  <2>2. srv'.srcfd = srv.srcfd /\ srv'.filedata = srv.filedata
    BY <1>1, <2>1 DEF Gathers, GotLine, Takes, clienterror, Writing, Server
  <2> QED BY <1>3, <1>4, <1>7, <2>2 DEF ReadRequest, At
<1>8. CASE read_requestheaders
  <2>1. PICK r \in LineSteps :
          \/ srv' = Gathers(r) \/ srv' = Down
          \/ \E header, pc : srv' = [GotLine(r) EXCEPT !.header = header, !.pc = pc]
    BY <1>8 DEF read_requestheaders, unix_error
  <2>2. CASE srv' # Down
    <3>1. srv'.srcfd = srv.srcfd /\ srv'.filedata = srv.filedata
      BY <1>1, <2>1, <2>2 DEF Gathers, GotLine, Server
    <3> QED BY <1>3, <1>4, <1>8, <3>1 DEF read_requestheaders, At
  <2> QED BY <1>2, <2>2
<1>9. CASE Stat
  <2>1. \E tokens, after : \/ srv' = Writing(srv, tokens, after)
                           \/ srv' = Writing([srv EXCEPT !.size = disk.file.size], tokens, after)
    BY <1>9 DEF Stat, Continues, clienterror
  <2>2. srv'.srcfd = srv.srcfd /\ srv'.filedata = srv.filedata
    BY <1>1, <2>1 DEF Writing, Server
  <2> QED BY <1>3, <1>4, <1>9, <2>2 DEF Stat, At
<1>10. CASE Write
  <2>1. CASE \E unsent : srv' = [srv EXCEPT !.unsent = unsent,
                                            !.pc = IF unsent = <<>> THEN srv.after ELSE "write"]
    <3>1. srv.pc = "write" /\ srv.after # "write"
      BY <1>1, <1>10 DEF Write, At, ServerTyped
    <3>2. /\ srv'.srcfd = srv.srcfd /\ srv'.filedata = srv.filedata /\ srv'.after = srv.after
          /\ srv'.pc \in {"write", srv.after}
      BY <1>1, <2>1 DEF Server
    <3> QED BY <3>1, <3>2 DEF FileInv, Goal, GoalOf, FileClosed
  <2>2. CASE srv' = clienterror([srv EXCEPT !.srcfd = "closed", !.filedata = NONE], "500", "close")
    <3>1. FileClosed(srv')
      BY <1>1, <2>2 DEF clienterror, Writing, Server, FileClosed
    <3> QED BY <3>1 DEF FileInv, FileClosed
  <2> QED BY <1>2, <1>10, <2>1, <2>2, WriteCases DEF unix_error
<1>11. CASE Open
  <2>1. srv' = Down \/ srv' = [srv EXCEPT !.pc = "read", !.srcfd = "open", !.filedata = <<>>]
    BY <1>11 DEF Open, unix_error, Continues
  <2>2. CASE srv' # Down
    <3>1. srv'.pc = "read"
      BY <1>1, <2>1, <2>2 DEF Server
    <3> QED BY <3>1 DEF FileInv, Goal, GoalOf
  <2> QED BY <1>2, <2>2
<1>12. CASE ReadFile
  <2>1. \/ \E data : srv' = [srv EXCEPT !.filedata = data]
        \/ srv' = [srv EXCEPT !.pc = "served"]
        \/ \E data, body : srv' = Writing([srv EXCEPT !.filedata = data], body, "served")
        \/ srv' = clienterror(srv, "500", "failed")
    BY <1>12, ReadFileCases DEF Continues
  <2>2. srv.pc = "read"
    BY <1>12 DEF ReadFile, At
  <2>3. \/ srv'.pc \in {"read", "served"}
        \/ srv'.pc = "write" /\ srv'.after \in {"served", "failed"}
    BY <1>1, <2>1, <2>2 DEF clienterror, Writing, Server
  <2> QED BY <2>3 DEF FileInv, Goal, GoalOf
<1>13. CASE CloseFile
  <2>1. FileClosed(srv')
    BY <1>1, <1>13 DEF CloseFile, Continues, Server, FileClosed
  <2> QED BY <2>1 DEF FileInv, FileClosed
<1>14. CASE Fork
  <2>1. srv' = Down \/ srv' = [srv EXCEPT !.pc = "wait"]
    BY <1>14 DEF Fork, unix_error
  <2>2. CASE srv' # Down
    <3>1. srv'.srcfd = srv.srcfd /\ srv'.filedata = srv.filedata
      BY <1>1, <2>1, <2>2 DEF Server
    <3> QED BY <1>3, <1>4, <1>14, <3>1 DEF Fork, At
  <2> QED BY <1>2, <2>2
<1>15. CASE Wait
  BY <1>1, <1>3, <1>4, <1>15 DEF Wait, At, Server
<1>16. CASE Close
  <2>1. srv'.srcfd = srv.srcfd /\ srv'.filedata = srv.filedata
    BY <1>16 DEF Close, Idle
  <2> QED BY <1>3, <1>4, <1>16, <2>1 DEF Close, At
<1>17. CASE \/ UNCHANGED vars \/ RunCgi \/ Edits
            \/ \E c \in Client : Connects(c) \/ Sends(c) \/ Ends(c) \/ Resets(c)
  <2>1. srv' = srv
    BY <1>17 DEF vars, RunCgi, Edits, Connects, Sends, Ends, Resets
  <2> QED BY <1>2, <2>1
<1> QED BY <1>5, <1>6, <1>7, <1>8, <1>9, <1>10, <1>11, <1>12, <1>13, <1>14, <1>15, <1>16, <1>17
        DEF Next, main, doit

(* The connection of one client changes, but not whether it is open.       *)
LEMMA FdKept ==
  ASSUME NetInv, NEW c \in Client, NEW v, v.fd = net[c].fd, net' = [net EXCEPT ![c] = v]
  PROVE  \A d \in Client : net'[d].fd = net[d].fd
  BY DEF NetInv

(* ... nor the queue, when the backlog and the server's connection stay.   *)
LEMMA QueueKept ==
  ASSUME QueueInv, \A c \in Client : net'[c].fd = net[c].fd, backlog' = backlog,
         srv'.connfd = srv.connfd, srv.pc # "down"
  PROVE  QueueInv'
  BY DEF QueueInv

----------------------------------------------------------------------------
(* What the steps do to the connections and the line that is read          *)

(* A connection keeps its text; a peer that is gone can be found out.      *)
SameText(new, old) ==
  /\ new.fd = old.fd /\ new.script = old.script /\ new.sent = old.sent /\ new.wire = old.wire
  /\ new.peer = old.peer \/ (~Listens(old) /\ ~Listens(new))

SameLine(new, old) ==
  new.connfd = old.connfd /\ new.taken = old.taken /\ new.buf = old.buf /\ new.rio = old.rio

(* From stat on nothing is read from the client.                           *)
LEMMA LaterSteps ==
  ASSUME TypesInv, Stat \/ Write \/ Open \/ ReadFile \/ CloseFile \/ Fork \/ Wait
  PROVE  \/ unix_error
         \/ /\ SameLine(srv', srv) /\ srv'.pc \notin {"request", "headers", "down"}
            /\ backlog' = backlog /\ srv.connfd \in Client
            /\ \A c \in Client : SameText(net'[c], net[c])
<1> SUFFICES ASSUME ~unix_error
             PROVE  /\ SameLine(srv', srv) /\ srv'.pc \notin {"request", "headers", "down"} /\ backlog' = backlog
                    /\ srv.connfd \in Client /\ \A c \in Client : SameText(net'[c], net[c])
  OBVIOUS
<1>1. /\ srv \in Server /\ srv.connfd \in Client /\ ClientTyped(srv.connfd, Sock) /\ NetInv
      /\ ServerTyped(srv, child)
  BY Serves DEF Stat, Write, Open, ReadFile, CloseFile, Fork, Wait, At
<1>2. Sock \in Connection
  BY <1>1 DEF ClientTyped
<1>3. ASSUME net' = net PROVE \A c \in Client : SameText(net'[c], net[c])
  BY <1>3 DEF SameText
<1>4. ASSUME NEW v, SameText(v, Sock), net' = [net EXCEPT ![srv.connfd] = v]
      PROVE  \A c \in Client : SameText(net'[c], net[c])
  BY <1>1, <1>4 DEF SameText, NetInv, Sock
<1>5. CASE Write
  <2>1. backlog' = backlog
    BY <1>5, WriteCases
  <2>2. CASE \E sent \in Output, unsent \in Output :
               /\ net' = [net EXCEPT ![srv.connfd] = [Sock EXCEPT !.got = Sock.got \o sent]]
               /\ srv' = [srv EXCEPT !.unsent = unsent,
                                     !.pc = IF unsent = <<>> THEN srv.after ELSE "write"]
    <3>1. PICK sent \in Output :
            net' = [net EXCEPT ![srv.connfd] = [Sock EXCEPT !.got = Sock.got \o sent]]
      BY <2>2
    <3>2. SameText([Sock EXCEPT !.got = Sock.got \o sent], Sock)
      BY <1>2 DEF SameText, Connection
    <3>3. srv.after \notin {"request", "headers", "down"}
      BY <1>1, <1>5 DEF Write, At, ServerTyped
    <3>4. SameLine(srv', srv) /\ srv'.pc \notin {"request", "headers", "down"}
      BY <1>1, <2>2, <3>3 DEF SameLine, Server
    <3> QED BY <1>1, <1>4, <2>1, <3>1, <3>2, <3>4
  <2>3. CASE /\ ~Listens(Sock)
             /\ net' = [net EXCEPT ![srv.connfd] = [Sock EXCEPT !.peer = "broken"]]
             /\ srv' = clienterror([srv EXCEPT !.srcfd = "closed", !.filedata = NONE], "500", "close")
    <3>1. SameText([Sock EXCEPT !.peer = "broken"], Sock)
      BY <1>2, <2>3 DEF SameText, Connection, Listens
    <3>2. SameLine(srv', srv) /\ srv'.pc \notin {"request", "headers", "down"}
      BY <1>1, <2>3 DEF SameLine, Server, clienterror, Writing
    <3> QED BY <1>1, <1>4, <2>1, <2>3, <3>1, <3>2
  <2> QED BY <1>5, <2>2, <2>3, WriteCases
<1>6. CASE ~Write
  <2>1. net' = net /\ backlog' = backlog
    BY <1>6 DEF Stat, Open, ReadFile, CloseFile, Fork, Wait, Continues
  <2>2. SameLine(srv', srv) /\ srv'.pc \notin {"request", "headers", "down"}
    <3>1. CASE Stat
      <4>1. \E tokens, after : \/ srv' = Writing(srv, tokens, after)
                               \/ srv' = Writing([srv EXCEPT !.size = disk.file.size], tokens, after)
        BY <3>1 DEF Stat, Continues, clienterror
      <4> QED BY <1>1, <4>1 DEF SameLine, Server, Writing
    <3>2. CASE ReadFile
      <4>1. \/ \E data : srv' = [srv EXCEPT !.filedata = data]
            \/ srv' = [srv EXCEPT !.pc = "served"]
            \/ \E data, body : srv' = Writing([srv EXCEPT !.filedata = data], body, "served")
            \/ srv' = clienterror(srv, "500", "failed")
        BY <3>2, ReadFileCases DEF Continues
      <4>2. srv.pc = "read"
        BY <3>2 DEF ReadFile, At
      <4> QED BY <1>1, <4>1, <4>2 DEF SameLine, Server, Writing, clienterror
    <3>3. CASE Open \/ CloseFile \/ Fork \/ Wait
      BY <1>1, <3>3 DEF SameLine, Server, Open, CloseFile, Fork, Wait, Continues
    <3> QED BY <1>6, <3>1, <3>2, <3>3
  <2> QED BY <1>1, <1>3, <2>1, <2>2
<1> QED BY <1>5, <1>6

(* A step of rio_readlineb moves text from the kernel to the line, and a   *)
(* line that is done to what doit has taken.                               *)
LineEffect(r) ==
  /\ LineResult(srv.buf, srv.rio, Sock, r)
  /\ net' = [net EXCEPT ![srv.connfd] = r.sock] /\ backlog' = backlog
  /\ srv'.connfd = srv.connfd /\ srv'.rio = r.rio
  /\ srv'.pc \in {"request", "headers", "stat", "write", "close"}
  /\ srv'.pc = "write" => srv'.after = "close"
  /\ srv'.pc = "stat" => srv.pc = "headers"
  /\ srv.pc = "headers" /\ r.done /\ r.rc > 0 =>
       srv'.pc = IF r.buf = <<"crlf">> THEN "stat" ELSE "headers"
  /\ r.done => srv'.buf = <<>> /\ srv'.taken = srv.taken \o r.buf /\ srv'.pc # "request"
  /\ ~r.done => srv'.buf = r.buf /\ srv'.taken = srv.taken /\ srv'.pc = srv.pc

(* The steps of doit that read a line, the request line or a header, have  *)
(* that effect.                                                            *)
LEMMA ReadsLine ==
  ASSUME TypesInv, ReadRequest \/ read_requestheaders
  PROVE  unix_error \/ \E r \in LineSteps : LineEffect(r)
<1> SUFFICES ASSUME ~unix_error PROVE \E r \in LineSteps : LineEffect(r)
  OBVIOUS
<1>1. srv.pc \in {"request", "headers"}
  BY DEF ReadRequest, read_requestheaders, At
<1>2. srv \in Server
  BY <1>1, Serves
<1> DEFINE Asks(r) == \/ srv' = [GotLine(r) EXCEPT !.pc = "close"]
                      \/ \E req \in Request : srv' = Takes(GotLine(r), req)
           Reads(r, header) ==
             srv' = [GotLine(r) EXCEPT !.header = header,
                                       !.pc = IF HeaderEnds(header) THEN "stat" ELSE "headers"]
           Moves(r) ==
             /\ net' = [net EXCEPT ![srv.connfd] = r.sock] /\ backlog' = backlog
             /\ \/ ~r.done /\ srv' = Gathers(r)
                \/ r.done /\ srv.pc = "request" /\ Asks(r)
                \/ r.done /\ srv.pc = "headers" /\ \E header \in HeaderRead(r) : Reads(r, header)
<1>3. PICK r \in LineSteps : Moves(r)
  <2>1. CASE ReadRequest
    BY <2>1, ParsedTyped DEF ReadRequest, At
  <2>2. CASE read_requestheaders
    BY <2>2 DEF read_requestheaders, At
  <2> QED BY <2>1, <2>2
<1>4. LineResult(srv.buf, srv.rio, Sock, r)
  BY <1>1, LineTyped
<1>5. net' = [net EXCEPT ![srv.connfd] = r.sock] /\ backlog' = backlog
  BY <1>3
<1>6. CASE ~r.done
  BY <1>1, <1>2, <1>3, <1>4, <1>5, <1>6 DEF LineEffect, Gathers, Server
<1>7. CASE r.done
  <2> DEFINE s == GotLine(r)
  <2>1. /\ s \in Server /\ s.connfd = srv.connfd /\ s.pc = srv.pc /\ s.rio = r.rio /\ s.buf = <<>>
        /\ s.taken = srv.taken \o r.buf
    BY <1>1, <1>7, GotLineTyped
  <2> HIDE DEF s
  <2>2. CASE srv.pc = "request"
    <3>1. \/ srv' = [s EXCEPT !.pc = "close"]
          \/ \E req \in Request : srv' = Takes(s, req)
      BY <1>3, <1>7, <2>2 DEF s
    <3>2. /\ srv'.connfd = s.connfd /\ srv'.rio = s.rio /\ srv'.buf = s.buf /\ srv'.taken = s.taken
          /\ srv'.pc \in {"headers", "write", "close"}
          /\ srv'.pc = "write" => srv'.after = "close"
      BY <2>1, <3>1 DEF Server, Takes, clienterror, Writing
    <3> QED BY <1>4, <1>5, <1>7, <2>1, <2>2, <3>2 DEF LineEffect
  <2>3. CASE srv.pc = "headers"
    <3>1. PICK header \in HeaderRead(r) :
            srv' = [s EXCEPT !.header = header, !.pc = IF HeaderEnds(header) THEN "stat" ELSE "headers"]
      BY <1>3, <1>7, <2>3 DEF s
    <3>2. /\ srv'.connfd = s.connfd /\ srv'.rio = s.rio /\ srv'.buf = s.buf /\ srv'.taken = s.taken
          /\ srv'.pc = IF HeaderEnds(header) THEN "stat" ELSE "headers"
      BY <2>1, <3>1 DEF Server
    <3>3. r.rc > 0 => header = r.buf
      BY <3>1 DEF HeaderRead
    <3> QED BY <1>4, <1>5, <1>7, <2>1, <2>3, <3>2, <3>3 DEF LineEffect, HeaderEnds
  <2> QED BY <1>1, <2>2, <2>3
<1> QED BY <1>6, <1>7

(* What a client does or the CGI program does to the connections: the      *)
(* server stands where it stood.                                           *)
LEMMA CgiStep ==
  ASSUME TypesInv, RunCgi
  PROVE  /\ srv.pc = "wait" /\ srv' = srv /\ backlog' = backlog /\ child' = "exited"
         /\ srv.connfd \in Client /\ \A c \in Client : SameText(net'[c], net[c])
<1>1. child = "forked" /\ srv.pc = "wait"
  BY DEF RunCgi, TypesInv, ServerTyped
<1>2. srv.connfd \in Client /\ Sock \in Connection /\ net \in [Client -> Connection]
  BY <1>1, Serves DEF ClientTyped, NetInv
<1>3. PICK v : net' = [net EXCEPT ![srv.connfd] = v] /\ SameText(v, Sock)
  <2>1. CASE net' = [net EXCEPT ![srv.connfd].got = @ \o CgiOutput]
    <3>1. net' = [net EXCEPT ![srv.connfd] = [Sock EXCEPT !.got = Sock.got \o CgiOutput]]
      BY <1>2, <2>1 DEF Connection, Sock
    <3>2. SameText([Sock EXCEPT !.got = Sock.got \o CgiOutput], Sock)
      BY <1>2 DEF SameText, Connection
    <3> QED BY <3>1, <3>2
  <2>2. CASE Sock.peer \notin {"up", "fin"} /\ net' = [net EXCEPT ![srv.connfd].peer = "broken"]
    <3>1. net' = [net EXCEPT ![srv.connfd] = [Sock EXCEPT !.peer = "broken"]]
      BY <1>2, <2>2 DEF Connection, Sock
    <3>2. SameText([Sock EXCEPT !.peer = "broken"], Sock)
      BY <1>2, <2>2 DEF SameText, Connection, Listens
    <3> QED BY <3>1, <3>2
  <2>3. CASE UNCHANGED net
    <3>1. net' = [net EXCEPT ![srv.connfd] = Sock] /\ SameText(Sock, Sock)
      BY <1>2, <2>3 DEF Sock, SameText
    <3> QED BY <3>1
  <2> QED BY <2>1, <2>2, <2>3 DEF RunCgi
<1>4. \A c \in Client : SameText(net'[c], net[c])
  BY <1>2, <1>3 DEF SameText, Sock
<1> QED BY <1>1, <1>2, <1>4 DEF RunCgi

(* A client sends more of its script, ends the connection or resets it.    *)
LEMMA ClientStep ==
  ASSUME TypesInv, NEW c \in Client, Sends(c) \/ Ends(c) \/ Resets(c)
  PROVE  /\ net[c].fd \in {"queued", "open"} /\ UNCHANGED <<backlog, srv, child, disk>>
         /\ \E v : /\ net' = [net EXCEPT ![c] = v]
                   /\ v.fd = net[c].fd /\ v.script = net[c].script /\ v.got = net[c].got
                   /\ \/ /\ v.peer = "up" /\ net[c].peer = "up" /\ v.sent \in net[c].sent .. Len(net[c].script)
                         /\ v.wire = net[c].wire \o SubSeq(net[c].script, net[c].sent + 1, v.sent)
                      \/ /\ v.peer = "fin" /\ net[c].peer = "up"
                         /\ v.sent = net[c].sent /\ v.wire = net[c].wire
                      \/ v.peer = "reset"
<1> DEFINE sock == net[c]
<1>1. net \in [Client -> Connection] /\ sock \in Connection
  BY DEF TypesInv, NetInv
<1>2. sock.sent \in Nat /\ Len(sock.script) \in Nat
  BY <1>1, LenProperties DEF Connection, Text
<1>3. sock.fd \in {"queued", "open"} /\ UNCHANGED <<backlog, srv, child, disk>>
  BY DEF Sends, Ends, Resets, Connected
<1>4. CASE Sends(c)
  <2>1. PICK k \in sock.sent + 1 .. Len(sock.script) :
          net' = [net EXCEPT ![c].sent = k, ![c].wire = @ \o SubSeq(sock.script, sock.sent + 1, k)]
    BY <1>4 DEF Sends
  <2> DEFINE more == SubSeq(sock.script, sock.sent + 1, k)
             v == [sock EXCEPT !.sent = k, !.wire = sock.wire \o more]
  <2>2. net' = [net EXCEPT ![c] = v]
    BY <1>1, <2>1 DEF Connection
  <2>3. sock.peer = "up" /\ k \in sock.sent .. Len(sock.script)
    BY <1>2, <1>4, <2>1 DEF Sends
  <2>4. /\ v.fd = sock.fd /\ v.script = sock.script /\ v.got = sock.got /\ v.peer = sock.peer
        /\ v.sent = k /\ v.wire = sock.wire \o SubSeq(sock.script, sock.sent + 1, k)
    BY <1>1 DEF Connection
  <2> HIDE DEF v
  <2> QED BY <1>3, <2>2, <2>3, <2>4
<1>5. CASE Ends(c)
  <2> DEFINE v == [sock EXCEPT !.peer = "fin"]
  <2>1. net' = [net EXCEPT ![c] = v] /\ sock.peer = "up"
    BY <1>1, <1>5 DEF Ends, Connection
  <2>2. /\ v.fd = sock.fd /\ v.script = sock.script /\ v.got = sock.got /\ v.peer = "fin"
        /\ v.sent = sock.sent /\ v.wire = sock.wire
    BY <1>1 DEF Connection
  <2> HIDE DEF v
  <2> QED BY <1>3, <2>1, <2>2
<1>6. CASE Resets(c)
  <2> DEFINE v == [sock EXCEPT !.peer = "reset", !.wire = <<>>]
  <2>1. net' = [net EXCEPT ![c] = v]
    BY <1>1, <1>6 DEF Resets, Connection
  <2>2. v.fd = sock.fd /\ v.script = sock.script /\ v.got = sock.got /\ v.peer = "reset"
    BY <1>1 DEF Connection
  <2> HIDE DEF v
  <2> QED BY <1>3, <2>1, <2>2
<1> QED BY <1>4, <1>5, <1>6

(* Every step keeps the queue: a connection waits in the backlog once, is  *)
(* open only while it is served, and is served only when it was accepted.  *)
LEMMA QueueStep == TypesInv /\ QueueInv /\ [Next]_vars => QueueInv'
<1> SUFFICES ASSUME TypesInv, QueueInv, [Next]_vars, srv'.pc # "down" PROVE QueueInv'
  BY DEF QueueInv
<1>1. /\ ServerTyped(srv, child) /\ srv \in Server /\ NetInv /\ net \in [Client -> Connection]
      /\ backlog \in Seq(Client) /\ NONE \notin Client
  BY NoneAssumption DEF TypesInv, ServerTyped, NetInv
<1>2. ~unix_error
  BY DEF unix_error, Down, Idle
<1>3. CASE UNCHANGED vars \/ Edits
  BY <1>3 DEF vars, Edits, QueueInv
<1>4. CASE RunCgi
  BY <1>4, CgiStep, QueueKept DEF SameText
<1>5. CASE Stat \/ Write \/ Open \/ ReadFile \/ CloseFile \/ Fork \/ Wait
  <2>1. srv.pc # "down"
    BY <1>5 DEF Stat, Write, Open, ReadFile, CloseFile, Fork, Wait, At
  <2> QED BY <1>2, <1>5, <2>1, LaterSteps, QueueKept DEF SameText, SameLine
<1>6. CASE ReadRequest \/ read_requestheaders
  <2>1. PICK r \in LineSteps : LineEffect(r)
    BY <1>2, <1>6, ReadsLine
  <2>2. srv.pc \in {"request", "headers"}
    BY <1>6 DEF ReadRequest, read_requestheaders, At
  <2>3. r.sock.fd = Sock.fd /\ srv.connfd \in Client
    <3>1. After(Sock, r.sock)
      BY <2>1 DEF LineEffect, LineResult
    <3>2. Sock \in Connection /\ srv.connfd \in Client
      BY <2>2, Serves DEF ClientTyped
    <3> QED BY <3>1, <3>2 DEF After, Connection
  <2>4. /\ net' = [net EXCEPT ![srv.connfd] = r.sock] /\ backlog' = backlog
        /\ srv'.connfd = srv.connfd
    BY <2>1 DEF LineEffect
  <2> QED BY <1>1, <2>2, <2>3, <2>4, FdKept, QueueKept DEF Sock
<1>7. CASE Open_listenfd
  <2>1. srv' = Idle /\ net' = net /\ backlog' = backlog /\ srv.pc = "start"
    BY <1>2, <1>7 DEF Open_listenfd, Continues, At
  <2>2. srv'.connfd = srv.connfd
    BY <1>1, <2>1 DEF ServerTyped, Idle
  <2> QED BY <2>1, <2>2, QueueKept
<1>8. CASE Accept
  <2>1. /\ srv.pc = "accept" /\ backlog # <<>> /\ backlog' = Tail(backlog)
        /\ net' = [net EXCEPT ![Head(backlog)].fd = "open"] /\ srv'.connfd = Head(backlog)
    BY <1>1, <1>8 DEF Accept, At, Server
  <2>2. /\ \A c \in Client : /\ net[c].fd # "open"
                             /\ net[c].fd = "queued" <=> \E k \in DOMAIN backlog : backlog[k] = c
        /\ \A j, k \in DOMAIN backlog : backlog[j] = backlog[k] => j = k
    BY <1>1, <2>1 DEF QueueInv, ServerTyped
  <2>3. /\ Len(backlog) \in Nat \ {0} /\ DOMAIN backlog = 1 .. Len(backlog)
        /\ Head(backlog) = backlog[1] /\ Head(backlog) \in Client
        /\ DOMAIN Tail(backlog) = 1 .. Len(backlog) - 1
        /\ \A k \in 1 .. Len(backlog) - 1 : Tail(backlog)[k] = backlog[k + 1]
    BY <1>1, <2>1, LenProperties, EmptySeq, HeadTailProperties, ElementOfSeq
  <2>4. \A j, k \in DOMAIN backlog' : backlog'[j] = backlog'[k] => j = k
    BY <2>1, <2>2, <2>3
  <2>5. \A c \in Client : (\E k \in DOMAIN backlog' : backlog'[k] = c)
                            <=> c # Head(backlog) /\ \E k \in DOMAIN backlog : backlog[k] = c
    <3> SUFFICES ASSUME NEW c \in Client
                 PROVE  (\E k \in DOMAIN backlog' : backlog'[k] = c)
                            <=> c # Head(backlog) /\ \E k \in DOMAIN backlog : backlog[k] = c
      OBVIOUS
    <3>1. ASSUME NEW k \in DOMAIN backlog', backlog'[k] = c
          PROVE  c # Head(backlog) /\ \E j \in DOMAIN backlog : backlog[j] = c
      <4>1. k + 1 \in DOMAIN backlog /\ backlog[k + 1] = c /\ k + 1 # 1 /\ 1 \in DOMAIN backlog
        BY <2>1, <2>3, <3>1
      <4> QED BY <2>2, <2>3, <4>1
    <3>2. ASSUME NEW k \in DOMAIN backlog, backlog[k] = c, c # Head(backlog)
          PROVE  \E j \in DOMAIN backlog' : backlog'[j] = c
      <4>1. k - 1 \in 1 .. Len(backlog) - 1 /\ Tail(backlog)[k - 1] = backlog[(k - 1) + 1] /\ (k - 1) + 1 = k
        BY <2>3, <3>2
      <4> QED BY <2>1, <2>3, <3>2, <4>1
    <3> QED BY <3>1, <3>2
  <2>6. \A c \in Client : net'[c].fd = IF c = Head(backlog) THEN "open" ELSE net[c].fd
    BY <1>1, <2>1, <2>3 DEF Connection
  <2> QED BY <2>1, <2>2, <2>4, <2>5, <2>6 DEF QueueInv
<1>9. CASE Close
  <2>1. /\ srv.pc = "close" /\ srv.connfd \in Client /\ backlog' = backlog
        /\ net' = [net EXCEPT ![srv.connfd] = [@ EXCEPT !.fd = "closed", !.sent = 0, !.wire = <<>>]]
        /\ srv'.connfd = NONE
    BY <1>9, Serves DEF Close, At, Idle
  <2>2. \A c \in Client : net'[c].fd = IF c = srv.connfd THEN "closed" ELSE net[c].fd
    BY <1>1, <2>1 DEF Connection
  <2>3. /\ \A c \in Client : /\ net[c].fd = "open" <=> c = srv.connfd
                             /\ net[c].fd = "queued" <=> \E k \in DOMAIN backlog : backlog[k] = c
        /\ \A j, k \in DOMAIN backlog : backlog[j] = backlog[k] => j = k
    BY <2>1 DEF QueueInv
  <2> QED BY <1>1, <2>1, <2>2, <2>3 DEF QueueInv
<1>10. ASSUME NEW c \in Client, Connects(c) PROVE QueueInv'
  <2>1. /\ net[c].fd \in {"none", "closed"} /\ backlog' = Append(backlog, c) /\ srv' = srv
        /\ srv.pc \notin {"start", "down"}
    BY <1>10 DEF Connects
  <2>2. \A d \in Client : net'[d].fd = IF d = c THEN "queued" ELSE net[d].fd
    BY <1>1, <1>10 DEF Connects, NoConnection
  <2>3. /\ \A d \in Client : /\ net[d].fd = "open" <=> d = srv.connfd
                             /\ net[d].fd = "queued" <=> \E k \in DOMAIN backlog : backlog[k] = d
        /\ \A j, k \in DOMAIN backlog : backlog[j] = backlog[k] => j = k
    BY <2>1 DEF QueueInv
  <2>4. /\ DOMAIN backlog = 1 .. Len(backlog) /\ Len(backlog) \in Nat
        /\ DOMAIN backlog' = 1 .. Len(backlog) + 1
        /\ \A k \in 1 .. Len(backlog) : backlog'[k] = backlog[k]
        /\ backlog'[Len(backlog) + 1] = c
    BY <1>1, <2>1, LenProperties, AppendProperties
  <2>5. \A k \in DOMAIN backlog : backlog[k] # c
    BY <2>1, <2>3
  <2>6. \A j, k \in DOMAIN backlog' : backlog'[j] = backlog'[k] => j = k
    BY <2>3, <2>4, <2>5
  <2>7. ASSUME NEW d \in Client
        PROVE  (\E k \in DOMAIN backlog' : backlog'[k] = d) <=> d = c \/ \E k \in DOMAIN backlog : backlog[k] = d
    BY <2>4
  <2> QED BY <2>1, <2>2, <2>3, <2>6, <2>7 DEF QueueInv
<1>11. ASSUME NEW c \in Client, Sends(c) \/ Ends(c) \/ Resets(c) PROVE QueueInv'
  <2>1. PICK v : net' = [net EXCEPT ![c] = v] /\ v.fd = net[c].fd
    BY <1>11, ClientStep
  <2>2. backlog' = backlog /\ srv' = srv
    BY <1>11, ClientStep
  <2> QED BY <1>1, <2>1, <2>2, FdKept, QueueKept
<1> QED BY <1>3, <1>4, <1>5, <1>6, <1>7, <1>8, <1>9, <1>10, <1>11 DEF Next, main, doit

(* At the start nobody is connected and nothing is open.                   *)
LEMMA InitHeld == Init => HeldInv
<1> SUFFICES ASSUME Init PROVE HeldInv
  OBVIOUS
<1>1. \A c \in Client : net[c].fd = "none"
  BY DEF Init, NoConnection
<1>2. backlog = <<>> /\ srv.connfd = NONE /\ FileClosed(srv)
  BY DEF Init, Idle, FileClosed
<1> QED BY <1>1, <1>2, NoneAssumption DEF HeldInv, QueueInv, FileInv

(* What is held, between two connections: nothing.                         *)
LEMMA HeldGivesNothingHeld == TypesInv /\ HeldInv => NothingHeld
<1> SUFFICES ASSUME TypesInv, HeldInv, srv.pc = "accept"
             PROVE  /\ FileClosed(srv) /\ child = "none"
                    /\ \A c \in Client : net[c].fd # "open"
  BY DEF NothingHeld, FileClosed
<1>1. FileClosed(srv)
  BY DEF HeldInv, FileInv, Goal, GoalOf
<1>2. child = "none" /\ srv.connfd = NONE
  BY DEF TypesInv, ServerTyped
<1> QED BY <1>1, <1>2, NoneAssumption DEF HeldInv, QueueInv

----------------------------------------------------------------------------
(* The text of a connection                                                *)

(* Texts can be joined in any order.                                       *)
LEMMA TextAssociates ==
  ASSUME NEW s \in Text, NEW t \in Text, NEW u \in Text
  PROVE  (s \o t) \o u = s \o (t \o u)
<1> DEFINE S == Word
<1>1. s \in Seq(S) /\ t \in Seq(S) /\ u \in Seq(S)
  BY DEF Text
<1> HIDE DEF S
<1> QED BY <1>1, ConcatAssociative

(* What is taken, stored, buffered and on the wire, in two parts.          *)
Whole(taken, buf, rio, wire) == taken \o buf \o rio \o wire
UnreadText(buf, rio, wire) == (buf \o rio) \o wire
Then(taken, unread) == taken \o unread

(* The text of a connection is what was taken, followed by what is still   *)
(* to be read.                                                             *)
LEMMA FourTexts ==
  ASSUME NEW s \in Text, NEW t \in Text, NEW u \in Text, NEW w \in Text
  PROVE  Whole(s, t, u, w) = Then(s, UnreadText(t, u, w))
<1>1. t \o u \in Text
  BY TextsJoin
<1>2. (s \o t) \o u = s \o (t \o u)
  BY TextAssociates
<1>3. (s \o (t \o u)) \o w = s \o ((t \o u) \o w)
  BY <1>1, TextAssociates
<1> QED BY <1>2, <1>3 DEF Whole, UnreadText, Then

(* More of a script, after its first n tokens.                             *)
LEMMA ScriptGoesOn ==
  ASSUME NEW script \in Text, NEW n \in Nat, NEW k \in n .. Len(script)
  PROVE  /\ SubSeq(script, 1, n) \o SubSeq(script, n + 1, k) = SubSeq(script, 1, k)
         /\ SubSeq(script, n + 1, k) \in Text /\ SubSeq(script, 1, n) \in Text
<1> DEFINE S == Word
<1>1. script \in Seq(S) /\ Seq(S) = Text
  BY DEF Text
<1> HIDE DEF S
<1>2. Len(script) \in Nat /\ \A j \in 1 .. Len(script) : script[j] \in S
  BY <1>1, LenProperties, ElementOfSeq
<1>3. 1 \in 1 .. Len(script) + 1 /\ n \in 1 - 1 .. Len(script) /\ k \in n .. Len(script)
  BY <1>2
<1>4. SubSeq(script, 1, n) \o SubSeq(script, n + 1, k) = SubSeq(script, 1, k)
  BY <1>1, <1>3, ConcatAdjacentSubSeq
<1>5. SubSeq(script, n + 1, k) \in Seq(S) /\ SubSeq(script, 1, n) \in Seq(S)
  BY <1>1, <1>2, SubSeqProperties
<1> QED BY <1>1, <1>4, <1>5

(* No step loses, doubles or reorders what a client has sent.              *)
LEMMA StreamStep == TypesInv /\ PrintedInv /\ HeldInv /\ StreamInv /\ [Next]_vars => StreamInv'
<1> SUFFICES ASSUME TypesInv, PrintedInv, HeldInv, StreamInv, [Next]_vars PROVE StreamInv'
  OBVIOUS
<1>1. /\ ServerTyped(srv, child) /\ srv \in Server /\ NetInv /\ net \in [Client -> Connection]
      /\ backlog \in Seq(Client) /\ NONE \notin Client
  BY NoneAssumption DEF TypesInv, ServerTyped, NetInv
<1>2. /\ srv.taken \in Text /\ srv.buf \in Text /\ srv.rio \in Text
      /\ srv.connfd # NONE => srv.connfd \in Client
      /\ \A c \in Client : net[c].wire \in Text /\ net[c].script \in Text /\ net[c].sent \in Nat
                           /\ net[c].sent <= Len(net[c].script)
  BY <1>1 DEF Server, Connection, NetInv, ClientTyped
<1>3. ASSUME net' = net, srv'.connfd = NONE, srv'.taken = <<>>, srv'.buf = <<>>, srv'.rio = <<>>
      PROVE  StreamInv'
  BY <1>3 DEF StreamInv, StreamIntact, Listens
<1>4. CASE unix_error
  BY <1>3, <1>4 DEF unix_error, Down, Idle
<1>5. CASE UNCHANGED vars \/ Edits
  BY <1>5 DEF vars, Edits, StreamInv, StreamIntact, Listens, Idling, At, Sock
<1>6. ASSUME SameLine(srv', srv), srv'.pc \notin {"start", "accept", "request"}, srv.connfd \in Client,
             \A c \in Client : SameText(net'[c], net[c])
      PROVE  StreamInv'
  <2>1. \A c \in Client : /\ net'[c].fd = net[c].fd /\ net'[c].script = net[c].script
                          /\ net'[c].sent = net[c].sent /\ net'[c].wire = net[c].wire
                          /\ Listens(net'[c]) => Listens(net[c])
    BY <1>6 DEF SameText, Listens
  <2>2. \A c \in Client :
          /\ net'[c].fd # "none" => net'[c].script \in Scripts[c]
          /\ net'[c].fd = "queued" /\ Listens(net'[c]) =>
               net'[c].wire = SubSeq(net'[c].script, 1, net'[c].sent)
    BY <2>1 DEF StreamInv
  <2>3. StreamIntact'
    BY <1>6, <2>1 DEF StreamInv, StreamIntact, SameLine, Sock, Listens
  <2> QED BY <1>6, <2>2, <2>3 DEF StreamInv, Idling, At, Listens
<1>7. CASE RunCgi
  BY <1>1, <1>6, <1>7, CgiStep DEF SameLine
<1>8. CASE Stat \/ Write \/ Open \/ ReadFile \/ CloseFile \/ Fork \/ Wait
  <2>1. CASE ~unix_error
    <3>1. ServerTyped(srv', child')
      BY NextTyped DEF TypesInv
    <3>2. SameLine(srv', srv) /\ srv'.pc # "request" /\ srv.connfd \in Client
      BY <1>8, <2>1, LaterSteps
    <3>3. srv'.pc \notin {"start", "accept"}
      BY <1>1, <3>1, <3>2 DEF ServerTyped, SameLine
    <3> QED BY <1>6, <1>8, <2>1, <3>2, <3>3, LaterSteps
  <2> QED BY <1>4, <2>1
<1>9. CASE (ReadRequest \/ read_requestheaders) /\ ~unix_error
  <2> DEFINE c == srv.connfd
  <2>1. PICK r \in LineSteps : LineEffect(r)
    BY <1>9, ReadsLine
  <2>2. srv.pc \in {"request", "headers"} /\ c \in Client
    BY <1>9, Serves DEF ReadRequest, read_requestheaders, At
  <2>3. net[c].fd = "open"
    BY <2>2 DEF HeldInv, QueueInv
  <2>4. /\ r.sock.fd = Sock.fd /\ r.sock.script = Sock.script /\ r.sock.sent = Sock.sent
        /\ r.sock.wire \in Text /\ (Listens(r.sock) => Listens(Sock))
    <3>1. After(Sock, r.sock)
      BY <2>1 DEF LineEffect, LineResult
    <3>2. Sock \in Connection
      BY <1>1, <2>2 DEF Sock
    <3> QED BY <3>1, <3>2 DEF After, Connection, Listens
  <2>5. \A d \in Client : net'[d] = IF d = c THEN r.sock ELSE net[d]
    BY <1>1, <2>1, <2>2 DEF LineEffect
  <2>6. \A d \in Client :
          /\ net'[d].fd # "none" => net'[d].script \in Scripts[d]
          /\ net'[d].fd = "queued" /\ Listens(net'[d]) =>
               net'[d].wire = SubSeq(net'[d].script, 1, net'[d].sent)
    BY <2>3, <2>4, <2>5 DEF StreamInv, Sock
  <2>7. /\ r.buf \in Text /\ r.rio \in Text /\ srv'.rio = r.rio /\ srv'.connfd = c
        /\ Listens(Sock) => (r.buf \o r.rio) \o r.sock.wire = (srv.buf \o srv.rio) \o Sock.wire
    BY <2>1 DEF LineEffect, LineResult
  <2>8. Listens(r.sock) => srv'.taken \o srv'.buf \o srv'.rio \o r.sock.wire = SubSeq(Sock.script, 1, Sock.sent)
    <3> SUFFICES ASSUME Listens(r.sock)
                 PROVE  srv'.taken \o srv'.buf \o srv'.rio \o r.sock.wire = SubSeq(Sock.script, 1, Sock.sent)
      OBVIOUS
    <3>1. srv.taken \o srv.buf \o srv.rio \o Sock.wire = SubSeq(Sock.script, 1, Sock.sent)
      BY <1>1, <2>2, <2>4 DEF StreamInv, StreamIntact, Listens
    <3>2. /\ srv.taken \in Text /\ srv.buf \in Text /\ srv.rio \in Text /\ Sock.wire \in Text
          /\ r.buf \in Text /\ r.rio \in Text /\ r.sock.wire \in Text
      BY <1>2, <2>2, <2>4, <2>7 DEF Sock
    <3>3. Whole(srv.taken, srv.buf, srv.rio, Sock.wire) = Then(srv.taken, UnreadText(srv.buf, srv.rio, Sock.wire))
      BY <3>2, FourTexts
    <3>4. Whole(srv.taken, r.buf, r.rio, r.sock.wire) = Then(srv.taken, UnreadText(r.buf, r.rio, r.sock.wire))
      BY <3>2, FourTexts
    <3>5. srv.taken \o r.buf \o r.rio \o r.sock.wire = SubSeq(Sock.script, 1, Sock.sent)
      BY <2>4, <2>7, <3>1, <3>3, <3>4 DEF Whole, UnreadText, Then
    <3>6. srv'.taken \o srv'.buf = srv.taken \o r.buf
      <4>1. CASE r.done
        <5>1. srv.taken \o r.buf \in Text
          BY <1>2, <2>7, TextsJoin
        <5> QED BY <2>1, <4>1, <5>1, TextsJoin, EmptyTexts DEF LineEffect
      <4>2. CASE ~r.done
        BY <2>1, <4>2 DEF LineEffect
      <4> QED BY <4>1, <4>2
    <3> QED BY <2>7, <3>5, <3>6
  <2>9. StreamIntact'
    BY <2>2, <2>4, <2>5, <2>7, <2>8 DEF StreamIntact, Sock, Listens
  <2>10. srv'.pc \notin {"start", "accept"} /\ (srv'.pc = "request" => srv'.taken = <<>>)
    BY <2>1, <2>2 DEF LineEffect, StreamInv, At
  <2> QED BY <2>6, <2>9, <2>10 DEF StreamInv, Idling, At, Listens
<1>10. CASE Open_listenfd
  BY <1>3, <1>4, <1>10 DEF Open_listenfd, Continues, Idle
<1>11. CASE Accept
  <2> DEFINE c == Head(backlog)
  <2>1. /\ c \in Client /\ srv'.connfd = c /\ srv'.pc = "request" /\ srv'.taken = <<>> /\ srv'.buf = <<>>
        /\ srv'.rio = <<>>
    <3>1. c \in Client
      BY <1>1, <1>11, HeadTailProperties DEF Accept
    <3>2. srv.taken = <<>> /\ srv.buf = <<>> /\ srv.rio = <<>>
      BY <1>11 DEF Accept, At, StreamInv, Idling
    <3> QED BY <1>1, <1>11, <3>1, <3>2 DEF Accept, Server
  <2>2. net[c].fd = "queued"
    <3>1. 1 \in DOMAIN backlog /\ backlog[1] = c
      BY <1>1, <1>11, LenProperties, EmptySeq, HeadTailProperties DEF Accept
    <3> QED BY <1>11, <2>1, <3>1 DEF HeldInv, QueueInv, Accept, At
  <2> HIDE DEF c
  <2>3. \A d \in Client : net'[d] = IF d = c THEN [net[c] EXCEPT !.fd = "open"] ELSE net[d]
    BY <1>1, <1>11, <2>1 DEF Accept, c
  <2>4. LET sock == net'[c]
        IN  /\ sock.fd = "open" /\ sock.script = net[c].script /\ sock.sent = net[c].sent
            /\ sock.wire = net[c].wire /\ sock.peer = net[c].peer
    BY <1>1, <2>1, <2>3 DEF Connection
  <2>5. \A d \in Client :
          /\ net'[d].fd # "none" => net'[d].script \in Scripts[d]
          /\ net'[d].fd = "queued" /\ Listens(net'[d]) =>
               net'[d].wire = SubSeq(net'[d].script, 1, net'[d].sent)
    BY <2>2, <2>3, <2>4 DEF StreamInv
  <2>6. Listens(net[c]) => net[c].wire = SubSeq(net[c].script, 1, net[c].sent)
    BY <2>1, <2>2 DEF StreamInv
  <2>7. <<>> \o <<>> \o <<>> \o net[c].wire = net[c].wire
    BY <1>2, <2>1, TextsJoin, EmptyTexts
  <2>8. StreamIntact'
    BY <2>1, <2>4, <2>6, <2>7 DEF StreamIntact, Sock, Listens
  <2> QED BY <2>1, <2>5, <2>8 DEF StreamInv, Idling, At, Listens
<1>12. CASE Close
  <2>1. /\ srv.connfd \in Client /\ srv'.connfd = NONE /\ srv'.taken = <<>> /\ srv'.buf = <<>>
        /\ srv'.rio = <<>>
    BY <1>12, Serves DEF Close, At, Idle
  <2>2. \A d \in Client : net'[d] = IF d = srv.connfd
                                    THEN [net[d] EXCEPT !.fd = "closed", !.sent = 0, !.wire = <<>>]
                                    ELSE net[d]
    BY <1>1, <1>12, <2>1 DEF Close
  <2>3. net'[srv.connfd].fd = "closed" /\ net'[srv.connfd].script = Sock.script
    BY <1>1, <2>1, <2>2 DEF Connection, Sock
  <2>4. Sock.fd = "open"
    BY <1>12, <2>1 DEF Close, At, HeldInv, QueueInv, Sock
  <2>5. \A d \in Client :
          /\ net'[d].fd # "none" => net'[d].script \in Scripts[d]
          /\ net'[d].fd = "queued" /\ Listens(net'[d]) =>
               net'[d].wire = SubSeq(net'[d].script, 1, net'[d].sent)
    BY <2>1, <2>2, <2>3, <2>4 DEF StreamInv, Sock
  <2> QED BY <2>1, <2>5 DEF StreamInv, StreamIntact, Listens
<1>13. ASSUME NEW c \in Client, Connects(c) PROVE StreamInv'
  <2>1. net[c].fd # "open" /\ srv' = srv /\ srv.pc # "down"
    BY <1>13 DEF Connects
  <2>2. PICK script \in Scripts[c] :
          \A d \in Client : net'[d] = IF d = c THEN [NoConnection EXCEPT !.fd = "queued", !.script = script]
                                      ELSE net[d]
    BY <1>1, <1>13 DEF Connects
  <2>3. net'[c].script = script /\ net'[c].sent = 0 /\ net'[c].wire = <<>>
    BY <2>2 DEF NoConnection
  <2>4. SubSeq(script, 1, 0) = <<>>
    <3>1. script \in Seq(Word)
      BY ScriptIsText DEF Text
    <3> QED BY <3>1, SubSeqEmpty
  <2>5. \A d \in Client :
          /\ net'[d].fd # "none" => net'[d].script \in Scripts[d]
          /\ net'[d].fd = "queued" /\ Listens(net'[d]) =>
               net'[d].wire = SubSeq(net'[d].script, 1, net'[d].sent)
    BY <2>2, <2>3, <2>4 DEF StreamInv
  <2>6. srv.connfd # NONE => net'[srv.connfd] = net[srv.connfd]
    BY <1>2, <2>1, <2>2 DEF HeldInv, QueueInv
  <2> QED BY <2>1, <2>5, <2>6 DEF StreamInv, StreamIntact, Sock, Idling, At, Listens
<1>14. ASSUME NEW c \in Client, Sends(c) \/ Ends(c) \/ Resets(c) PROVE StreamInv'
  <2>1. PICK v : /\ net' = [net EXCEPT ![c] = v]
                 /\ v.fd = net[c].fd /\ v.script = net[c].script
                 /\ \/ /\ v.peer = "up" /\ net[c].peer = "up" /\ v.sent \in net[c].sent .. Len(net[c].script)
                       /\ v.wire = net[c].wire \o SubSeq(net[c].script, net[c].sent + 1, v.sent)
                    \/ /\ v.peer = "fin" /\ net[c].peer = "up"
                       /\ v.sent = net[c].sent /\ v.wire = net[c].wire
                    \/ v.peer = "reset"
    BY <1>14, ClientStep
  <2>2. srv' = srv /\ \A d \in Client : net'[d] = IF d = c THEN v ELSE net[d]
    BY <1>1, <1>14, <2>1, ClientStep
  <2>3. ASSUME NEW text \in Text,
               Listens(net[c]) => text \o net[c].wire = SubSeq(net[c].script, 1, net[c].sent)
        PROVE  Listens(v) => text \o v.wire = SubSeq(v.script, 1, v.sent)
    <3>1. CASE v.peer = "fin" /\ net[c].peer = "up" /\ v.sent = net[c].sent /\ v.wire = net[c].wire
      BY <2>1, <2>3, <3>1 DEF Listens
    <3>2. CASE /\ v.peer = "up" /\ net[c].peer = "up" /\ v.sent \in net[c].sent .. Len(net[c].script)
               /\ v.wire = net[c].wire \o SubSeq(net[c].script, net[c].sent + 1, v.sent)
      <4> DEFINE more == SubSeq(net[c].script, net[c].sent + 1, v.sent)
      <4>1. /\ SubSeq(net[c].script, 1, net[c].sent) \o more = SubSeq(net[c].script, 1, v.sent)
            /\ more \in Text
        BY <1>2, <3>2, ScriptGoesOn
      <4>2. v.wire = net[c].wire \o more
        BY <3>2
      <4> HIDE DEF more
      <4>3. (text \o net[c].wire) \o more = text \o (net[c].wire \o more)
        BY <1>2, <2>3, <4>1, TextAssociates
      <4> QED BY <2>1, <2>3, <3>2, <4>1, <4>2, <4>3 DEF Listens
    <3> QED BY <2>1, <3>1, <3>2 DEF Listens
  <2>4. net[c].fd = "queued" /\ Listens(v) => v.wire = SubSeq(v.script, 1, v.sent)
    <3> SUFFICES ASSUME net[c].fd = "queued", Listens(v) PROVE v.wire = SubSeq(v.script, 1, v.sent)
      OBVIOUS
    <3>1. v.wire \in Text
      BY <1>1, <1>14, <2>2, NextTyped DEF TypesInv, NetInv, Connection
    <3>2. Listens(net[c]) => <<>> \o net[c].wire = SubSeq(net[c].script, 1, net[c].sent)
      BY <1>2, TextsJoin, EmptyTexts DEF StreamInv
    <3>3. <<>> \o v.wire = SubSeq(v.script, 1, v.sent)
      BY <2>3, <3>2, EmptyTexts
    <3> QED BY <3>1, <3>3, TextsJoin, EmptyTexts
  <2>5. \A d \in Client :
          /\ net'[d].fd # "none" => net'[d].script \in Scripts[d]
          /\ net'[d].fd = "queued" /\ Listens(net'[d]) =>
               net'[d].wire = SubSeq(net'[d].script, 1, net'[d].sent)
    BY <2>1, <2>2, <2>4 DEF StreamInv
  <2>6. StreamIntact'
    <3>1. srv.taken \o srv.buf \o srv.rio \in Text
      <4>1. srv.taken \o srv.buf \in Text
        BY <1>2, TextsJoin
      <4> QED BY <1>2, <4>1, TextsJoin
    <3> DEFINE text == srv.taken \o srv.buf \o srv.rio
    <3>2. srv.connfd = c /\ Listens(net[c]) => text \o net[c].wire = SubSeq(net[c].script, 1, net[c].sent)
      BY <1>1 DEF StreamInv, StreamIntact, Sock, Listens
    <3> HIDE DEF text
    <3>3. srv.connfd = c /\ Listens(v) => text \o v.wire = SubSeq(v.script, 1, v.sent)
      BY <2>3, <3>1, <3>2 DEF text
    <3>4. CASE srv.connfd = c
      BY <2>2, <3>3, <3>4 DEF StreamIntact, Sock, Listens, text
    <3>5. CASE srv.connfd # c
      BY <1>2, <2>2, <3>5 DEF StreamInv, StreamIntact, Sock, Listens
    <3> QED BY <3>4, <3>5
  <2> QED BY <2>2, <2>5, <2>6 DEF StreamInv, Idling, At, Listens
<1> QED BY <1>4, <1>5, <1>7, <1>8, <1>9, <1>10, <1>11, <1>12, <1>13, <1>14 DEF Next, main, doit

(* At the start nothing was sent.                                          *)
LEMMA InitStream == Init => StreamInv
<1> SUFFICES ASSUME Init PROVE StreamInv
  OBVIOUS
<1>1. \A c \in Client : net[c].fd = "none"
  BY DEF Init, NoConnection
<1>2. srv.connfd = NONE /\ srv.taken = <<>> /\ srv.buf = <<>> /\ srv.rio = <<>>
  BY DEF Init, Idle
<1> QED BY <1>1, <1>2 DEF StreamInv, StreamIntact

----------------------------------------------------------------------------
(* Where a header ends                                                     *)

(* What was taken is what the script begins with.                          *)
LEMMA TakenFirst ==
  ASSUME NEW s \in Server, NEW sock \in Connection, sock.sent <= Len(sock.script),
         Whole(s.taken, s.buf, s.rio, sock.wire) = SubSeq(sock.script, 1, sock.sent)
  PROVE  Len(s.taken) <= Len(sock.script) /\ \A k \in 1 .. Len(s.taken) : sock.script[k] = s.taken[k]
<1> DEFINE S == Word
           taken == s.taken
           script == sock.script
           sent == sock.sent
           rest == UnreadText(s.buf, s.rio, sock.wire)
<1>1. /\ taken \in Text /\ s.buf \in Text /\ s.rio \in Text /\ sock.wire \in Text /\ script \in Text
      /\ sent \in Nat /\ sent <= Len(script)
  BY DEF Server, Connection
<1>2. rest \in Text
  BY <1>1, TextsJoin DEF UnreadText
<1>3. taken \o rest = SubSeq(script, 1, sent)
  <2>1. Whole(taken, s.buf, s.rio, sock.wire) = Then(taken, rest)
    BY <1>1, FourTexts
  <2> QED BY <2>1 DEF Then
<1>4. taken \in Seq(S) /\ rest \in Seq(S) /\ script \in Seq(S)
  BY <1>1, <1>2 DEF Text
<1> HIDE DEF S, taken, script, sent, rest
<1>5. Len(script) \in Nat /\ Len(taken) \in Nat /\ Len(rest) \in Nat
  BY <1>4, LenProperties
<1>6. /\ Len(SubSeq(script, 1, sent)) = sent
      /\ \A k \in 1 .. sent : SubSeq(script, 1, sent)[k] = script[k]
  BY <1>1, <1>4, <1>5, Divided
<1>7. /\ Len(taken \o rest) = Len(taken) + Len(rest)
      /\ \A k \in 1 .. Len(taken) : (taken \o rest)[k] = taken[k]
  BY <1>4, <1>5, ConcatProperties
<1>8. Len(taken) <= sent
  BY <1>1, <1>3, <1>5, <1>6, <1>7
<1>9. Len(taken) <= Len(script) /\ \A k \in 1 .. Len(taken) : script[k] = taken[k]
  BY <1>1, <1>3, <1>5, <1>6, <1>7, <1>8
<1> QED BY <1>9 DEF taken, script

(* When no line is too long, a line that was read ends with its newline.   *)
LEMMA LineHasEnd ==
  ASSUME NEW script \in Text, ShortLines(script), NEW n \in Nat, NEW line \in Text, WholeLine(line),
         n + Len(line) <= Len(script), \A j \in 1 .. Len(line) : script[n + j] = line[j]
  PROVE  line[Len(line)] \in NewLine
<1>1. Len(line) \in Nat /\ Len(script) \in Nat
  BY LenProperties DEF Text
<1>2. /\ Len(line) > 0 /\ (line[Len(line)] \in NewLine \/ Len(line) = MAXLINE - 1)
      /\ \A j \in 1 .. Len(line) - 1 : line[j] \notin NewLine
  BY DEF WholeLine, Full
<1>3. ASSUME Len(line) = MAXLINE - 1 PROVE line[Len(line)] \in NewLine
  <2>1. n \in 0 .. Len(script) - (MAXLINE - 1)
    BY <1>1, <1>3, RioAssumption
  <2>2. PICK j \in 1 .. MAXLINE - 1 : script[n + j] \in NewLine
    BY <2>1 DEF ShortLines
  <2>3. j \in 1 .. Len(line) /\ line[j] \in NewLine
    BY <1>3, <2>2
  <2>4. ~(j \in 1 .. Len(line) - 1)
    BY <1>2, <2>3
  <2>5. j = Len(line)
    BY <1>1, <2>3, <2>4
  <2> QED BY <2>3, <2>5
<1> QED BY <1>2, <1>3

(* The first line, and the next one.                                       *)
LEMMA FirstLine ==
  ASSUME NEW script \in Text, ShortLines(script), NEW line \in Text, WholeLine(line),
         Len(line) <= Len(script), \A j \in 1 .. Len(line) : script[j] = line[j]
  PROVE  InHeader(script, Len(line))
<1>1. Len(line) \in Nat /\ Len(line) > 0 /\ \A j \in 1 .. Len(line) - 1 : line[j] \notin NewLine
  BY LenProperties DEF Text, WholeLine
<1>2. line[Len(line)] \in NewLine
  <2>1. 0 + Len(line) <= Len(script) /\ \A j \in 1 .. Len(line) : script[0 + j] = line[j]
    BY <1>1
  <2> QED BY <2>1, LineHasEnd
<1>3. ASSUME NEW k \in 1 .. Len(line), IsHeaderEnd(script, k) PROVE FALSE
  <2>1. k - 1 \in 1 .. Len(line) - 1 /\ script[k - 1] \in NewLine
    BY <1>1, <1>3 DEF IsHeaderEnd
  <2>2. script[k - 1] = line[k - 1]
    BY <1>1, <2>1
  <2> QED BY <1>1, <2>1, <2>2
<1> QED BY <1>1, <1>2, <1>3 DEF InHeader

(* A line after the header's first lines ends the header when it is empty, *)
(* and else is one of its lines.                                           *)
LEMMA NextLine ==
  ASSUME NEW script \in Text, ShortLines(script), NEW n \in Nat, InHeader(script, n),
         NEW line \in Text, WholeLine(line),
         n + Len(line) <= Len(script), \A j \in 1 .. Len(line) : script[n + j] = line[j]
  PROVE  IF line = <<"crlf">> THEN AtHeaderEnd(script, n + Len(line)) ELSE InHeader(script, n + Len(line))
<1> DEFINE m == Len(line)
<1>1. /\ m \in Nat /\ m > 0 /\ Len(script) \in Nat /\ n > 0 /\ script[n] \in NewLine
      /\ \A j \in 1 .. m - 1 : line[j] \notin NewLine
      /\ \A k \in 1 .. n : ~IsHeaderEnd(script, k)
  BY LenProperties DEF Text, WholeLine, InHeader
<1>2. line[m] \in NewLine
  BY LineHasEnd
<1>3. line = <<"crlf">> <=> m = 1 /\ line[1] = "crlf"
  <2>1. m = 1 /\ line[1] = "crlf" => line = <<"crlf">>
    <3> DEFINE S == Word
    <3>1. line \in Seq(S) /\ "crlf" \in S
      BY DEF Text, Word, Token, NewLine
    <3> HIDE DEF S
    <3>2. <<"crlf">> \in Seq(S) /\ Len(<<"crlf">>) = 1 /\ <<"crlf">>[1] = "crlf"
      BY <3>1
    <3> SUFFICES ASSUME Len(line) = 1, line[1] = "crlf" PROVE line = <<"crlf">>
      OBVIOUS
    <3>3. \A j \in 1 .. Len(line) : line[j] = <<"crlf">>[j]
      BY <3>2
    <3> QED BY <3>1, <3>2, <3>3, SeqEqual
  <2> QED BY <2>1
<1> HIDE DEF m
<1>4. ASSUME NEW j \in 2 .. m PROVE ~IsHeaderEnd(script, n + j)
  <2>1. j - 1 \in 1 .. m - 1 /\ (n + j) - 1 = n + (j - 1) /\ j - 1 \in 1 .. m
    BY <1>1
  <2>2. script[(n + j) - 1] = line[j - 1] /\ line[j - 1] \notin NewLine
    BY <1>1, <2>1 DEF m
  <2> QED BY <2>2 DEF IsHeaderEnd
<1>5. IsHeaderEnd(script, n + 1) <=> line[1] = "crlf"
  <2>1. 1 \in 1 .. m /\ n + 1 \in 2 .. Len(script) /\ (n + 1) - 1 = n
    BY <1>1 DEF m
  <2>2. script[n + 1] = line[1]
    BY <2>1 DEF m
  <2> QED BY <1>1, <2>1, <2>2 DEF IsHeaderEnd
<1>6. CASE line = <<"crlf">>
  <2>1. m = 1 /\ IsHeaderEnd(script, n + m) /\ \A k \in 1 .. (n + m) - 1 : ~IsHeaderEnd(script, k)
    BY <1>1, <1>3, <1>5, <1>6
  <2> QED BY <1>6, <2>1 DEF AtHeaderEnd, m
<1>7. CASE line # <<"crlf">>
  <2>1. line[1] # "crlf"
    <3>1. CASE m = 1
      BY <1>3, <1>7, <3>1
    <3>2. CASE m # 1
      BY <1>1, <3>2 DEF NewLine
    <3> QED BY <3>1, <3>2
  <2>2. ASSUME NEW k \in 1 .. n + m PROVE ~IsHeaderEnd(script, k)
    <3>1. CASE k <= n
      BY <1>1, <3>1
    <3>2. CASE k > n
      <4>1. k - n \in 1 .. m /\ n + (k - n) = k
        BY <1>1, <3>2
      <4> QED BY <1>1, <1>4, <1>5, <2>1, <4>1
    <3> QED BY <1>1, <3>1, <3>2
  <2>3. n + m > 0 /\ script[n + m] \in NewLine
    BY <1>1, <1>2 DEF m
  <2> QED BY <1>7, <2>2, <2>3 DEF InHeader, m
<1> QED BY <1>6, <1>7

(* Once the header is read the server never goes back to it.               *)
LEMMA PastHeaderStays ==
  ASSUME TypesInv, Stat \/ Write \/ Open \/ ReadFile \/ CloseFile \/ Fork \/ Wait, PastHeader'
  PROVE  PastHeader
<1> USE DEF PastHeader, Goal, GoalOf
<1>1. CASE Write
  <2>1. /\ srv \in Server /\ srv.pc = "write" /\ srv.after # "write"
    BY <1>1, Serves DEF Write, At, ServerTyped
  <2>2. CASE srv' = clienterror([srv EXCEPT !.srcfd = "closed", !.filedata = NONE], "500", "close")
    <3>1. srv'.pc = "write" /\ srv'.after = "close"
      BY <2>1, <2>2 DEF clienterror, Writing, Server
    <3> QED BY <3>1
  <2>3. CASE unix_error
    BY <2>3 DEF unix_error, Down, Idle
  <2>4. CASE \E unsent : srv' = [srv EXCEPT !.unsent = unsent,
                                            !.pc = IF unsent = <<>> THEN srv.after ELSE "write"]
    <3>1. srv'.pc \in {"write", srv.after} /\ srv'.after = srv.after
      BY <2>1, <2>4 DEF Server
    <3> QED BY <2>1, <3>1
  <2> QED BY <1>1, <2>2, <2>3, <2>4, WriteCases
<1>2. CASE ~Write
  BY <1>2 DEF Stat, Open, ReadFile, CloseFile, Fork, Wait, At
<1> QED BY <1>1, <1>2

(* Every step keeps track of where the header ends.                        *)
LEMMA HeaderStep == ServedInv /\ HeaderInv /\ [Next]_vars => HeaderInv'
<1> SUFFICES ASSUME TypesInv, HeldInv, StreamInv, HeaderInv, TypesInv', StreamInv', [Next]_vars,
                    ~Idling', srv'.pc # "down", Sock'.peer = "up", ShortLines(Sock'.script)
             PROVE  /\ srv'.pc = "headers" => InHeader(Sock'.script, Len(srv'.taken))
                    /\ PastHeader' => AtHeaderEnd(Sock'.script, Len(srv'.taken))
  BY NextTyped, StreamStep DEF ServedInv, HeaderInv, At
<1>1. /\ ServerTyped(srv, child) /\ srv \in Server /\ net \in [Client -> Connection] /\ NONE \notin Client
      /\ srv'.connfd \in Client /\ srv'.taken \in Text /\ srv'.buf \in Text /\ srv'.rio \in Text
      /\ net' \in [Client -> Connection]
  BY NoneAssumption DEF TypesInv, ServerTyped, NetInv, Idling, Server
<1>2. ~unix_error
  BY DEF unix_error, Down, Idle
<1>3. ASSUME srv'.connfd = srv.connfd, srv'.taken = srv.taken, ~Idling, srv.pc # "down",
             srv'.pc = "headers" => srv.pc = "headers", PastHeader' => PastHeader,
             Sock.script = Sock'.script, Sock.peer = "up"
      PROVE  /\ srv'.pc = "headers" => InHeader(Sock'.script, Len(srv'.taken))
             /\ PastHeader' => AtHeaderEnd(Sock'.script, Len(srv'.taken))
  BY <1>3 DEF HeaderInv, At
<1>4. CASE UNCHANGED vars \/ Edits
  BY <1>3, <1>4 DEF vars, Edits, Idling, PastHeader, Goal, GoalOf, Sock
<1>5. CASE RunCgi
  <2>1. /\ srv.pc = "wait" /\ srv' = srv /\ srv.connfd \in Client
        /\ \A c \in Client : SameText(net'[c], net[c])
    BY <1>5, CgiStep
  <2>2. Sock.script = Sock'.script /\ Sock.peer = "up"
    BY <2>1 DEF SameText, Sock, Listens
  <2> QED BY <1>3, <2>1, <2>2 DEF Idling, PastHeader, Goal, GoalOf
<1>6. CASE Stat \/ Write \/ Open \/ ReadFile \/ CloseFile \/ Fork \/ Wait
  <2>1. /\ SameLine(srv', srv) /\ srv'.pc # "headers" /\ srv.connfd \in Client
        /\ \A c \in Client : SameText(net'[c], net[c])
    BY <1>2, <1>6, LaterSteps
  <2>2. Sock.script = Sock'.script /\ Sock.peer = "up"
    BY <2>1 DEF SameText, SameLine, Sock, Listens
  <2>3. ~Idling /\ srv.pc # "down"
    BY <1>6 DEF Stat, Write, Open, ReadFile, CloseFile, Fork, Wait, At, Idling
  <2> QED BY <1>3, <1>6, <2>1, <2>2, <2>3, PastHeaderStays DEF SameLine
<1>7. CASE ReadRequest \/ read_requestheaders
  <2> DEFINE c == srv.connfd
  <2>1. PICK r \in LineSteps : LineEffect(r)
    BY <1>2, <1>7, ReadsLine
  <2>2. srv.pc \in {"request", "headers"} /\ c \in Client
    BY <1>7, Serves DEF ReadRequest, read_requestheaders, At
  <2>3. Sock' = r.sock /\ srv'.connfd = c
    BY <1>1, <2>1, <2>2 DEF LineEffect, Sock
  <2>4. Sock'.script = Sock.script /\ Sock.peer = "up"
    <3>1. After(Sock, r.sock) /\ Sock \in Connection
      BY <1>1, <2>1, <2>2 DEF LineEffect, LineResult, Sock
    <3> QED BY <2>3, <3>1 DEF After, Connection
  <2>5. srv'.pc = "stat" => srv.pc = "headers"
    BY <2>1 DEF LineEffect
  <2>6. PastHeader' => srv'.pc = "stat"
    BY <2>1 DEF LineEffect, PastHeader, Goal, GoalOf
  <2>7. CASE ~r.done
    <3>1. srv'.pc = srv.pc /\ srv'.taken = srv.taken
      BY <2>1, <2>7 DEF LineEffect
    <3> QED BY <1>3, <2>2, <2>3, <2>4, <2>6, <3>1 DEF Idling
  <2>8. CASE r.done
    <3> DEFINE script == Sock'.script
    <3>1. /\ r.rc > 0 /\ WholeLine(r.buf) /\ r.buf \in Text
          /\ srv'.taken = srv.taken \o r.buf /\ srv'.pc # "request"
      BY <2>1, <2>3, <2>8 DEF LineEffect, LineResult
    <3>2. /\ script \in Text /\ ShortLines(script) /\ srv.taken \in Text
      BY <1>1 DEF Sock, Connection, Server
    <3>3. /\ Len(srv'.taken) <= Len(script)
          /\ \A k \in 1 .. Len(srv'.taken) : script[k] = srv'.taken[k]
      <4>1. srv' \in Server /\ Sock' \in Connection /\ Sock'.sent <= Len(script)
        BY <1>1 DEF Sock, TypesInv, NetInv, ServerTyped, ClientTyped
      <4>2. Whole(srv'.taken, srv'.buf, srv'.rio, Sock'.wire) = SubSeq(script, 1, Sock'.sent)
        BY <1>1 DEF StreamInv, StreamIntact, Whole
      <4> QED BY <4>1, <4>2, TakenFirst
    <3> DEFINE n == Len(srv.taken)
               m == Len(r.buf)
    <3>4. /\ n \in Nat /\ m \in Nat /\ Len(srv'.taken) = n + m
          /\ \A k \in 1 .. m : srv'.taken[n + k] = r.buf[k]
      <4> DEFINE S == Word
                 s == srv.taken
                 t == r.buf
      <4>1. s \in Seq(S) /\ t \in Seq(S) /\ srv'.taken = s \o t
        BY <3>1, <3>2 DEF Text
      <4> HIDE DEF S, s, t
      <4>2. /\ Len(s) \in Nat /\ Len(t) \in Nat /\ Len(s \o t) = Len(s) + Len(t)
            /\ \A k \in Len(s) + 1 .. Len(s) + Len(t) : (s \o t)[k] = t[k - Len(s)]
        BY <4>1, LenProperties, ConcatProperties
      <4>3. ASSUME NEW k \in 1 .. Len(t) PROVE (s \o t)[Len(s) + k] = t[k]
        <5>1. Len(s) + k \in Len(s) + 1 .. Len(s) + Len(t) /\ (Len(s) + k) - Len(s) = k
          BY <4>2
        <5> QED BY <4>2, <5>1
      <4> QED BY <4>1, <4>2, <4>3 DEF s, t
    <3> HIDE DEF n, m
    <3>5. /\ n + m <= Len(script)
          /\ \A k \in 1 .. m : script[n + k] = r.buf[k]
      <4>1. \A k \in 1 .. m : n + k \in 1 .. n + m
        BY <3>4
      <4> QED BY <3>3, <3>4, <4>1 DEF m
    <3>6. CASE srv.pc = "request"
      <4>1. n = 0
        BY <3>6, EmptyTexts DEF StreamInv, At, n
      <4>2. m <= Len(script) /\ \A j \in 1 .. m : script[j] = r.buf[j]
        BY <3>4, <3>5, <4>1
      <4> HIDE DEF script
      <4>3. InHeader(script, m)
        BY <3>1, <3>2, <4>2, FirstLine DEF m
      <4>4. Len(srv'.taken) = m
        BY <3>4, <4>1
      <4> QED BY <2>5, <2>6, <3>6, <4>3, <4>4 DEF script
    <3>7. CASE srv.pc = "headers"
      <4>1. InHeader(script, n)
        BY <2>2, <2>4, <3>2, <3>7 DEF HeaderInv, Idling, At, n
      <4>2. srv'.pc = IF r.buf = <<"crlf">> THEN "stat" ELSE "headers"
        BY <2>1, <2>8, <3>1, <3>7 DEF LineEffect
      <4> HIDE DEF script
      <4>3. IF r.buf = <<"crlf">> THEN AtHeaderEnd(script, n + m) ELSE InHeader(script, n + m)
        BY <3>1, <3>2, <3>4, <3>5, <4>1, NextLine DEF m
      <4>4. srv'.pc = "headers" => InHeader(script, Len(srv'.taken))
        BY <3>4, <4>2, <4>3
      <4>5. PastHeader' => AtHeaderEnd(script, Len(srv'.taken))
        BY <2>6, <3>4, <4>2, <4>3
      <4> QED BY <4>4, <4>5 DEF script
    <3> QED BY <2>2, <3>6, <3>7
  <2> QED BY <2>7, <2>8
<1>8. CASE Open_listenfd \/ Close
  <2>1. srv'.pc = "accept"
    <3>1. CASE Open_listenfd
      BY <1>2, <3>1 DEF Open_listenfd, Continues, Idle
    <3>2. CASE Close
      BY <3>2 DEF Close, Idle
    <3> QED BY <1>8, <3>1, <3>2
  <2> QED BY <2>1 DEF Idling
<1>9. CASE Accept
  <2>1. srv'.pc = "request"
    BY <1>1, <1>9 DEF Accept, Server
  <2> QED BY <2>1 DEF PastHeader, Goal, GoalOf
<1>10. ASSUME NEW c \in Client, Connects(c)
       PROVE  /\ srv'.pc = "headers" => InHeader(Sock'.script, Len(srv'.taken))
              /\ PastHeader' => AtHeaderEnd(Sock'.script, Len(srv'.taken))
  <2>1. net[c].fd # "open" /\ srv' = srv /\ srv.pc # "down"
    BY <1>10 DEF Connects
  <2>2. net'[srv.connfd] = net[srv.connfd]
    <3>1. srv.connfd \in Client /\ srv.connfd # c
      BY <1>1, <2>1 DEF HeldInv, QueueInv
    <3> QED BY <1>1, <1>10, <3>1 DEF Connects
  <2> QED BY <1>3, <2>1, <2>2 DEF Sock, Idling, PastHeader, Goal, GoalOf
<1>11. ASSUME NEW c \in Client, Sends(c) \/ Ends(c) \/ Resets(c)
       PROVE  /\ srv'.pc = "headers" => InHeader(Sock'.script, Len(srv'.taken))
              /\ PastHeader' => AtHeaderEnd(Sock'.script, Len(srv'.taken))
  <2>1. PICK v : /\ net' = [net EXCEPT ![c] = v] /\ v.script = net[c].script
                 /\ v.peer = "up" => net[c].peer = "up"
    BY <1>11, ClientStep
  <2>2. srv' = srv
    BY <1>11, ClientStep
  <2>3. Sock'.script = Sock.script /\ Sock.peer = "up"
    BY <1>1, <2>1, <2>2 DEF Sock
  <2> QED BY <1>3, <2>2, <2>3 DEF Idling, PastHeader, Goal, GoalOf
<1> QED BY <1>4, <1>5, <1>6, <1>7, <1>8, <1>9, <1>10, <1>11 DEF Next, main, doit

----------------------------------------------------------------------------
(* The answers                                                             *)

(* The complete answers to a request, one kind after the other.            *)
LEMMA AnswersAre ==
  ASSUME NEW req
  PROVE  /\ req.uri = "devtools" => <<>> \in AnswersTo(req)
         /\ req.uri # "devtools" /\ req.method \notin {"GET", "HEAD"} => Page("501") \in AnswersTo(req)
         /\ req.uri # "devtools" /\ req.method \in {"GET", "HEAD"} =>
              /\ Page("404") \in AnswersTo(req)
              /\ req.uri = "cgi" =>
                   \A refusal \in Refusals : /\ refusal \o Header(0) \o <<>> \in AnswersTo(req)
                                             /\ \A result \in CgiResults(req) :
                                                  refusal \o Header(0) \o result \in AnswersTo(req)
              /\ req.uri # "cgi" =>
                   /\ Page("403") \in AnswersTo(req)
                   /\ req.method = "HEAD" => \A n \in Sizes : Header(n) \in AnswersTo(req)
                   /\ req.method = "GET" => \A n \in Sizes :
                        /\ Header(n) \o Page("500") \in AnswersTo(req)
                        /\ \A m \in 0 .. n : Header(n) \o Body(n, m) \in AnswersTo(req)
<1>1. CASE req.uri = "devtools"
  BY <1>1 DEF AnswersTo
<1>2. CASE req.uri # "devtools" /\ req.method \notin {"GET", "HEAD"}
  BY <1>2 DEF AnswersTo
<1>3. CASE req.uri = "cgi" /\ req.method \in {"GET", "HEAD"}
  <2> DEFINE Answer(refusal, out) == refusal \o Header(0) \o out
             outs == {<<>>} \cup CgiResults(req)
  <2>1. AnswersTo(req) = {Page("404")} \cup {Answer(refusal, out) : refusal \in Refusals, out \in outs}
    <3> HIDE DEF outs
    <3>1. outs = {<<>>} \cup CgiResults(req)
      BY DEF outs
    <3>2. req.uri # "devtools" /\ ~(req.method \notin {"GET", "HEAD"}) /\ req.uri = "cgi"
      BY <1>3
    <3>3. AnswersTo(req) =
            {Page("404")} \cup {refusal \o Header(0) \o out : refusal \in {<<>>, Page("403")},
                                                           out \in {<<>>} \cup CgiResults(req)}
      BY <3>2 DEF AnswersTo
    <3> QED BY <3>1, <3>3 DEF Refusals
  <2>2. Page("404") \in AnswersTo(req)
    BY <2>1
  <2>3. ASSUME NEW refusal \in Refusals
        PROVE  /\ refusal \o Header(0) \o <<>> \in AnswersTo(req)
               /\ \A result \in CgiResults(req) : refusal \o Header(0) \o result \in AnswersTo(req)
    <3> HIDE DEF Answer
    <3>1. \A out \in outs : Answer(refusal, out) \in AnswersTo(req)
      BY <2>1
    <3> QED BY <3>1 DEF Answer
  <2> QED BY <1>3, <2>2, <2>3
<1>4. CASE req.uri \notin {"devtools", "cgi"} /\ req.method = "HEAD"
  BY <1>4 DEF AnswersTo
<1>5. CASE req.uri \notin {"devtools", "cgi"} /\ req.method = "GET"
  <2>1. AnswersTo(req) = {Page("404"), Page("403")} \cup UNION {FileAnswers(n) : n \in Sizes}
    BY <1>5 DEF AnswersTo
  <2>2. \A n \in Sizes : FileAnswers(n) \subseteq AnswersTo(req)
    BY <2>1
  <2>3. ASSUME NEW n \in Sizes
        PROVE  /\ Header(n) \o Page("500") \in AnswersTo(req)
               /\ \A m \in 0 .. n : Header(n) \o Body(n, m) \in AnswersTo(req)
    BY <2>2 DEF FileAnswers
  <2>4. Page("404") \in AnswersTo(req) /\ Page("403") \in AnswersTo(req)
    BY <2>1
  <2> QED BY <1>5, <2>3, <2>4
<1> QED BY <1>1, <1>2, <1>3, <1>4, <1>5

(* A part of an answer.                                                    *)
LEMMA PartIsBegun ==
  ASSUME NEW got \in Output, NEW rest \in Output
  PROVE  IsBegun(got \o rest, got)
<1> DEFINE S == Piece
<1>1. got \in Seq(S) /\ rest \in Seq(S)
  BY DEF Output
<1> HIDE DEF S
<1>2. Len(got) \in Nat /\ Len(rest) \in Nat /\ Len(got \o rest) = Len(got) + Len(rest)
  BY <1>1, LenProperties, ConcatProperties
<1>3. got = SubSeq(got \o rest, 1, Len(got))
  BY <1>1, <1>2, SubSeqOfConcat1
<1> QED BY <1>2, <1>3 DEF IsBegun

(* What can be the rest of an answer.                                      *)
LEMMA RefusalsTyped ==
  /\ \A refusal \in Refusals : refusal \in Output /\ refusal \o Header(0) \in Output
  /\ <<>> \in Output /\ \A n \in Sizes \cup {0} : Header(n) \in Output
  /\ \A code \in {"403", "404", "500", "501"} : Page(code) \in Output
<1>1. Refusals \subseteq Output /\ Header(0) \in Output
  BY PiecesTyped, EmptyTexts DEF Refusals
<1> QED BY <1>1, PiecesTyped, EmptyTexts, OutputsJoin

(* Whatever a client is owed is the beginning of an answer.                *)
LEMMA OwedBegins ==
  ASSUME NEW s \in Server, NEW cgi, NEW peer, NEW req \in Request, NEW out \in Output,
         s.pc \notin {"start", "accept", "down"},
         s.pc = "write" => s.after \in {"close", "open", "served", "failed", "fork"},
         Owed(s, cgi, peer, req, out)
  PROVE  \E rest \in Output : out \o rest \in AnswersTo(req)
<1> DEFINE goal == GoalOf(s)
<1>1. goal \in {"request", "headers", "stat", "open", "read", "served", "failed", "fork", "wait", "close"}
  BY DEF GoalOf, Server, Pc
<1> HIDE DEF goal
<1>2. out \o <<>> = out /\ <<>> \in Output
  BY OutputsJoin, EmptyTexts
<1>3. ASSUME out \in AnswersTo(req) PROVE \E rest \in Output : out \o rest \in AnswersTo(req)
  BY <1>2, <1>3
<1>4. CASE out = <<>>
  <2>1. PICK answer \in Output : answer \in AnswersTo(req)
    BY AnswersAre, RefusalsTyped
  <2>2. <<>> \o answer = answer
    BY <2>1, OutputsJoin, EmptyTexts
  <2> QED BY <1>4, <2>1, <2>2
<1>5. CASE goal \in {"request", "headers", "stat"}
  BY <1>4, <1>5 DEF Owed, goal
<1>6. CASE goal \in {"open", "read"}
  BY <1>6, AnswersAre, RefusalsTyped DEF Owed, goal
<1>7. CASE goal \in {"served", "failed"}
  <2>1. /\ req.uri = "file" /\ req.method = "GET" /\ s.size \in Sizes
        /\ \/ \E m \in 0 .. s.size : out = Header(s.size) \o Body(s.size, m)
           \/ out = Header(s.size) \o Page("500")
    BY <1>7 DEF Owed, goal
  <2>2. /\ Header(s.size) \o Page("500") \in AnswersTo(req)
        /\ \A m \in 0 .. s.size : Header(s.size) \o Body(s.size, m) \in AnswersTo(req)
    BY <2>1, AnswersAre
  <2> QED BY <1>3, <2>1, <2>2
<1>8. CASE goal \in {"fork", "wait"}
  <2>1. PICK refusal \in Refusals : \/ out = refusal \o Header(0)
                                    \/ \E result \in CgiResults(req) : out = (refusal \o Header(0)) \o result
    BY <1>8 DEF Owed, goal
  <2>2. refusal \o Header(0) \o <<>> = refusal \o Header(0)
    BY RefusalsTyped, OutputsJoin
  <2>3. req.uri = "cgi" /\ req.method \in {"GET", "HEAD"}
    BY <1>8 DEF Owed, goal
  <2> QED BY <1>3, <2>1, <2>2, <2>3, AnswersAre
<1>9. CASE goal = "close"
  BY <1>3, <1>4, <1>9 DEF Owed, goal
<1> QED BY <1>1, <1>5, <1>6, <1>7, <1>8, <1>9

(* Its script begins with a request.                                       *)
LEMMA AskedIsRequest ==
  ASSUME NEW c \in Client, NEW sock, sock.script \in Scripts[c]
  PROVE  /\ Asked(sock) \in Request /\ sock.script # <<>> /\ sock.script[1] \in DOMAIN RequestLine
  BY ScriptsAssumption DEF Asked, Request

(* What a client has when the server has written is output.                *)
LEMMA OutTyped ==
  ASSUME NEW s \in Server, NEW sock \in Connection
  PROVE  /\ Out(s, sock) \in Output /\ sock.got \in Output
         /\ s.pc # "write" => Out(s, sock) = sock.got
         /\ s.pc = "write" => Out(s, sock) = sock.got \o s.unsent
<1>1. sock.got \in Output /\ s.unsent \in Output
  BY DEF Connection, Server
<1> QED BY <1>1, OutputsJoin, EmptyTexts DEF Out

(* Output can be joined in any order.                                      *)
LEMMA OutputAssociates ==
  ASSUME NEW s \in Output, NEW t \in Output, NEW u \in Output
  PROVE  (s \o t) \o u = s \o (t \o u)
<1> DEFINE S == Piece
<1>1. s \in Seq(S) /\ t \in Seq(S) /\ u \in Seq(S)
  BY DEF Output
<1> HIDE DEF S
<1> QED BY <1>1, ConcatAssociative

(* What it has is the beginning of an answer, too.                         *)
LEMMA GotBegins ==
  ASSUME NEW s \in Server, NEW sock \in Connection, NEW cgi, Asked(sock) \in Request,
         s.pc \notin {"start", "accept", "down"},
         s.pc = "write" => s.after \in {"close", "open", "served", "failed", "fork"},
         Owed(s, cgi, sock.peer, Asked(sock), Out(s, sock))
  PROVE  Begun(sock)
<1>1. Out(s, sock) \in Output
  BY OutTyped
<1>2. PICK rest \in Output : Out(s, sock) \o rest \in AnswersTo(Asked(sock))
  BY <1>1, OwedBegins
<1> DEFINE got == sock.got
           more == IF s.pc = "write" THEN s.unsent ELSE <<>>
<1>3. got \in Output /\ more \in Output /\ Out(s, sock) = got \o more
  BY EmptyTexts DEF Out, Connection, Server
<1> HIDE DEF got, more
<1>4. more \o rest \in Output
  BY <1>3, OutputsJoin
<1>5. IsBegun(got \o (more \o rest), got)
  BY <1>3, <1>4, PartIsBegun
<1>6. (got \o more) \o rest = got \o (more \o rest)
  BY <1>3, OutputAssociates
<1> QED BY <1>2, <1>3, <1>5, <1>6 DEF Begun, got

(* The server goes on with its client, and the other clients wait.         *)
LEMMA AnswerKept ==
  ASSUME ServedInv, AnswerInv, TypesInv', srv.connfd \in Client, srv'.connfd = srv.connfd,
         \A c \in Client : c # srv.connfd => net'[c] = net[c],
         Sock'.fd = Sock.fd, Sock'.script = Sock.script, Sock'.got = Sock.got \/ Listens(Sock'),
         Answering(srv', child', Sock')
  PROVE  AnswerInv'
<1> DEFINE c == srv.connfd
           new == net'[c]
<1>1. srv.pc # "down" /\ srv'.pc \notin {"start", "accept", "down"}
  BY NoneAssumption DEF ServedInv, TypesInv, ServerTyped
<1>2. Sock.fd = "open" /\ Sock' = new
  BY <1>1 DEF ServedInv, HeldInv, QueueInv, Sock
<1>3. /\ srv' \in Server /\ new \in Connection
      /\ srv'.pc = "write" => srv'.after \in {"close", "open", "served", "failed", "fork"}
  BY DEF TypesInv, ServerTyped, NetInv
<1>4. Asked(new) \in Request
  <2>1. new.script \in Scripts[c]
    BY <1>2 DEF ServedInv, StreamInv, Sock
  <2> QED BY <2>1, AskedIsRequest
<1>5. Begun(new)
  <2>1. CASE Listens(new)
    BY <1>1, <1>2, <1>3, <1>4, <2>1, GotBegins DEF Answering
  <2>2. CASE Sock'.got = Sock.got
    BY <1>2, <2>2 DEF AnswerInv, Answered, Begun, Asked, Sock
  <2> QED BY <1>2, <2>1, <2>2
<1>6. ASSUME NEW d \in Client PROVE Answered(net'[d])
  <2>1. CASE d = c
    BY <1>2, <1>5, <2>1 DEF Answered
  <2>2. CASE d # c
    BY <2>2 DEF AnswerInv
  <2> QED BY <2>1, <2>2
<1> QED BY <1>6 DEF AnswerInv

(* ... and nothing is written in this step.                                *)
LEMMA AnswerGoesOn ==
  ASSUME ServedInv, AnswerInv, TypesInv', srv.connfd \in Client, srv'.connfd = srv.connfd, net' = net,
         Listens(Sock) => /\ GoalOf(srv') \notin {"request", "close"} => srv'.req = Asked(Sock)
                          /\ Owed(srv', child', Sock.peer, Asked(Sock), Out(srv', Sock))
  PROVE  AnswerInv'
<1>1. Sock' = Sock
  BY DEF Sock
<1>2. Answering(srv', child', Sock')
  BY <1>1 DEF Answering
<1> QED BY <1>1, <1>2, AnswerKept

(* What the server knows of the client it answers.                         *)
LEMMA Knows ==
  ASSUME ServedInv, AnswerInv, srv.pc \notin {"start", "accept", "down"}
  PROVE  /\ srv \in Server /\ srv.connfd \in Client /\ Sock \in Connection /\ ServerTyped(srv, child)
         /\ net \in [Client -> Connection] /\ (~At("wait") => child = "none")
         /\ Sock.script \in Scripts[srv.connfd] /\ Asked(Sock) \in Request /\ Sock.fd = "open"
         /\ Answering(srv, child, Sock)
<1>1. /\ srv \in Server /\ srv.connfd \in Client /\ Sock \in Connection /\ ServerTyped(srv, child)
      /\ net \in [Client -> Connection] /\ (~At("wait") => child = "none")
  BY Serves DEF ServedInv, ClientTyped, NetInv
<1>2. Sock.fd = "open"
  BY <1>1 DEF ServedInv, HeldInv, QueueInv, Sock
<1>3. Sock.script \in Scripts[srv.connfd]
  BY <1>1, <1>2 DEF ServedInv, StreamInv, Sock
<1> QED BY <1>1, <1>2, <1>3, AskedIsRequest DEF AnswerInv

(* The header or the refusal that is begun after stat fits the request.    *)
LEMMA StatAnswers ==
  ASSUME ServedInv, AnswerInv, TypesInv', Stat
  PROVE  AnswerInv'
<1>1. srv.pc = "stat" /\ child = "none"
  BY Serves DEF Stat, At, ServedInv
<1>2. /\ srv \in Server /\ srv.connfd \in Client /\ Sock \in Connection /\ Asked(Sock) \in Request
      /\ Answering(srv, child, Sock)
  BY <1>1, Knows
<1> DEFINE n == disk.file.size
           t == [srv EXCEPT !.size = n]
<1>3. PICK s \in {srv, t}, tokens \in Output, after \in {"close", "open", "fork"} :
        /\ Continues(Writing(s, tokens, after))
        /\ \/ after = "close" /\ tokens = Page("404")
           \/ after = "close" /\ tokens = Page("403") /\ srv.req.uri = "file"
           \/ /\ after = "close" /\ tokens = Header(n) /\ srv.req.uri = "file" /\ srv.req.method = "HEAD"
           \/ /\ after = "open" /\ tokens = Header(n) /\ srv.req.uri = "file" /\ srv.req.method # "HEAD"
              /\ s = t
           \/ /\ after = "fork" /\ srv.req.uri # "file"
              /\ \E refusal \in Refusals : tokens = refusal \o Header(0)
  <2>1. n \in Sizes
    BY DEF ServedInv, TypesInv, Sizes
  <2> DEFINE refusal == IF (IF srv.req.uri = "cgi" THEN disk.cgi ELSE disk.file).mode = "denied"
                        THEN Page("403") ELSE <<>>
  <2>2. refusal \in Refusals /\ refusal \o Header(0) \in Output
    BY RefusalsTyped DEF Refusals
  <2>3. Page("404") \in Output /\ Page("403") \in Output /\ Header(n) \in Output
    BY <2>1, RefusalsTyped
  <2>4. \/ Continues(Writing(srv, Page("404"), "close"))
        \/ srv.req.uri = "file" /\ Continues(Writing(srv, Page("403"), "close"))
        \/ srv.req.uri = "file" /\ srv.req.method = "HEAD" /\ Continues(Writing(t, Header(n), "close"))
        \/ srv.req.uri = "file" /\ srv.req.method # "HEAD" /\ Continues(Writing(t, Header(n), "open"))
        \/ srv.req.uri # "file" /\ Continues(Writing(srv, refusal \o Header(0), "fork"))
    BY DEF Stat, clienterror
  <2> HIDE DEF n, t, refusal
  <2> QED BY <2>2, <2>3, <2>4
<1> HIDE DEF n
<1>4. /\ net' = net /\ srv'.connfd = srv.connfd /\ srv'.req = srv.req /\ child' = child
      /\ srv'.pc = "write" /\ srv'.after = after /\ srv'.unsent = tokens
      /\ (after = "open" => srv'.size = n)
  BY <1>2, <1>3 DEF Continues, Writing, Server
<1>5. srv' \in Server /\ n \in Sizes
  BY DEF ServedInv, TypesInv, ServerTyped, Sizes, n
<1>6. ASSUME Listens(Sock)
      PROVE  /\ GoalOf(srv') \notin {"request", "close"} => srv'.req = Asked(Sock)
             /\ Owed(srv', child', Sock.peer, Asked(Sock), Out(srv', Sock))
  <2> DEFINE req == Asked(Sock)
  <2>1. /\ srv.req = req /\ req.method \in {"GET", "HEAD"} /\ req.uri # "devtools"
        /\ Out(srv, Sock) = <<>>
    BY <1>1, <1>6, <1>2 DEF Answering, Owed, GoalOf
  <2>2. Out(srv', Sock) = tokens
    <3>1. Sock.got = <<>> /\ <<>> \o tokens = tokens
      BY <1>1, <1>2, <2>1, OutTyped, OutputsJoin, EmptyTexts
    <3> QED BY <1>2, <1>4, <1>5, <3>1, OutTyped
  <2>3. req.uri \in {"file", "cgi", "devtools"}
    BY <1>2 DEF Request, RequestLine, To
  <2>4. GoalOf(srv') = after
    BY <1>4 DEF GoalOf
  <2> HIDE DEF req
  <2>5. CASE after = "close"
    <3>1. tokens \in AnswersTo(req)
      BY <1>3, <1>5, <2>1, <2>3, <2>5, AnswersAre
    <3> QED BY <2>2, <2>4, <2>5, <3>1 DEF Owed, req
  <2>6. CASE after = "open"
    BY <1>3, <1>4, <1>5, <2>1, <2>2, <2>4, <2>6 DEF Owed, req
  <2>7. CASE after = "fork"
    BY <1>3, <1>4, <2>1, <2>2, <2>3, <2>4, <2>7 DEF Owed, req
  <2> QED BY <2>5, <2>6, <2>7
<1> QED BY <1>2, <1>4, <1>6, AnswerGoesOn

(* The header of the file was sent when it is opened, and nothing is read  *)
(* yet.                                                                    *)
LEMMA OpenAnswers ==
  ASSUME ServedInv, AnswerInv, TypesInv', Open, ~unix_error
  PROVE  AnswerInv'
<1>1. srv.pc = "open" /\ child = "none"
  BY Serves DEF Open, At, ServedInv
<1>2. /\ srv \in Server /\ srv.connfd \in Client /\ Sock \in Connection /\ Answering(srv, child, Sock)
  BY <1>1, Knows
<1>3. /\ net' = net /\ srv'.connfd = srv.connfd /\ srv'.req = srv.req /\ child' = child
      /\ srv'.pc = "read" /\ srv'.size = srv.size /\ srv'.filedata = <<>>
  BY <1>2 DEF Open, Continues, Server
<1>4. ASSUME Listens(Sock)
      PROVE  /\ GoalOf(srv') \notin {"request", "close"} => srv'.req = Asked(Sock)
             /\ Owed(srv', child', Sock.peer, Asked(Sock), Out(srv', Sock))
  <2>1. /\ srv.req = Asked(Sock) /\ Owed(srv, child, Sock.peer, Asked(Sock), Out(srv, Sock))
        /\ GoalOf(srv) = "open" /\ GoalOf(srv') = "read"
    BY <1>1, <1>2, <1>3, <1>4 DEF Answering, GoalOf
  <2>2. Out(srv', Sock) = Out(srv, Sock)
    BY <1>1, <1>3 DEF Out
  <2>3. \E m \in 0 .. srv.size : srv'.filedata = [k \in 1 .. m |-> Block]
    <3>1. srv.size \in Nat
      BY <2>1, SizesAreNat DEF Owed
    <3>2. <<>> = [k \in 1 .. 0 |-> Block] /\ 0 \in 0 .. srv.size
      BY <3>1
    <3> QED BY <1>3, <3>2
  <2> QED BY <1>3, <2>1, <2>2, <2>3 DEF Owed
<1> QED BY <1>2, <1>3, <1>4, AnswerGoesOn

(* The blocks of a file that were read, and the blocks read next.          *)
LEMMA BlocksJoin ==
  ASSUME NEW S, NEW x \in S, NEW m \in Nat, NEW n \in Nat, NEW k \in m .. n
  PROVE  [j \in 1 .. m |-> x] \o SubSeq([j \in 1 .. n |-> x], m + 1, k) = [j \in 1 .. k |-> x]
<1> DEFINE Row(i) == [j \in 1 .. i |-> x]
<1>1. ASSUME NEW i \in Nat
      PROVE  Row(i) \in Seq(S) /\ Len(Row(i)) = i /\ \A j \in 1 .. i : Row(i)[j] = x
  BY Repeated
<1> HIDE DEF Row
<1>2. ASSUME NEW i \in 0 .. n PROVE SubSeq(Row(n), 1, i) = Row(i)
  <2>1. /\ Row(n) \in Seq(S) /\ Len(Row(n)) = n /\ \A j \in 1 .. n : Row(n)[j] = x
        /\ Row(i) \in Seq(S) /\ Len(Row(i)) = i /\ \A j \in 1 .. i : Row(i)[j] = x
    BY <1>1
  <2>2. /\ SubSeq(Row(n), 1, i) \in Seq(S) /\ Len(SubSeq(Row(n), 1, i)) = i
        /\ \A j \in 1 .. i : SubSeq(Row(n), 1, i)[j] = x
    BY <2>1, Divided
  <2> QED BY <2>1, <2>2, SeqEqual
<1>3. SubSeq(Row(n), 1, m) \o SubSeq(Row(n), m + 1, k) = SubSeq(Row(n), 1, k)
  <2>1. Row(n) \in Seq(S) /\ 1 \in 1 .. Len(Row(n)) + 1 /\ m \in 1 - 1 .. Len(Row(n)) /\ k \in m .. Len(Row(n))
    BY <1>1
  <2> QED BY <2>1, ConcatAdjacentSubSeq
<1>4. Row(m) \o SubSeq(Row(n), m + 1, k) = Row(k)
  <2>1. m \in 0 .. n /\ k \in 0 .. n
    OBVIOUS
  <2>2. SubSeq(Row(n), 1, m) = Row(m) /\ SubSeq(Row(n), 1, k) = Row(k)
    BY <1>2, <2>1
  <2> QED BY <1>3, <2>2
<1> QED BY <1>4 DEF Row

(* A body of which not all was read is filled up with junk.                *)
LEMMA BodyFilled ==
  ASSUME NEW m \in Nat, NEW n \in Nat, m <= n
  PROVE  [k \in 1 .. m |-> Block] \o [k \in 1 .. n - m |-> Junk] = Body(n, m)
<1> DEFINE S == Piece
           s == [k \in 1 .. m |-> Block]
           t == [k \in 1 .. n - m |-> Junk]
<1>1. Block \in S /\ Junk \in S
  BY PiecesTyped
<1>2. Body(n, m) \in Seq(S) /\ Len(Body(n, m)) = n
  <2>1. Body(n, m) \in [1 .. n -> S]
    BY <1>1 DEF Body
  <2>2. Body(n, m) \in Seq(S)
    BY <2>1, SeqDef
  <2> QED BY <2>1, <2>2, LenProperties
<1>3. ASSUME NEW k \in 1 .. n PROVE Body(n, m)[k] = IF k <= m THEN Block ELSE Junk
  BY DEF Body
<1> HIDE DEF S
<1>4. s \in Seq(S) /\ Len(s) = m /\ \A k \in 1 .. m : s[k] = Block
  BY <1>1, Repeated
<1>5. t \in Seq(S) /\ Len(t) = n - m /\ \A k \in 1 .. n - m : t[k] = Junk
  <2> DEFINE i == n - m
  <2>1. i \in Int /\ i >= 0
    OBVIOUS
  <2> HIDE DEF i
  <2>2. [k \in 1 .. i |-> Junk] \in Seq(S) /\ Len([k \in 1 .. i |-> Junk]) = i
    BY <1>1, <2>1, Repeated
  <2> QED BY <2>2 DEF i
<1> HIDE DEF s, t
<1>6. /\ s \o t \in Seq(S) /\ Len(s \o t) = n
      /\ \A k \in 1 .. n : (s \o t)[k] = IF k <= m THEN Block ELSE Junk
  <2>1. /\ s \o t \in Seq(S) /\ Len(s \o t) = Len(s) + Len(t)
        /\ \A k \in 1 .. Len(s) : (s \o t)[k] = s[k]
        /\ \A k \in Len(s) + 1 .. Len(s) + Len(t) : (s \o t)[k] = t[k - Len(s)]
    <3>1. s \in Seq(S) /\ t \in Seq(S)
      BY <1>4, <1>5
    <3> QED BY <3>1, ConcatProperties
  <2>2. \A k \in m + 1 .. n : k - m \in 1 .. n - m
    OBVIOUS
  <2> QED BY <1>4, <1>5, <2>1, <2>2
<1>7. s \o t = Body(n, m)
  BY <1>2, <1>3, <1>6, SeqEqual
<1> QED BY <1>7 DEF s, t

(* The body has as many blocks as the header promised.                     *)
LEMMA ReadFileAnswers ==
  ASSUME ServedInv, AnswerInv, TypesInv', ReadFile
  PROVE  AnswerInv'
<1> DEFINE n == srv.size
           body == srv.filedata \o [k \in 1 .. n - Len(srv.filedata) |-> Junk]
<1>1. srv.pc = "read" /\ child = "none"
  BY Serves DEF ReadFile, At, ServedInv
<1>2. /\ srv \in Server /\ srv.connfd \in Client /\ Sock \in Connection /\ Answering(srv, child, Sock)
      /\ srv' \in Server
  BY <1>1, Knows DEF TypesInv, ServerTyped
<1>3. PICK s : /\ Continues(s)
               /\ \/ \E data \in ReadRounds(srv.filedata, Blocks(disk.file), n) : s = [srv EXCEPT !.filedata = data]
                  \/ body = <<>> /\ s = [srv EXCEPT !.pc = "served"]
                  \/ body \in Output /\ s = Writing([srv EXCEPT !.filedata = body], body, "served")
                  \/ s = Writing(srv, Page("500"), "failed")
  BY ReadFileCases DEF ServedInv, clienterror
<1> HIDE DEF body, n
<1>4. /\ net' = net /\ child' = child /\ srv'.connfd = srv.connfd /\ srv'.req = srv.req /\ srv'.size = srv.size
      /\ \/ /\ srv'.pc = "read"
            /\ \E data \in ReadRounds(srv.filedata, Blocks(disk.file), n) : srv'.filedata = data
         \/ body = <<>> /\ srv'.pc = "served"
         \/ body \in Output /\ srv'.pc = "write" /\ srv'.unsent = body /\ srv'.after = "served"
         \/ srv'.pc = "write" /\ srv'.unsent = Page("500") /\ srv'.after = "failed"
  BY <1>1, <1>2, <1>3 DEF Continues, Writing, Server
<1>5. ASSUME Listens(Sock)
      PROVE  /\ GoalOf(srv') \notin {"request", "close"} => srv'.req = Asked(Sock)
             /\ Owed(srv', child', Sock.peer, Asked(Sock), Out(srv', Sock))
  <2> DEFINE req == Asked(Sock)
  <2>1. /\ srv.req = req /\ Owed(srv, child, Sock.peer, req, Out(srv, Sock)) /\ GoalOf(srv) = "read"
        /\ Out(srv, Sock) = Sock.got
    BY <1>1, <1>2, <1>5, OutTyped DEF Answering, GoalOf
  <2>2. /\ req.method = "GET" /\ req.uri = "file" /\ n \in Sizes /\ n \in Nat /\ Sock.got = Header(n)
    BY <2>1, SizesAreNat DEF Owed, n
  <2>3. PICK m \in 0 .. n : srv.filedata = [k \in 1 .. m |-> Block]
    BY <2>1 DEF Owed, n
  <2>4. Len(srv.filedata) = m /\ m \in Nat
    <3>1. m \in Nat /\ m \in Int
      BY <2>2
    <3> QED BY <2>3, <3>1, PiecesTyped, Repeated
  <2>5. body = Body(n, m)
    BY <2>2, <2>3, <2>4, BodyFilled DEF body
  <2>6. srv'.size = n
    BY <1>4 DEF n
  <2> HIDE DEF req
  <2>7. CASE srv'.pc = "read" /\ \E data \in ReadRounds(srv.filedata, Blocks(disk.file), n) : srv'.filedata = data
    <3>1. PICK k \in m + 1 .. Least(n, Len(Blocks(disk.file))) :
            srv'.filedata = srv.filedata \o SubSeq(Blocks(disk.file), m + 1, k)
      BY <2>4, <2>7 DEF ReadRounds
    <3>2. Blocks(disk.file) = [j \in 1 .. disk.file.size |-> Block] /\ Len(Blocks(disk.file)) = disk.file.size
          /\ disk.file.size \in Nat
      BY FileTyped DEF ServedInv, Blocks
    <3>3. k \in m .. disk.file.size /\ k \in 0 .. n
      BY <2>2, <2>4, <3>1, <3>2 DEF Least
    <3>4. srv'.filedata = [j \in 1 .. k |-> Block]
      <4> DEFINE size == disk.file.size
      <4> HIDE DEF size
      <4>1. [j \in 1 .. m |-> Block] \o SubSeq([j \in 1 .. size |-> Block], m + 1, k) = [j \in 1 .. k |-> Block]
        BY <2>4, <3>2, <3>3, PiecesTyped, BlocksJoin DEF size
      <4> QED BY <2>3, <3>1, <3>2, <4>1 DEF size
    <3>5. Out(srv', Sock) = Sock.got
      BY <1>2, <2>7, OutTyped
    <3>6. GoalOf(srv') = "read"
      BY <2>7 DEF GoalOf
    <3>7. \E i \in 0 .. srv'.size : srv'.filedata = [j \in 1 .. i |-> Block]
      BY <2>6, <3>3, <3>4
    <3> QED BY <1>4, <2>1, <2>2, <2>6, <3>5, <3>6, <3>7 DEF Owed, req
  <2>8. CASE body = <<>> /\ srv'.pc = "served"
    <3>1. Out(srv', Sock) = Header(n) \o Body(n, m)
      <4>1. Header(n) \o <<>> = Header(n)
        BY <2>2, RefusalsTyped, OutputsJoin
      <4> QED BY <1>2, <2>2, <2>5, <2>8, <4>1, OutTyped
    <3>2. GoalOf(srv') = "served"
      BY <2>8 DEF GoalOf
    <3> QED BY <1>4, <2>1, <2>2, <2>6, <3>1, <3>2 DEF Owed, req
  <2>9. CASE srv'.pc = "write" /\ srv'.unsent = body /\ srv'.after = "served"
    <3>1. Out(srv', Sock) = Header(n) \o Body(n, m)
      BY <1>2, <2>2, <2>5, <2>9, OutTyped
    <3>2. GoalOf(srv') = "served"
      BY <2>9 DEF GoalOf
    <3> QED BY <1>4, <2>1, <2>2, <2>6, <3>1, <3>2 DEF Owed, req
  <2>10. CASE srv'.pc = "write" /\ srv'.unsent = Page("500") /\ srv'.after = "failed"
    <3>1. Out(srv', Sock) = Header(n) \o Page("500")
      BY <1>2, <2>2, <2>10, OutTyped
    <3>2. GoalOf(srv') = "failed"
      BY <2>10 DEF GoalOf
    <3> QED BY <1>4, <2>1, <2>2, <2>6, <3>1, <3>2 DEF Owed, req
  <2> QED BY <1>4, <2>7, <2>8, <2>9, <2>10
<1> QED BY <1>2, <1>4, <1>5, AnswerGoesOn

(* A file that is closed was sent, or its failure reported.                *)
LEMMA CloseFileAnswers ==
  ASSUME ServedInv, AnswerInv, TypesInv', CloseFile
  PROVE  AnswerInv'
<1>1. srv.pc \in {"served", "failed"} /\ child = "none"
  BY Serves DEF CloseFile, At, ServedInv
<1>2. /\ srv \in Server /\ srv.connfd \in Client /\ Sock \in Connection /\ Answering(srv, child, Sock)
  BY <1>1, Knows
<1>3. net' = net /\ srv'.connfd = srv.connfd /\ child' = child /\ srv'.pc = "close"
  BY <1>2 DEF CloseFile, Continues, Server
<1>4. ASSUME Listens(Sock)
      PROVE  /\ GoalOf(srv') \notin {"request", "close"} => srv'.req = Asked(Sock)
             /\ Owed(srv', child', Sock.peer, Asked(Sock), Out(srv', Sock))
  <2> DEFINE req == Asked(Sock)
  <2>1. GoalOf(srv) \in {"served", "failed"} /\ GoalOf(srv') = "close" /\ Out(srv', Sock) = Out(srv, Sock)
    BY <1>1, <1>3 DEF GoalOf, Out
  <2>2. Owed(srv, child, Sock.peer, req, Out(srv, Sock))
    BY <1>2, <1>4 DEF Answering
  <2> HIDE DEF req
  <2>3. /\ req.uri = "file" /\ req.method = "GET" /\ srv.size \in Sizes
        /\ \/ \E m \in 0 .. srv.size : Out(srv, Sock) = Header(srv.size) \o Body(srv.size, m)
           \/ Out(srv, Sock) = Header(srv.size) \o Page("500")
    BY <2>1, <2>2 DEF Owed
  <2>4. Out(srv, Sock) \in AnswersTo(req)
    <3>1. /\ Header(srv.size) \o Page("500") \in AnswersTo(req)
          /\ \A m \in 0 .. srv.size : Header(srv.size) \o Body(srv.size, m) \in AnswersTo(req)
      BY <2>3, AnswersAre
    <3> QED BY <2>3, <3>1
  <2> QED BY <2>1, <2>4 DEF Owed, req
<1> QED BY <1>2, <1>3, <1>4, AnswerGoesOn

(* The CGI process has written nothing when it is forked.                  *)
LEMMA ForkAnswers ==
  ASSUME ServedInv, AnswerInv, TypesInv', Fork, ~unix_error
  PROVE  AnswerInv'
<1>1. srv.pc = "fork" /\ child = "none"
  BY Serves DEF Fork, At, ServedInv
<1>2. /\ srv \in Server /\ srv.connfd \in Client /\ Sock \in Connection /\ Answering(srv, child, Sock)
  BY <1>1, Knows
<1>3. net' = net /\ srv'.connfd = srv.connfd /\ srv'.req = srv.req /\ child' = "forked" /\ srv'.pc = "wait"
  BY <1>2 DEF Fork, Server
<1>4. ASSUME Listens(Sock)
      PROVE  /\ GoalOf(srv') \notin {"request", "close"} => srv'.req = Asked(Sock)
             /\ Owed(srv', child', Sock.peer, Asked(Sock), Out(srv', Sock))
  <2> DEFINE req == Asked(Sock)
  <2>1. GoalOf(srv) = "fork" /\ GoalOf(srv') = "wait" /\ Out(srv', Sock) = Out(srv, Sock)
    BY <1>1, <1>3 DEF GoalOf, Out
  <2>2. srv.req = req /\ Owed(srv, child, Sock.peer, req, Out(srv, Sock))
    BY <1>2, <1>4, <2>1 DEF Answering
  <2> HIDE DEF req
  <2> QED BY <1>1, <1>3, <2>1, <2>2 DEF Owed, req
<1> QED BY <1>2, <1>3, <1>4, AnswerGoesOn

(* With the exit of the CGI process the answer is whole, whether it could  *)
(* write or not.                                                           *)
LEMMA WaitAnswers ==
  ASSUME ServedInv, AnswerInv, TypesInv', Wait
  PROVE  AnswerInv'
<1>1. srv.pc = "wait" /\ child = "exited"
  BY DEF Wait, At
<1>2. /\ srv \in Server /\ srv.connfd \in Client /\ Sock \in Connection /\ Answering(srv, child, Sock)
  BY <1>1, Knows
<1>3. net' = net /\ srv'.connfd = srv.connfd /\ srv'.pc = "close"
  BY <1>2 DEF Wait, Server
<1>4. ASSUME Listens(Sock)
      PROVE  /\ GoalOf(srv') \notin {"request", "close"} => srv'.req = Asked(Sock)
             /\ Owed(srv', child', Sock.peer, Asked(Sock), Out(srv', Sock))
  <2> DEFINE req == Asked(Sock)
             out == Out(srv, Sock)
  <2>1. GoalOf(srv) = "wait" /\ GoalOf(srv') = "close" /\ Out(srv', Sock) = out
    BY <1>1, <1>3 DEF GoalOf, Out
  <2>2. Owed(srv, child, Sock.peer, req, out)
    BY <1>2, <1>4 DEF Answering
  <2> HIDE DEF req, out
  <2>3. PICK refusal \in Refusals : \/ out = refusal \o Header(0)
                                    \/ \E result \in CgiResults(req) : out = (refusal \o Header(0)) \o result
    BY <2>1, <2>2 DEF Owed
  <2>4. req.uri = "cgi" /\ req.method \in {"GET", "HEAD"}
    BY <2>1, <2>2 DEF Owed
  <2>5. refusal \o Header(0) \o <<>> = refusal \o Header(0)
    BY RefusalsTyped, OutputsJoin
  <2>6. out \in AnswersTo(req)
    BY <2>3, <2>4, <2>5, AnswersAre
  <2> QED BY <2>1, <2>6 DEF Owed, req
<1> QED BY <1>2, <1>3, <1>4, AnswerGoesOn

(* The CGI process answers the request that the server was asked for.      *)
LEMMA CgiAnswers ==
  ASSUME ServedInv, AnswerInv, TypesInv', RunCgi
  PROVE  AnswerInv'
<1>1. srv.pc = "wait" /\ child = "forked" /\ srv' = srv /\ child' = "exited"
  BY CgiStep DEF ServedInv, RunCgi
<1>2. /\ srv \in Server /\ srv.connfd \in Client /\ Sock \in Connection /\ Answering(srv, child, Sock)
      /\ net \in [Client -> Connection] /\ Asked(Sock) \in Request /\ Sock.got \in Output
  BY <1>1, Knows DEF Connection
<1>3. GoalOf(srv) = "wait" /\ Out(srv, Sock) = Sock.got
  BY <1>1, <1>2, OutTyped DEF GoalOf
<1>4. CASE /\ CgiOutput # <<>> /\ Sock.peer \in {"up", "fin"}
           /\ net' = [net EXCEPT ![srv.connfd].got = @ \o CgiOutput]
  <2> DEFINE v == [Sock EXCEPT !.got = Sock.got \o CgiOutput]
             req == Asked(Sock)
  <2>1. srv.req = req /\ Owed(srv, child, Sock.peer, req, Sock.got)
    BY <1>2, <1>3, <1>4 DEF Answering, Listens
  <2>2. net' = [net EXCEPT ![srv.connfd] = v]
    BY <1>2, <1>4 DEF Connection, Sock
  <2>3. /\ v.got = Sock.got \o CgiOutput /\ v.fd = Sock.fd /\ v.script = Sock.script
        /\ v.peer = Sock.peer
    BY <1>2 DEF Connection
  <2> HIDE DEF v
  <2>4. Sock' = v /\ \A c \in Client : c # srv.connfd => net'[c] = net[c]
    BY <1>1, <1>2, <2>2 DEF Sock
  <2>5. CgiOutput \in CgiResults(req) /\ CgiOutput \in Output
    BY <1>2, <1>4, <2>1, CgiOutputIs, PiecesTyped DEF ServedInv
  <2>6. Out(srv, v) = Sock.got \o CgiOutput
    <3>1. Sock.got \o CgiOutput \in Output /\ (Sock.got \o CgiOutput) \o <<>> = Sock.got \o CgiOutput
      BY <1>2, <2>5, OutputsJoin, EmptyTexts
    <3> QED BY <1>1, <2>3, <3>1 DEF Out
  <2>7. Asked(v) = req
    BY <2>3 DEF Asked
  <2> HIDE DEF req
  <2>8. Owed(srv, "exited", v.peer, req, Out(srv, v))
    BY <1>1, <1>3, <2>1, <2>5, <2>6 DEF Owed
  <2>9. Answering(srv', child', Sock')
    BY <1>1, <2>1, <2>4, <2>7, <2>8 DEF Answering
  <2>10. Listens(Sock')
    BY <1>4, <2>3, <2>4 DEF Listens
  <2> QED BY <1>1, <1>2, <2>3, <2>4, <2>9, <2>10, AnswerKept
<1>5. ASSUME NEW v, net' = [net EXCEPT ![srv.connfd] = v], v.got = Sock.got, v.fd = Sock.fd,
             v.script = Sock.script, Listens(v) => Listens(Sock) /\ v.peer = Sock.peer
      PROVE  AnswerInv'
  <2>1. Sock' = v /\ \A c \in Client : c # srv.connfd => net'[c] = net[c]
    BY <1>1, <1>2, <1>5 DEF Sock
  <2>2. Out(srv, v) = Sock.got /\ Asked(v) = Asked(Sock)
    BY <1>3, <1>5 DEF Out, Asked
  <2>3. ASSUME Listens(v)
        PROVE  /\ GoalOf(srv) \notin {"request", "close"} => srv.req = Asked(Sock)
               /\ Owed(srv, "exited", v.peer, Asked(Sock), Sock.got)
    <3>1. srv.req = Asked(Sock) /\ Owed(srv, child, Sock.peer, Asked(Sock), Sock.got) /\ v.peer = Sock.peer
      BY <1>2, <1>3, <1>5, <2>3 DEF Answering
    <3> QED BY <1>1, <1>3, <3>1 DEF Owed
  <2>4. Answering(srv', child', Sock')
    BY <1>1, <2>1, <2>2, <2>3 DEF Answering
  <2> QED BY <1>1, <1>2, <1>5, <2>1, <2>4, AnswerKept
<1>6. CASE net' = [net EXCEPT ![srv.connfd].peer = "broken"]
  <2> DEFINE v == [Sock EXCEPT !.peer = "broken"]
  <2>1. net' = [net EXCEPT ![srv.connfd] = v]
    BY <1>2, <1>6 DEF Connection, Sock
  <2>2. v.got = Sock.got /\ v.fd = Sock.fd /\ v.script = Sock.script /\ ~Listens(v)
    BY <1>2 DEF Connection, Listens
  <2> HIDE DEF v
  <2> QED BY <1>5, <2>1, <2>2
<1>7. CASE UNCHANGED net
  <2>1. net' = [net EXCEPT ![srv.connfd] = Sock]
    BY <1>2, <1>7 DEF Sock
  <2> QED BY <1>5, <2>1
<1> QED BY <1>4, <1>6, <1>7 DEF RunCgi

(* rio_writen sends what was to be sent, in order, or finds that nobody    *)
(* listens.                                                                *)
LEMMA WriteAnswers ==
  ASSUME ServedInv, AnswerInv, TypesInv', Write, ~unix_error
  PROVE  AnswerInv'
<1>1. srv.pc = "write" /\ child = "none"
  BY Serves DEF Write, At, ServedInv
<1>2. /\ srv \in Server /\ srv.connfd \in Client /\ Sock \in Connection /\ Answering(srv, child, Sock)
      /\ net \in [Client -> Connection] /\ Sock.got \in Output /\ srv.after # "write"
  BY <1>1, Knows DEF Connection, ServerTyped
<1>3. child' = child
  BY WriteCases DEF ServedInv
<1>4. ASSUME NEW sent \in Output, NEW unsent \in Output, Listens(Sock), sent \o unsent = srv.unsent,
             net' = [net EXCEPT ![srv.connfd] = [Sock EXCEPT !.got = Sock.got \o sent]],
             srv' = [srv EXCEPT !.unsent = unsent,
                                !.pc = IF unsent = <<>> THEN srv.after ELSE "write"]
      PROVE  AnswerInv'
  <2> DEFINE v == [Sock EXCEPT !.got = Sock.got \o sent]
             req == Asked(Sock)
  <2>1. v.got = Sock.got \o sent /\ v.fd = Sock.fd /\ v.script = Sock.script /\ v.peer = Sock.peer
    BY <1>2 DEF Connection
  <2>2. /\ srv'.connfd = srv.connfd /\ srv'.req = srv.req /\ srv'.unsent = unsent /\ srv'.after = srv.after
        /\ srv'.size = srv.size /\ srv'.filedata = srv.filedata
        /\ srv'.pc = IF unsent = <<>> THEN srv.after ELSE "write"
    BY <1>2, <1>4 DEF Server
  <2> HIDE DEF v
  <2>3. Sock' = v /\ \A c \in Client : c # srv.connfd => net'[c] = net[c]
    BY <1>2, <1>4, <2>2 DEF Sock, v
  <2>4. GoalOf(srv') = GoalOf(srv)
    BY <1>1, <1>2, <2>2 DEF GoalOf
  <2>5. Out(srv', v) = Out(srv, Sock)
    <3>1. Out(srv, Sock) = Sock.got \o (sent \o unsent)
      BY <1>1, <1>4 DEF Out
    <3>2. (Sock.got \o sent) \o unsent = Sock.got \o (sent \o unsent)
      BY <1>2, <1>4, OutputAssociates
    <3>3. Out(srv', v) = (Sock.got \o sent) \o unsent
      BY <1>2, <2>1, <2>2 DEF Out
    <3> QED BY <3>1, <3>2, <3>3
  <2>6. /\ GoalOf(srv) \notin {"request", "close"} => srv.req = req
        /\ Owed(srv, child, Sock.peer, req, Out(srv, Sock))
    BY <1>2, <1>4 DEF Answering
  <2>7. Asked(v) = req
    BY <2>1 DEF Asked
  <2> HIDE DEF req
  <2>8. Owed(srv', child', v.peer, req, Out(srv', v))
    BY <1>3, <2>1, <2>2, <2>4, <2>5, <2>6 DEF Owed
  <2>9. Answering(srv', child', Sock')
    BY <2>2, <2>3, <2>4, <2>6, <2>7, <2>8 DEF Answering
  <2>10. Listens(Sock')
    BY <1>4, <2>1, <2>3 DEF Listens
  <2> QED BY <1>2, <2>1, <2>2, <2>3, <2>9, <2>10, AnswerKept
<1>5. CASE /\ net' = [net EXCEPT ![srv.connfd] = [Sock EXCEPT !.peer = "broken"]]
           /\ srv' = clienterror([srv EXCEPT !.srcfd = "closed", !.filedata = NONE], "500", "close")
  <2> DEFINE v == [Sock EXCEPT !.peer = "broken"]
  <2>1. v.got = Sock.got /\ v.fd = Sock.fd /\ v.script = Sock.script /\ v.peer = "broken"
    BY <1>2 DEF Connection
  <2>2. srv'.connfd = srv.connfd
    BY <1>2, <1>5 DEF clienterror, Writing, Server
  <2> HIDE DEF v
  <2>3. Sock' = v /\ \A c \in Client : c # srv.connfd => net'[c] = net[c]
    BY <1>2, <1>5, <2>2 DEF Sock, v
  <2>4. Answering(srv', child', Sock')
    BY <2>1, <2>3 DEF Answering, Listens
  <2> QED BY <1>2, <2>1, <2>2, <2>3, <2>4, AnswerKept
<1> QED
  <2>1. TypesInv
    BY DEF ServedInv
  <2> QED BY <1>4, <1>5, <2>1, WriteCases

(* A request line is read: the first line of what the client sent.         *)
LEMMA ReadRequestAnswers ==
  ASSUME ServedInv, AnswerInv, TypesInv', StreamInv', ReadRequest
  PROVE  AnswerInv'
<1>1. srv.pc = "request" /\ child = "none" /\ child' = child
  BY Serves DEF ReadRequest, At, ServedInv
<1>2. /\ srv \in Server /\ srv.connfd \in Client /\ Sock \in Connection /\ Answering(srv, child, Sock)
      /\ net \in [Client -> Connection] /\ Asked(Sock) \in Request /\ NONE \notin Client
      /\ Sock.script \in Scripts[srv.connfd]
  BY <1>1, Knows, NoneAssumption
<1>3. PICK r \in LineSteps :
        /\ net' = [net EXCEPT ![srv.connfd] = r.sock]
        /\ \/ ~r.done /\ srv' = Gathers(r)
           \/ r.done /\ r.rc = 0 /\ srv' = [GotLine(r) EXCEPT !.pc = "close"]
           \/ r.done /\ r.rc > 0 /\ \E req \in Parsed(r.buf) : srv' = Takes(GotLine(r), req)
           \/ r.done /\ r.rc < 0 /\ \E req \in Request : srv' = Takes(GotLine(r), req)
  BY ParsedTyped DEF ReadRequest
<1>4. LineResult(srv.buf, srv.rio, Sock, r)
  BY <1>1, LineTyped DEF ServedInv
<1>5. /\ r.sock.fd = Sock.fd /\ r.sock.script = Sock.script /\ r.sock.got = Sock.got
      /\ Listens(r.sock) => Listens(Sock)
  BY <1>2, <1>4 DEF LineResult, After, Connection, Listens
<1>6. r.done => LET s == GotLine(r)
                IN  /\ s \in Server /\ s.connfd = srv.connfd /\ s.pc = "request" /\ s.buf = <<>>
                    /\ s.taken = srv.taken \o r.buf
  BY <1>1, GotLineTyped DEF ServedInv
<1>7. /\ srv'.connfd = srv.connfd /\ srv' \in Server
      /\ r.done => srv'.taken = srv.taken \o r.buf
  <2>1. srv' \in Server
    BY DEF TypesInv, ServerTyped
  <2>2. CASE ~r.done
    BY <1>2, <1>3, <2>1, <2>2 DEF Gathers, Server
  <2>3. CASE r.done
    <3> DEFINE s == GotLine(r)
    <3>1. srv' = [s EXCEPT !.pc = "close"] \/ \E req : srv' = Takes(s, req)
      BY <1>3, <2>3
    <3>2. s \in Server /\ s.connfd = srv.connfd /\ s.taken = srv.taken \o r.buf
      BY <1>6, <2>3
    <3> HIDE DEF s
    <3> QED BY <2>1, <3>1, <3>2 DEF Server, Takes, clienterror, Writing
  <2> QED BY <2>2, <2>3
<1>8. Sock' = r.sock /\ \A c \in Client : c # srv.connfd => net'[c] = net[c]
  BY <1>2, <1>3, <1>7 DEF Sock
<1>9. Sock.got \in Output /\ Sock' \in Connection
  BY <1>2, <1>7 DEF Connection, TypesInv, NetInv, Sock
<1>10. ASSUME Listens(r.sock)
       PROVE  /\ GoalOf(srv') \notin {"request", "close"} => srv'.req = Asked(Sock)
              /\ Owed(srv', child', r.sock.peer, Asked(Sock), Out(srv', r.sock))
  <2> DEFINE req == Asked(Sock)
  <2>1. Sock.got = <<>>
    <3>1. Out(srv, Sock) = <<>>
      BY <1>1, <1>2, <1>5, <1>10 DEF Answering, Owed, GoalOf
    <3> QED BY <1>1, <1>2, <3>1, OutTyped
  <2>2. /\ srv'.pc # "write" => Out(srv', r.sock) = <<>>
        /\ srv'.pc = "write" => Out(srv', r.sock) = srv'.unsent
    <3>1. srv'.unsent \in Output /\ <<>> \o srv'.unsent = srv'.unsent
      BY <1>7, OutputsJoin, EmptyTexts DEF Server
    <3> QED BY <1>5, <1>7, <1>8, <1>9, <2>1, <3>1, OutTyped
  <2>3. CASE ~r.done
    <3>1. srv'.pc = "request"
      BY <1>1, <1>2, <1>3, <2>3 DEF Gathers, Server
    <3> QED BY <2>2, <3>1 DEF Owed, GoalOf
  <2>4. CASE r.done /\ r.rc = 0
    <3>1. r.sock.peer = "fin"
      BY <1>4, <1>10, <2>4 DEF LineResult, Listens
    <3>2. srv'.pc = "close"
      BY <1>3, <1>6, <2>4 DEF Server
    <3> QED BY <2>2, <3>1, <3>2 DEF Owed, GoalOf
  <2>5. CASE r.done /\ r.rc > 0
    <3>1. Parsed(r.buf) = {req}
      <4>1. /\ Len(srv'.taken) <= Len(Sock.script) /\ Sock.script \in Text /\ srv'.taken \in Text
            /\ \A k \in 1 .. Len(srv'.taken) : Sock.script[k] = srv'.taken[k]
        <5>1. srv' \in Server /\ Sock' \in Connection /\ Sock'.sent <= Len(Sock'.script)
          BY <1>2, <1>7 DEF Sock, TypesInv, NetInv, ServerTyped, ClientTyped
        <5>2. Whole(srv'.taken, srv'.buf, srv'.rio, Sock'.wire) = SubSeq(Sock'.script, 1, Sock'.sent)
          BY <1>2, <1>7, <1>8, <1>10 DEF StreamInv, StreamIntact, Whole, Listens
        <5>3. Sock'.script = Sock.script /\ srv'.taken \in Text /\ Sock'.script \in Text
          BY <1>5, <1>8, <5>1 DEF Server, Connection
        <5> QED BY <5>1, <5>2, <5>3, TakenFirst
      <4>2. srv'.taken = r.buf /\ r.buf \in Text /\ r.buf # <<>>
        <5>1. r.buf \in Text /\ r.buf # <<>>
          BY <1>4, <2>5 DEF LineResult
        <5>2. srv.taken = <<>> /\ <<>> \o r.buf = r.buf
          BY <1>1, <5>1, TextsJoin, EmptyTexts DEF ServedInv, StreamInv, At
        <5> QED BY <1>7, <2>5, <5>1, <5>2
      <4>3. 1 \in 1 .. Len(r.buf)
        BY <4>2, LenProperties, EmptySeq DEF Text
      <4>4. r.buf[1] = Sock.script[1]
        BY <4>1, <4>2, <4>3
      <4>5. Sock.script[1] \in DOMAIN RequestLine
        BY <1>2, AskedIsRequest
      <4> QED BY <4>2, <4>4, <4>5 DEF Parsed, Asked
    <3> DEFINE s == GotLine(r)
    <3>2. srv' = Takes(s, req) /\ s \in Server
      <4>1. r.rc \in Int
        BY <1>4 DEF LineResult
      <4>2. \E q \in Parsed(r.buf) : srv' = Takes(s, q)
        BY <1>3, <2>5, <4>1
      <4> HIDE DEF s
      <4>3. srv' = Takes(s, req)
        BY <3>1, <4>2
      <4> QED BY <1>6, <2>5, <4>3 DEF s
    <3> HIDE DEF s
    <3>3. req \in Request
      BY <1>2
    <3> HIDE DEF req
    <3>4. CASE req.uri = "devtools"
      <4>1. srv'.pc = "close"
        BY <3>2, <3>4 DEF Takes, Server
      <4>2. <<>> \in AnswersTo(req)
        BY <3>4, AnswersAre
      <4> QED BY <2>2, <4>1, <4>2 DEF Owed, GoalOf, req
    <3>5. CASE req.uri # "devtools" /\ req.method \notin {"GET", "HEAD"}
      <4>1. srv'.pc = "write" /\ srv'.after = "close" /\ srv'.unsent = Page("501")
        BY <3>2, <3>3, <3>5 DEF Takes, Server, clienterror, Writing
      <4>2. Page("501") \in AnswersTo(req)
        BY <3>5, AnswersAre
      <4> QED BY <2>2, <4>1, <4>2 DEF Owed, GoalOf, req
    <3>6. CASE req.uri # "devtools" /\ req.method \in {"GET", "HEAD"}
      <4>1. srv'.pc = "headers" /\ srv'.req = req
        BY <3>2, <3>3, <3>6 DEF Takes, Server
      <4> QED BY <2>2, <3>6, <4>1 DEF Owed, GoalOf, req
    <3> QED BY <3>4, <3>5, <3>6
  <2>6. CASE r.done /\ r.rc < 0
    BY <1>4, <1>10, <2>6 DEF LineResult, Listens
  <2>7. r.rc \in Int
    BY <1>4 DEF LineResult
  <2> QED BY <2>3, <2>4, <2>5, <2>6, <2>7
<1>11. Answering(srv', child', Sock')
  <2>1. Asked(Sock') = Asked(Sock)
    BY <1>5, <1>8 DEF Asked
  <2> QED BY <1>8, <1>10, <2>1 DEF Answering
<1> QED BY <1>2, <1>5, <1>7, <1>8, <1>11, AnswerKept

(* The headers are read, and the server goes on to find the file.          *)
LEMMA HeadersAnswers ==
  ASSUME ServedInv, AnswerInv, TypesInv', read_requestheaders, ~unix_error
  PROVE  AnswerInv'
<1>1. srv.pc = "headers" /\ child = "none"
  BY Serves DEF read_requestheaders, At, ServedInv
<1>2. /\ srv \in Server /\ srv.connfd \in Client /\ Sock \in Connection /\ Answering(srv, child, Sock)
      /\ net \in [Client -> Connection]
  BY <1>1, Knows
<1>3. PICK r \in LineSteps :
        /\ net' = [net EXCEPT ![srv.connfd] = r.sock]
        /\ \/ ~r.done /\ srv' = Gathers(r)
           \/ r.done /\ \E header : \E pc \in {"stat", "headers"} :
                srv' = [GotLine(r) EXCEPT !.header = header, !.pc = pc]
        /\ child' = child
  <2>1. PICK r \in LineSteps :
          /\ net' = [net EXCEPT ![srv.connfd] = r.sock]
          /\ \/ ~r.done /\ srv' = Gathers(r)
             \/ r.done /\ \E header \in HeaderRead(r) :
                  srv' = [GotLine(r) EXCEPT !.header = header,
                                            !.pc = IF HeaderEnds(header) THEN "stat" ELSE "headers"]
          /\ child' = child
    BY DEF read_requestheaders
  <2>2. \A header : (IF HeaderEnds(header) THEN "stat" ELSE "headers") \in {"stat", "headers"}
    OBVIOUS
  <2> QED BY <2>1, <2>2
<1>4. LineResult(srv.buf, srv.rio, Sock, r)
  BY <1>1, LineTyped DEF ServedInv
<1>5. /\ r.sock.fd = Sock.fd /\ r.sock.script = Sock.script /\ r.sock.got = Sock.got
      /\ Listens(r.sock) => Listens(Sock)
  BY <1>2, <1>4 DEF LineResult, After, Connection, Listens
<1>6. srv'.connfd = srv.connfd /\ srv'.req = srv.req /\ srv'.pc \in {"stat", "headers"}
  <2>1. CASE ~r.done
    BY <1>1, <1>2, <1>3, <2>1 DEF Gathers, Server
  <2>2. CASE r.done
    <3> DEFINE s == GotLine(r)
    <3>1. s \in Server /\ s.connfd = srv.connfd /\ s.req = srv.req
      BY <1>1, <2>2, GotLineTyped DEF ServedInv
    <3>2. \E header : \E pc \in {"stat", "headers"} : srv' = [s EXCEPT !.header = header, !.pc = pc]
      BY <1>3, <2>2
    <3> HIDE DEF s
    <3> QED BY <3>1, <3>2 DEF Server
  <2> QED BY <2>1, <2>2
<1>7. Sock' = r.sock /\ \A c \in Client : c # srv.connfd => net'[c] = net[c]
  BY <1>2, <1>3, <1>6 DEF Sock
<1>8. ASSUME Listens(r.sock)
      PROVE  /\ srv'.req = Asked(Sock)
             /\ Owed(srv', child', r.sock.peer, Asked(Sock), Out(srv', r.sock))
  <2>1. /\ srv.req = Asked(Sock) /\ Owed(srv, child, Sock.peer, Asked(Sock), Out(srv, Sock))
        /\ GoalOf(srv) = "headers"
    BY <1>1, <1>2, <1>5, <1>8 DEF Answering, GoalOf
  <2>2. Out(srv', r.sock) = Out(srv, Sock)
    BY <1>1, <1>5, <1>6 DEF Out
  <2>3. GoalOf(srv') \in {"stat", "headers"}
    BY <1>6 DEF GoalOf
  <2> QED BY <1>6, <2>1, <2>2, <2>3 DEF Owed
<1>9. Answering(srv', child', Sock')
  <2>1. Asked(Sock') = Asked(Sock)
    BY <1>5, <1>7 DEF Asked
  <2> QED BY <1>7, <1>8, <2>1 DEF Answering
<1> QED BY <1>2, <1>5, <1>6, <1>7, <1>9, AnswerKept

(* A connection that is accepted has been sent nothing.                    *)
LEMMA AcceptAnswers ==
  ASSUME ServedInv, AnswerInv, TypesInv', Accept
  PROVE  AnswerInv'
<1> DEFINE c == Head(backlog)
           v == [net[c] EXCEPT !.fd = "open"]
<1>1. /\ c \in Client /\ net[c].fd = "queued" /\ net[c] \in Connection /\ net \in [Client -> Connection]
      /\ srv \in Server
  <2>1. backlog \in Seq(Client) /\ backlog # <<>> /\ srv.pc # "down"
    BY DEF Accept, At, ServedInv, TypesInv
  <2>2. 1 \in DOMAIN backlog /\ c = backlog[1] /\ c \in Client
    BY <2>1, HeadTailProperties, LenProperties, EmptySeq
  <2>3. net[c].fd = "queued"
    BY <2>1, <2>2 DEF ServedInv, HeldInv, QueueInv
  <2> QED BY <2>2, <2>3 DEF ServedInv, TypesInv, NetInv, ServerTyped
<1>2. /\ net' = [net EXCEPT ![c] = v]
      /\ srv' = [srv EXCEPT !.pc = "request", !.connfd = c]
  BY <1>1 DEF Accept
<1> HIDE DEF c
<1>3. /\ v.fd = "open" /\ v.got = net[c].got /\ v.script = net[c].script /\ v \in Connection
      /\ v.peer = net[c].peer
  BY <1>1 DEF Connection
<1>4. srv'.pc = "request" /\ srv'.connfd = c /\ srv' \in Server
  BY <1>1, <1>2 DEF Server, TypesInv, ServerTyped
<1> HIDE DEF v
<1>5. Sock' = v /\ \A d \in Client : d # c => net'[d] = net[d]
  BY <1>1, <1>2, <1>4 DEF Sock
<1>6. net[c].got = <<>> /\ Begun(net[c])
  BY <1>1 DEF AnswerInv, Answered
<1>7. Answering(srv', child', Sock')
  <2>1. Out(srv', v) = <<>>
    BY <1>3, <1>4, <1>6, OutTyped
  <2> QED BY <1>4, <1>5, <2>1 DEF Answering, Owed, GoalOf
<1>8. ASSUME NEW d \in Client PROVE Answered(net'[d])
  <2>1. CASE d = c
    BY <1>3, <1>4, <1>5, <1>6, <2>1 DEF Answered, Begun, Asked, Sock
  <2>2. CASE d # c
    BY <1>5, <2>2 DEF AnswerInv
  <2> QED BY <2>1, <2>2
<1> QED BY <1>7, <1>8 DEF AnswerInv

(* A client that stays connected has a whole answer when its connection is *)
(* closed.                                                                 *)
LEMMA CloseAnswers ==
  ASSUME ServedInv, AnswerInv, TypesInv', Close
  PROVE  AnswerInv'
<1> DEFINE c == srv.connfd
           v == [Sock EXCEPT !.fd = "closed", !.sent = 0, !.wire = <<>>]
<1>1. srv.pc = "close"
  BY DEF Close, At
<1>2. /\ srv \in Server /\ c \in Client /\ Sock \in Connection /\ Answering(srv, child, Sock)
      /\ net \in [Client -> Connection] /\ Sock.fd = "open"
  BY <1>1, Knows
<1>3. net' = [net EXCEPT ![c] = v] /\ srv'.pc = "accept"
  BY <1>2 DEF Close, Idle, Sock
<1>4. v.fd = "closed" /\ v.got = Sock.got /\ v.script = Sock.script /\ v.peer = Sock.peer
  BY <1>2 DEF Connection
<1> HIDE DEF v
<1>5. Begun(v)
  <2>1. Begun(Sock)
    BY <1>2 DEF AnswerInv, Answered, Sock
  <2> QED BY <1>4, <2>1 DEF Begun, Asked
<1>6. v.peer = "up" => v.got \in AnswersTo(Asked(v))
  <2>1. ASSUME Sock.peer = "up" PROVE Sock.got \in AnswersTo(Asked(Sock))
    <3>1. Out(srv, Sock) = Sock.got /\ GoalOf(srv) = "close"
      BY <1>1, <1>2, OutTyped DEF GoalOf
    <3> QED BY <1>2, <2>1, <3>1 DEF Answering, Owed, Listens
  <2> QED BY <1>4, <2>1 DEF Asked
<1>7. ASSUME NEW d \in Client PROVE Answered(net'[d])
  <2>1. CASE d = c
    BY <1>2, <1>3, <1>4, <1>5, <1>6, <2>1 DEF Answered
  <2>2. CASE d # c
    BY <1>2, <1>3, <2>2 DEF AnswerInv
  <2> QED BY <2>1, <2>2
<1> QED BY <1>3, <1>7 DEF AnswerInv

(* The server ends, or begins.                                             *)
LEMMA RestAnswers ==
  ASSUME AnswerInv, net' = net, srv'.pc \in {"start", "accept", "down"}
  PROVE  AnswerInv'
  BY DEF AnswerInv

(* A client that connects has the beginning of every answer.               *)
LEMMA ConnectsAnswers ==
  ASSUME ServedInv, AnswerInv, NEW c \in Client, Connects(c)
  PROVE  AnswerInv'
<1>1. PICK script \in Scripts[c] :
        net' = [net EXCEPT ![c] = [NoConnection EXCEPT !.fd = "queued", !.script = script]]
  BY DEF Connects
<1> DEFINE v == [NoConnection EXCEPT !.fd = "queued", !.script = script]
<1>2. v.fd = "queued" /\ v.script = script /\ v.got = <<>>
  BY DEF NoConnection
<1> HIDE DEF v
<1>3. net \in [Client -> Connection] /\ net' = [net EXCEPT ![c] = v]
  BY <1>1 DEF ServedInv, TypesInv, NetInv, v
<1>4. Answered(v)
  <2>1. Asked(v) \in Request
    BY <1>2, AskedIsRequest
  <2>2. PICK answer \in Output : answer \in AnswersTo(Asked(v))
    BY <2>1, AnswersAre, RefusalsTyped
  <2>3. IsBegun(<<>> \o answer, <<>>) /\ <<>> \o answer = answer
    BY <2>2, PartIsBegun, OutputsJoin, EmptyTexts
  <2> QED BY <1>2, <2>2, <2>3 DEF Answered, Begun
<1>5. \A d \in Client : Answered(net'[d])
  BY <1>3, <1>4 DEF AnswerInv
<1>6. ASSUME srv.pc \notin {"start", "accept", "down"} PROVE Sock' = Sock
  <2>1. srv.connfd \in Client /\ Sock.fd = "open"
    BY <1>6, Knows
  <2>2. net[c].fd # "open" /\ srv' = srv
    BY DEF Connects
  <2> QED BY <1>3, <2>1, <2>2 DEF Sock
<1> QED BY <1>5, <1>6 DEF AnswerInv, Connects

(* What a client does changes nothing of what it was sent.                 *)
LEMMA ClientAnswers ==
  ASSUME ServedInv, AnswerInv, NEW c \in Client, Sends(c) \/ Ends(c) \/ Resets(c)
  PROVE  AnswerInv'
<1>1. UNCHANGED <<srv, child>> /\ net \in [Client -> Connection]
  BY ClientStep DEF ServedInv, TypesInv, NetInv
<1>2. PICK v : /\ net' = [net EXCEPT ![c] = v]
               /\ v.fd = net[c].fd /\ v.script = net[c].script /\ v.got = net[c].got
               /\ v.peer \in {"up", "fin"} => net[c].peer = "up"
  BY ClientStep DEF ServedInv
<1>3. \A d \in Client : Answered(net'[d])
  BY <1>1, <1>2 DEF AnswerInv, Answered, Begun, Asked
<1>4. ASSUME srv.pc \notin {"start", "accept", "down"} PROVE Answering(srv', child', Sock')
  <2>1. srv.connfd \in Client /\ Answering(srv, child, Sock)
    BY <1>4, Knows
  <2>2. CASE srv.connfd # c
    BY <1>1, <1>2, <2>1, <2>2 DEF Sock
  <2>3. CASE srv.connfd = c
    <3>1. Sock' = v /\ Out(srv, v) = Out(srv, Sock) /\ Asked(v) = Asked(Sock)
      BY <1>1, <1>2, <2>3 DEF Sock, Out, Asked
    <3>2. Listens(v) => Listens(Sock) /\ Sock.peer = "up"
      BY <1>2, <2>3 DEF Sock, Listens
    <3>3. ASSUME Listens(v)
          PROVE  Owed(srv, child, v.peer, Asked(Sock), Out(srv, Sock))
      <4>1. Owed(srv, child, "up", Asked(Sock), Out(srv, Sock))
        BY <2>1, <3>2, <3>3 DEF Answering
      <4> QED BY <4>1 DEF Owed
    <3> QED BY <1>1, <2>1, <3>1, <3>2, <3>3 DEF Answering
  <2> QED BY <2>2, <2>3
<1> QED BY <1>1, <1>3, <1>4 DEF AnswerInv

(* Every step of the system answers only what was asked.                   *)
LEMMA AnswerStep == ServedInv /\ AnswerInv /\ [Next]_vars => AnswerInv'
<1> SUFFICES ASSUME ServedInv, AnswerInv, TypesInv', StreamInv', [Next]_vars PROVE AnswerInv'
  BY NextTyped, StreamStep DEF ServedInv
<1>1. CASE UNCHANGED vars \/ Edits
  <2>1. UNCHANGED <<net, srv, child>>
    BY <1>1 DEF vars, Edits
  <2> QED BY <2>1 DEF AnswerInv, Sock
<1>2. CASE unix_error
  BY <1>2, RestAnswers DEF unix_error, Down, Idle
<1>3. CASE Open_listenfd /\ ~unix_error
  BY <1>3, RestAnswers DEF Open_listenfd, Continues, Idle
<1>4. CASE (ReadRequest \/ read_requestheaders) /\ ~unix_error
  BY <1>4, ReadRequestAnswers, HeadersAnswers
<1>5. CASE (Stat \/ Write \/ Open \/ ReadFile) /\ ~unix_error
  BY <1>5, StatAnswers, WriteAnswers, OpenAnswers, ReadFileAnswers
<1>6. CASE (CloseFile \/ Fork \/ Wait \/ RunCgi) /\ ~unix_error
  BY <1>6, CloseFileAnswers, ForkAnswers, WaitAnswers, CgiAnswers
<1>7. CASE Accept \/ Close
  BY <1>7, AcceptAnswers, CloseAnswers
<1>8. CASE \E c \in Client : Connects(c) \/ Sends(c) \/ Ends(c) \/ Resets(c)
  BY <1>8, ConnectsAnswers, ClientAnswers
<1> QED BY <1>1, <1>2, <1>3, <1>4, <1>5, <1>6, <1>7, <1>8 DEF Next, main, doit

----------------------------------------------------------------------------
(* The theorems                                                            *)

(* At the start nobody was answered, and no header was read.               *)
LEMMA InitAnswers == Init => HeaderInv /\ AnswerInv
<1> SUFFICES ASSUME Init PROVE HeaderInv /\ AnswerInv
  OBVIOUS
<1>1. \A c \in Client : net[c].fd = "none"
  BY DEF Init, NoConnection
<1>2. srv.pc = "start"
  BY DEF Init, Idle
<1> QED BY <1>1, <1>2 DEF HeaderInv, Idling, AnswerInv, Answered

(* What the theorems rest on is an invariant: no part of it is inductive   *)
(* without the parts before it.                                            *)
THEOREM Invariance == Spec => []IInv
<1>1. Init => IInv
  <2>1. Init => PrintedInv
    BY DEF Init, PrintedInv
  <2> QED BY <2>1, InitTyped, InitHeld, InitStream, InitAnswers DEF IInv, ServedInv
<1>2. IInv /\ [Next]_vars => IInv'
  <2>1. ServedInv /\ [Next]_vars => ServedInv'
    BY NextTyped, PrintedStep, QueueStep, FileStep, StreamStep DEF ServedInv, HeldInv
  <2> QED BY <2>1, HeaderStep, AnswerStep DEF IInv
<1> QED BY <1>1, <1>2, PTL DEF Spec

(* Every variable has the type the model gives it.                         *)
THEOREM TypeCorrect == Spec => []TypeOK
<1>1. IInv => TypeOK
  BY TypesGiveTypeOK DEF IInv, ServedInv
<1> QED BY <1>1, Invariance, PTL

(* Between two connections the server holds nothing of the last one: no    *)
(* descriptor, no file, no memory for it, no CGI child that is not reaped. *)
THEOREM NothingIsHeld == Spec => []NothingHeld
<1>1. IInv => NothingHeld
  BY HeldGivesNothingHeld DEF IInv, ServedInv
<1> QED BY <1>1, Invariance, PTL

(* rio_readlineb loses no token, doubles none and keeps their order, for   *)
(* buffers of any size and however the text is cut into pieces.            *)
THEOREM TextArrives == Spec => []StreamIntact
<1>1. IInv => StreamIntact
  BY DEF IInv, ServedInv, StreamInv
<1> QED BY <1>1, Invariance, PTL

(* read_requestheaders stops at the first empty line of what the client    *)
(* sent and nowhere else, as long as no line is too long for its buffer.   *)
THEOREM HeaderEndsRequest == Spec => []AnswersAfterHeader
<1>1. IInv => AnswersAfterHeader
  <2> SUFFICES ASSUME IInv, srv.pc \in {"stat", "open", "read", "served", "failed", "fork", "wait"},
                      Sock.peer = "up", ShortLines(Sock.script)
               PROVE  AtHeaderEnd(Sock.script, Len(srv.taken))
    BY DEF AnswersAfterHeader, AtHeaderEnd
  <2>1. PastHeader /\ ~Idling /\ ~At("down")
    BY DEF PastHeader, Goal, GoalOf, Idling, At
  <2> QED BY <2>1 DEF IInv, HeaderInv
<1> QED BY <1>1, Invariance, PTL

(* No client is sent anything but a prefix of one answer to its own        *)
(* request, and one that stays connected gets the whole of it; in the place*)
(* of a CGI program's output, the text that tiny has printed can be a part *)
(* of that answer, of whichever clients it is.                             *)
THEOREM EveryoneItsOwnAnswer == Spec => []OwnAnswer
<1>1. IInv => OwnAnswer
  <2> SUFFICES ASSUME IInv, NEW c \in Client, net[c].fd # "none"
               PROVE  \E answer \in AnswersTo(Asked(net[c])) :
                        /\ IsBegun(answer, net[c].got)
                        /\ net[c].fd = "closed" /\ net[c].peer = "up" => net[c].got = answer
    BY DEF OwnAnswer, IsBegun, Asked
  <2>1. Answered(net[c]) /\ net[c].got \in Output
    BY DEF IInv, ServedInv, AnswerInv, TypesInv, NetInv, Connection
  <2>2. CASE net[c].fd = "closed" /\ net[c].peer = "up"
    <3>1. net[c].got \in AnswersTo(Asked(net[c]))
      BY <2>1, <2>2 DEF Answered
    <3>2. IsBegun(net[c].got, net[c].got)
      <4>1. IsBegun(net[c].got \o <<>>, net[c].got) /\ net[c].got \o <<>> = net[c].got
        BY <2>1, PartIsBegun, OutputsJoin, EmptyTexts
      <4> QED BY <4>1
    <3> QED BY <3>1, <3>2
  <2>3. CASE ~(net[c].fd = "closed" /\ net[c].peer = "up")
    BY <2>1, <2>3 DEF Answered, Begun
  <2> QED BY <2>2, <2>3
<1> QED BY <1>1, Invariance, PTL
=============================================================================
