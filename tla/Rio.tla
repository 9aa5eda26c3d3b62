-------------------------------- MODULE Rio --------------------------------
(***************************************************************************)
(* csapp.c's robust I/O on a connection, and open_listenfd.                *)
(*                                                                         *)
(* A connection is a record: what the kernel holds for the reader (wire),  *)
(* and how its peer stands.  A text is a sequence of tokens; "crlf" and    *)
(* "lf" end a line.  Sizes count tokens.  A call that EINTR interrupts is  *)
(* made again, which changes nothing.                                      *)
(***************************************************************************)
EXTENDS Integers, Sequences, FiniteSets

CONSTANTS MAXLINE,         \* size of the buffers lines are read into
          RIO_BUFSIZE      \* size of a rio_t's internal buffer

ASSUME RioAssumption == MAXLINE \in Nat /\ MAXLINE >= 2 /\ RIO_BUFSIZE \in Nat \ {0}

NewLine == {"crlf", "lf"}

Least(a, b) == IF a <= b THEN a ELSE b
Skip(s, n) == SubSeq(s, n + 1, Len(s))

----------------------------------------------------------------------------
(* The kernel                                                              *)
(*                                                                         *)
(* A peer that ended ("fin") sends no more.  A peer that reset the         *)
(* connection takes away what was not read; the next call on it fails with *)
(* ECONNRESET, and from then on ("broken") a read finds the end and a write*)
(* raises SIGPIPE.                                                         *)

Peer == {"up", "fin", "reset", "broken"}

(* The outcomes of read(), none while it has to wait.                      *)
read(sock) ==
  IF sock.wire # <<>>
  THEN {[rc |-> k, data |-> SubSeq(sock.wire, 1, k), sock |-> [sock EXCEPT !.wire = Skip(@, k)]] :
          k \in 1 .. Least(Len(sock.wire), RIO_BUFSIZE)}
  ELSE IF sock.peer = "reset"
  THEN {[rc |-> -1, data |-> <<>>, sock |-> [sock EXCEPT !.peer = "broken"]]}
  ELSE IF sock.peer \in {"fin", "broken"}
  THEN {[rc |-> 0, data |-> <<>>, sock |-> sock]}
  ELSE {}

----------------------------------------------------------------------------
(* Reading a line                                                          *)

(* Mutant: the terminating 0 is not counted.                               *)
FullLate(n) == n = MAXLINE

(* n tokens and the 0 after them fill the buffer of a line.                *)
Full(n) == n = MAXLINE - 1

(* Where the line that s begins with ends: after its newline, or where the *)
(* buffer is full.                                                         *)
Complete(s) == \E k \in DOMAIN s : s[k] \in NewLine \/ Full(k)
LineLength(s) ==
  CHOOSE k \in DOMAIN s :
    /\ s[k] \in NewLine \/ Full(k)
    /\ \A j \in 1 .. k - 1 : s[j] \notin NewLine /\ ~Full(j)

(* rio_readlineb up to its next read(): buf is what it has stored of the   *)
(* line, rio what the internal buffer still holds.  done says whether it   *)
(* returns, with rc and the line.                                          *)
Returns(line, rc, rio, sock) ==
  [done |-> TRUE, rc |-> rc, buf |-> line, rio |-> rio, sock |-> sock]

(* Mutant: an internal buffer that ran empty ends the line.                *)
rio_readlineb_short(buf, rio, sock) ==
  LET text == buf \o rio
  IN  IF Complete(text)
      THEN {Returns(SubSeq(text, 1, LineLength(text)), LineLength(text),
                    Skip(text, LineLength(text)), sock)}
      ELSE {IF text # <<>> THEN Returns(text, Len(text), r.data, r.sock)
            ELSE [done |-> r.rc <= 0, rc |-> r.rc, buf |-> text, rio |-> r.data, sock |-> r.sock] :
              r \in read(sock)}

(* Mutant: the refill drops what the internal buffer held.                 *)
rio_readlineb_lossy(buf, rio, sock) ==
  LET text == buf \o rio
  IN  IF Complete(text)
      THEN {Returns(SubSeq(text, 1, LineLength(text)), LineLength(text),
                    Skip(text, LineLength(text)), sock)}
      ELSE {IF r.rc > 0
            THEN [done |-> FALSE, rc |-> 0, buf |-> buf, rio |-> r.data, sock |-> r.sock]
            ELSE Returns(text, IF r.rc = 0 THEN Len(text) ELSE -1, <<>>, r.sock) :
              r \in read(sock)}

rio_readlineb(buf, rio, sock) ==
  LET text == buf \o rio
  IN  IF Complete(text)
      THEN {Returns(SubSeq(text, 1, LineLength(text)), LineLength(text),
                    Skip(text, LineLength(text)), sock)}
      ELSE {IF r.rc > 0
            THEN [done |-> FALSE, rc |-> 0, buf |-> text, rio |-> r.data, sock |-> r.sock]
            ELSE Returns(text, IF r.rc = 0 THEN Len(text) ELSE -1, <<>>, r.sock) :
              r \in read(sock)}

----------------------------------------------------------------------------
(* Writing, and reading a file                                             *)

(* A round of rio_writen's loop: k of the tokens left are written.  It     *)
(* fails with -1, or the process gets SIGPIPE.                             *)
WriteRounds(unsent, sock) ==
  IF sock.peer = "reset"
  THEN {[rc |-> "error", sent |-> <<>>, unsent |-> unsent, sock |-> [sock EXCEPT !.peer = "broken"]]}
  ELSE IF sock.peer = "broken"
  THEN {[rc |-> "SIGPIPE", sent |-> <<>>, unsent |-> unsent, sock |-> sock]}
  ELSE {[rc |-> "ok", sent |-> SubSeq(unsent, 1, k), unsent |-> Skip(unsent, k), sock |-> sock] :
          k \in 1 .. Len(unsent)}

(* A round of rio_readn's loop on a file of which Len(got) blocks were     *)
(* read; it ends at n blocks or at the end of the file.                    *)
ReadRounds(got, file, n) ==
  {got \o SubSeq(file, Len(got) + 1, k) : k \in Len(got) + 1 .. Least(n, Len(file))}
ReadEnds(got, file, n) == Len(got) >= Least(n, Len(file))

----------------------------------------------------------------------------
(* open_listenfd, on the addresses of getaddrinfo, each with how far the   *)
(* calls on it get: -1, -2 or the number of the address it listens on.     *)

AddressOutcome == {"no socket", "no bind", "no close", "bound"}

open_listenfd(addresses, listens) ==
  LET stops == {k \in DOMAIN addresses : addresses[k] \in {"no close", "bound"}}
      first == CHOOSE k \in stops : \A j \in stops : k <= j
  IN  IF addresses = <<>> THEN -2                \* getaddrinfo found none
      ELSE IF stops = {} THEN -1
      ELSE IF addresses[first] = "bound" /\ listens THEN first
      ELSE -1
=============================================================================
