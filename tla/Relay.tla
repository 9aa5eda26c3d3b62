------------------------------- MODULE Relay -------------------------------
(***************************************************************************)
(* What the proxy promises a client: one connection, at most one answer,   *)
(* its own and, where it fits the proxy's buffer, the whole of what the    *)
(* server sent, and then the end of the connection.  Of a larger answer no *)
(* more is promised than whose it is.  The process may end at any time.    *)
(***************************************************************************)
EXTENDS Naturals

CONSTANTS Client, NONE,
          Answers          \* sizes a server may answer with

VARIABLES up,              \* the process runs
          conn,            \* the connection of each client
          answer,          \* what each client has received
          limit            \* the size of the buffer

Down == up' = FALSE /\ UNCHANGED <<conn, answer>>

Accept(c) ==
  /\ up /\ conn[c] = "queued"
  /\ conn' = [conn EXCEPT ![c] = "open"]
  /\ UNCHANGED <<up, answer>>

Arrive(c) ==
  /\ up /\ conn[c] = "idle"
  /\ conn' = [conn EXCEPT ![c] = "queued"]
  /\ UNCHANGED <<up, answer>>

Answer(c) ==
  /\ up /\ conn[c] = "open" /\ answer[c] = NONE
  /\ \E sent \in Answers : \E n \in 0 .. sent :
       /\ sent <= limit => n = sent
       /\ answer' = [answer EXCEPT ![c] = [of |-> c, len |-> n, sent |-> sent]]
  /\ UNCHANGED <<up, conn>>

(* A connection is closed only after its answer.                           *)
Close(c) ==
  /\ up /\ conn[c] = "open" /\ answer[c] # NONE
  /\ conn' = [conn EXCEPT ![c] = "closed"]
  /\ UNCHANGED <<up, answer>>

Init ==
  /\ up = TRUE
  /\ conn = [c \in Client |-> "idle"]
  /\ answer = [c \in Client |-> NONE]
  /\ limit \in Nat

Next ==
  /\ Down \/ \E c \in Client : Arrive(c) \/ Accept(c) \/ Answer(c) \/ Close(c)
  /\ UNCHANGED limit

Spec == Init /\ [][up /\ Next]_<<up, conn, answer, limit>>

=============================================================================
