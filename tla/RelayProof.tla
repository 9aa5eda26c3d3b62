----------------------------- MODULE RelayProof -----------------------------
(***************************************************************************)
(* Proxy implements Relay: a client gets one answer at most, its own and,  *)
(* where it fits the buffer, the whole of it, and its connection is closed *)
(* after it, for any number of clients and whatever the threads do to the  *)
(* cache.                                                                  *)
(***************************************************************************)
EXTENDS ProxyProof

(* What Relay sees of the proxy.                                           *)
Seen == <<status = "running", conn, got, buffer_size>>

(* The end of the process is the step Down of Relay.                       *)
LEMMA EndIsDown ==
  ASSUME status = "running", Ends
  PROVE  status = "running" /\ Promise!Next
<1>1. (status' = "running") = FALSE
  BY DEF Ends, Stop
<1>2. UNCHANGED <<conn, got>> /\ buffer_size' = buffer_size
  BY DEF Ends, worldVars, buffer_size
<1> QED BY <1>1, <1>2 DEF Promise!Next, Promise!Down

(* A step that Relay does not see.                                         *)
Unseen == UNCHANGED <<status, conn, got, program>>

(* A step the abstract state does not see is a stutter of Relay.           *)
LEMMA UnseenStutters == Unseen => UNCHANGED Seen
  BY DEF Unseen, Seen, buffer_size

(* Opening a connection, answering it and closing it are the steps of      *)
(* Relay with these names.                                                 *)
LEMMA AcceptIsAccept ==
  ASSUME IInv, NEW c \in Client, MainAccept(c), UNCHANGED program
  PROVE  status = "running" /\ Promise!Next
<1>1. status = "running" /\ conn[c] = "queued"
  BY DEF MainAccept
<1>2. CASE unix_error
  BY <1>1, <1>2, EndIsDown DEF Ends, unix_error
<1>3. CASE ~unix_error
  <2>1. conn' = [conn EXCEPT ![c] = "open"] /\ UNCHANGED <<status, got, program>>
    BY <1>3 DEF MainAccept
  <2>2. (status' = "running") = (status = "running") /\ buffer_size' = buffer_size
    BY <2>1 DEF buffer_size
  <2>3. Promise!Accept(c)
    BY <1>1, <2>1, <2>2 DEF Promise!Accept
  <2> QED BY <1>1, <2>2, <2>3 DEF Promise!Next
<1> QED BY <1>2, <1>3

(* Writing the answer to the client is the abstract answer.                *)
LEMMA RespondIsAnswer ==
  ASSUME IInv, NEW t \in Thread, Respond(t), UNCHANGED program
  PROVE  status = "running" /\ Promise!Next
<1> USE DEF Client
<1>1. status = "running" /\ th[t].at = "respond"
  BY DEF Respond, Runs
<1>2. sock[th[t].connfd] = ClientEnd(t)
  BY <1>1, Holding DEF IInv, ProcInv, Connected, Served
<1>3. sock[th[t].connfd].of = t
  BY <1>2 DEF ClientEnd
<1>4. CASE Killed
  BY <1>1, <1>4, EndIsDown DEF Ends, Killed
<1>5. CASE ~Killed
  <2>1. got' = [got EXCEPT ![t] = buf[t]] /\ UNCHANGED <<status, conn, program>>
    BY <1>3, <1>5 DEF Respond
  <2>2. (status' = "running") = (status = "running") /\ buffer_size' = buffer_size
    BY <2>1 DEF buffer_size
  <2>3. conn[t] = "open" /\ got[t] = NONE
    BY <1>1 DEF IInv, ProcInv, ConnInv, Unanswered, Answered, Connected, Served
  <2>4. PICK sent \in Answers : \E n \in 0 .. sent :
          (sent <= buffer_size => n = sent) /\ buf[t] = [of |-> t, len |-> n, sent |-> sent]
    <3>1. /\ buf[t] \in [of : Client \cup {NONE}, len : 0 .. buffer_size, sent : Nat]
          /\ Own(buf[t], t, program) /\ buffer_size \in Nat
      BY <1>1, BufferSize DEF IInv, TypeOK, ProcInv, BufInv
    <3> QED BY <3>1, AnswersAssumption DEF Own, buffer_size
  <2>5. Promise!Answer(t)
    BY <1>1, <2>1, <2>2, <2>3, <2>4 DEF Promise!Answer
  <2> QED BY <1>1, <2>2, <2>5 DEF Promise!Next
<1> QED BY <1>4, <1>5

(* Closing the client's descriptor is the abstract close.                  *)
LEMMA CloseIsClose ==
  ASSUME IInv, NEW t \in Thread, CloseClient(t), UNCHANGED program
  PROVE  status = "running" /\ Promise!Next
<1> USE DEF Client
<1>1. status = "running" /\ th[t].at = "close client"
  BY DEF CloseClient, Runs
<1>2. sock[th[t].connfd] = ClientEnd(t)
  BY <1>1, Holding DEF IInv, ProcInv, Connected
<1>3. sock[th[t].connfd].of = t
  BY <1>2 DEF ClientEnd
<1>4. conn' = [conn EXCEPT ![t] = "closed"] /\ UNCHANGED <<status, got, program>>
  BY <1>3 DEF CloseClient
<1>5. (status' = "running") = (status = "running") /\ buffer_size' = buffer_size
  BY <1>4 DEF buffer_size
<1>6. conn[t] = "open" /\ got[t] # NONE
  BY <1>1 DEF IInv, ProcInv, ConnInv, Answered
<1>7. Promise!Close(t)
  BY <1>1, <1>4, <1>5, <1>6 DEF Promise!Close
<1> QED BY <1>1, <1>5, <1>7 DEF Promise!Next

(* A client's connection arrives; that it resets it goes unseen.           *)
LEMMA ClientIsArrive ==
  ASSUME NEW c \in Client, ClientStep(c)
  PROVE  (status = "running" /\ Promise!Next) \/ Unseen
<1>1. CASE ClientConnects(c)
  <2>1. /\ status = "running" /\ conn[c] = "idle"
        /\ conn' = [conn EXCEPT ![c] = "queued"] /\ UNCHANGED <<status, got, program>>
    BY <1>1 DEF ClientConnects, ClientStep
  <2>2. (status' = "running") = (status = "running") /\ buffer_size' = buffer_size
    BY <2>1 DEF buffer_size
  <2>3. Promise!Arrive(c)
    BY <2>1, <2>2 DEF Promise!Arrive
  <2> QED BY <2>1, <2>2, <2>3 DEF Promise!Next
<1>2. CASE ClientResets(c)
  BY <1>2 DEF ClientResets, ClientStep, Unseen
<1> QED BY <1>1, <1>2 DEF ClientStep

(* Every other step ends the process or goes unseen.                       *)
LEMMA ThreadGoesUnseen ==
  ASSUME NEW t \in Thread, ThreadStep(t), ~Respond(t), ~CloseClient(t)
  PROVE  (status = "running" /\ Ends) \/ Unseen
<1> USE DEF Ends, Unseen, unix_error, Killed, Runs, worldVars
<1>1. program' = program
  BY DEF ThreadStep
<1>2. CASE ThreadStart(t) \/ ThreadFree(t) \/ CloseServer(t)
  BY <1>1, <1>2 DEF ThreadStart, ThreadFree, CloseServer
<1>3. CASE ReadRequest(t) \/ OpenSocket(t) \/ Connect(t)
  BY <1>1, <1>3 DEF ReadRequest, OpenSocket, Connect
<1>4. CASE SendRequest(t) \/ ReadAnswer(t) \/ SwitchOnCanAdd(t)
  BY <1>1, <1>4 DEF SendRequest, ReadAnswer, SwitchOnCanAdd, memory
<1>5. CASE PlainRequest(t) \/ PlainAnswer(t)
  BY <1>1, <1>5 DEF PlainRequest, PlainAnswer
<1>6. CASE InCache(t)
  BY <1>1, <1>6, CacheStops DEF InCache
<1> QED BY <1>2, <1>3, <1>4, <1>5, <1>6 DEF ThreadStep, Cached, Plain

(* Each step of the proxy is a step of Relay or one that Relay does not    *)
(* see.                                                                    *)
LEMMA StepSimulation ==
  IInv /\ [Next]_vars => [status = "running" /\ Promise!Next]_Seen
<1> SUFFICES ASSUME IInv, [Next]_vars
             PROVE  (status = "running" /\ Promise!Next) \/ Unseen
  BY UnseenStutters
<1>1. CASE Main
  <2>1. CASE unix_error
    <3>1. status = "running" /\ Ends
      BY <1>1, <2>1 DEF Main, MainMalloc, MainCreate, MainAccept, Ends, unix_error
    <3> QED BY <3>1, EndIsDown
  <2>2. CASE (MainMalloc \/ MainCreate) /\ ~unix_error
    BY <1>1, <2>2 DEF Main, MainMalloc, MainCreate, posix_error, Unseen, worldVars
  <2> QED BY <1>1, <2>1, <2>2, AcceptIsAccept DEF Main
<1>2. ASSUME NEW t \in Thread, ThreadStep(t)
      PROVE  (status = "running" /\ Promise!Next) \/ Unseen
  <2>1. UNCHANGED program
    BY <1>2 DEF ThreadStep
  <2> QED BY <1>2, <2>1, RespondIsAnswer, CloseIsClose, ThreadGoesUnseen, EndIsDown
<1>3. ASSUME NEW c \in Thread, ClientStep(c)
      PROVE  (status = "running" /\ Promise!Next) \/ Unseen
  BY <1>3, ClientIsArrive DEF Client
<1>4. CASE UNCHANGED vars
  BY <1>4 DEF vars, worldVars, Unseen
<1> QED BY <1>1, <1>2, <1>3, <1>4 DEF Next

(* Each client gets at most one answer, its own and whole where it fits the *)
(* buffer, before its connection is closed: proxy.c with its cache, and the *)
(* proxy without one, implement Relay.                                     *)
THEOREM Refinement == Spec => ImplementsRelay
<1>1. Init => Promise!Init
  <2> SUFFICES ASSUME Init PROVE Promise!Init
    OBVIOUS
  <2>1. (status = "running") = TRUE
    BY DEF Init
  <2>2. buffer_size \in Nat
    BY BufferSize DEF Init
  <2> QED BY <2>1, <2>2 DEF Init, Promise!Init
<1>2. IInv /\ [Next]_vars => [status = "running" /\ Promise!Next]_Seen
  BY StepSimulation
<1> QED BY <1>1, <1>2, Invariance, PTL DEF Spec, ImplementsRelay, Promise!Spec, Seen
=============================================================================
