------------------------------ MODULE MCProxy ------------------------------
(***************************************************************************)
(* A bounded instance of Proxy: sizes are in units of half a buffer.       *)
(***************************************************************************)
EXTENDS Proxy, TLC

CONSTANT Fds               \* bound on the descriptors

MCFd == 1 .. Fds
MCAnswers == {1, 4}        \* half a buffer, and more than either buffer

(* Clients are interchangeable where none is Silent and none or all are    *)
(* Impatient, and so are boxes.                                            *)
Interchangeable == Permutations(Thread) \cup Permutations(Box)

=============================================================================
