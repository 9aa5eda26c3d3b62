------------------------------- MODULE MCTiny -------------------------------
(***************************************************************************)
(* A small instance of Tiny for TLC: lines of up to two tokens.            *)
(***************************************************************************)
EXTENDS Tiny, TLC

CONSTANTS c1, c2

(* Each method, a header in two pieces, a bare newline and a line too long *)
(* for the buffer in a header, and text after the header.                  *)
MCScripts ==
  c1 :> {<<"get_file", "crlf", "h", "crlf", "crlf">>,
         <<"head_file", "lf", "lf", "h", "h", "crlf">>,
         <<"post_file", "crlf", "get_file">>,
         <<"get_one", "crlf", "crlf">>,
         <<"devtools", "crlf">>}
  @@ c2 :> {<<"get_sum", "crlf", "crlf">>}

MCAddresses == {<<>>} \cup [1 .. 2 -> AddressOutcome]

(* Everything can be served, is forbidden and shorter, or is gone.         *)
MCDisks ==
  {[file |-> [mode |-> m, size |-> IF m = "denied" THEN 1 ELSE 2], cgi |-> [mode |-> m]] : m \in Mode}
=============================================================================
