------------------------------ MODULE MCDriver ------------------------------
(***************************************************************************)
(* A small instance of Driver for TLC.  Addresses and sizes are in units   *)
(* of half an alignment, a char has two values, so that one of them is     *)
(* negative, and a word of the cycle counter has sixteen.                  *)
(***************************************************************************)
EXTENDS Driver

A(index, size) == [type |-> "a", index |-> index, size |-> size]
R(index, size) == [type |-> "r", index |-> index, size |-> size]
F(index) == [type |-> "f", index |-> index, size |-> 0]
File(num_ids, num_ops, lines) == [num_ids |-> num_ids, num_ops |-> num_ops, lines |-> lines]

(* Two traces that run together, traces on their own, and files that are   *)
(* not as their first lines say.                                           *)
MCDisk ==
  [traces |-> [one |-> File(2, 5, <<A(0, 1), A(1, 1), R(0, 4), F(1), F(0)>>),
               two |-> File(1, 2, <<A(0, 2), F(0)>>)],
   other |-> [one |-> File(2, 2, <<A(0, 1), A(1, 0)>>), two |-> NULL],
   here |-> [sign |-> File(2, 3, <<A(0, 1), A(1, 1), R(1, 2)>>),
             shrink |-> File(1, 4, <<A(0, 3), R(0, 1), R(0, 2), F(0)>>),
             keep |-> File(2, 3, <<A(0, 1), A(1, 2), R(0, 2)>>),
             ids |-> File(1, 2, <<A(0, 1), A(1, 1)>>),
             long |-> File(1, 1, <<A(0, 1), F(0)>>),
             bogus |-> File(1, 1, <<[A(0, 1) EXCEPT !.type = "x"]>>)]]

Opt(c) == [c |-> c, arg |-> ""]
MCArgvs ==
  {<<>>, <<Opt("v"), Opt("l")>>, <<Opt("h"), Opt("a")>>, <<[c |-> "t", arg |-> "other"], Opt("g")>>}
  \cup {<<Opt("a"), [c |-> "f", arg |-> name], [c |-> "t", arg |-> "other"]>> : name \in DOMAIN MCDisk.here}

MCTeams == {{"teamname", "name1", "id1"}, {"teamname", "name1", "id1", "name2"}}
MCTraces == <<"one", "two">>
MCEvents == {[cycles |-> 12, ticks |-> 1], [cycles |-> 10, ticks |-> 2]}
=============================================================================
