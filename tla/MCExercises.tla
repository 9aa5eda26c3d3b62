----------------------------- MODULE MCExercises -----------------------------
(***************************************************************************)
(* Small instances of Exercises for TLC.                                   *)
(***************************************************************************)
EXTENDS Exercises

MCPrograms == LinkedListPrograms \cup StackQueuePrograms \cup TreePrograms \cup SearchTreePrograms

(* All short strings of three brackets, and some of other characters.      *)
MCExpressions ==
  BoundedSeq({"(", ")", "]"}, 3)
  \cup {<<"(", "x", ")">>, <<"(", ")", "[", "]">>, <<"(", "[", "]", ")">>,
        <<"(", "[", ")", "]">>, <<"{", "[", "}", "]">>, <<"{", "(", "(", "}">>}
=============================================================================
