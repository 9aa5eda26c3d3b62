------------------------------ MODULE MCMMHeap ------------------------------
(***************************************************************************)
(* Small instances of MMHeap for TLC: three smallest blocks fill the       *)
(* sixteen words between prologue and epilogue.                            *)
(***************************************************************************)
EXTENDS MMHeap

(* Memory that looks like the tag of a free block before its first use.    *)
MCGarbage == {PACK(6, 0)}
=============================================================================
