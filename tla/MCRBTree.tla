------------------------------ MODULE MCRBTree ------------------------------
(***************************************************************************)
(* Small instances of RBTree for TLC.  The code never compares addresses,  *)
(* so it is enough that the nodes of one key come from addresses that no   *)
(* other key uses: one, or two for the keys that may be there twice.  This *)
(* tells duplicates of a key apart and keeps permutations of the same tree *)
(* out of the search.                                                      *)
(***************************************************************************)
EXTENDS RBTreeArray

CONSTANT Doubled           \* keys that two nodes may hold

MCAddressFor == [k \in Key |-> {2 * k} \cup IF k \in Doubled THEN {2 * k + 1} ELSE {}]

MCNode == UNION {MCAddressFor[k] : k \in Key}
=============================================================================
