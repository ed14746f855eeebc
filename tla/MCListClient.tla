---------------------------- MODULE MCListClient ----------------------------
(***************************************************************************)
(* Four nodes: inserting into and removing from the middle, at both ends   *)
(* and at one, and arrays that rebuild a list of every length up to four.  *)
(***************************************************************************)
EXTENDS ListClient

CONSTANTS n1, n2, n3, n4

MCNode == {n1, n2, n3, n4}

MCArrays == {<< >>, <<n1, n2>>, <<n1, n2, n3, n4>>, <<n4, n2, n3, n1>>}
==============================================================================
