------------------------------ MODULE MCUsartTx ------------------------------
(***************************************************************************)
(* Requests of one to three bytes, so that a request is finished by its    *)
(* first interrupt, by its second and by a later one.                      *)
(***************************************************************************)
EXTENDS UsartTx

MCLens == {1, 2, 3}
==============================================================================
