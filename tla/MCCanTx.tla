------------------------------- MODULE MCCanTx -------------------------------
(***************************************************************************)
(* More frames than mailboxes, so that a call has to wait or to give up,   *)
(* and more frames than requests, so that the objects are reused, as       *)
(* app/can-example does.                                                   *)
(***************************************************************************)
EXTENDS CanTx

CONSTANTS r1, r2

MCReq == {r1, r2}
==============================================================================
