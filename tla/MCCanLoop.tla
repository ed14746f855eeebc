------------------------------ MODULE MCCanLoop ------------------------------
(***************************************************************************)
(* More frames than mailboxes, so that a call has to wait or to give up,   *)
(* more frames than requests, so that the objects are reused, and more     *)
(* frames than a FIFO holds.  The identifiers are such that a standard and *)
(* an extended one share their bits, and one is zero.                      *)
(***************************************************************************)
EXTENDS CanLoop

CONSTANTS r1, r2

MCReq == {r1, r2}
Std(i) == [id |-> i, ext |-> FALSE]
Ext(i) == [id |-> i, ext |-> TRUE]
MCIdent == <<Std(791), Ext(207356719), Std(0), Std(1365)>>
MCIdLists == {<<Std(791), Std(1365), Ext(207356719)>>,
              <<Ext(207356719), Ext(0), Ext(207356704), Ext(207356719 % 262144), Std(1365)>>}
==============================================================================
