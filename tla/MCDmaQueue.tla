----------------------------- MODULE MCDmaQueue -----------------------------
(***************************************************************************)
(* Three requests: one that finds the queue empty, one that finds a        *)
(* transfer running, and one more behind it; one has no callback and one   *)
(* ends in a bus error.  MCSelf* describe a request whose callback queues  *)
(* the request it was called for.                                          *)
(***************************************************************************)
EXTENDS DmaQueue

CONSTANTS r1, r2, r3

MCNode     == {r1, r2, r3}
MCXferLen  == (r1 :> 1) @@ (r2 :> 2) @@ (r3 :> 2)
MCFaulty   == {r3}
MCWithCb   == {r1, r2}
MCCbQueues == [r \in MCWithCb |-> MCNode \ {r}]

MCSelfNode     == {r1, r2}
MCSelfXferLen  == (r1 :> 2) @@ (r2 :> 2)
MCSelfFaulty   == {}
MCSelfWithCb   == {r1}
MCSelfCbQueues == (r1 :> {r1})
==============================================================================
