----------------------------- MODULE DmaService -----------------------------
(***************************************************************************)
(* What dma.h promises: requests are transferred one at a time in the      *)
(* order they were queued, each from its first byte to its last, and each  *)
(* is taken off the queue ("completed") once, after its last byte or after *)
(* a bus error ended it.                                                   *)
(***************************************************************************)
EXTENDS SequencesExt

CONSTANTS Req,       \* the requests
          XferLen,   \* bytes each one moves
          Broken     \* requests the bus answers with an error

VARIABLES pending,   \* the requests queued, oldest first
          moved      \* bytes of the oldest one moved so far

vars == <<pending, moved>>

Init == pending = << >> /\ moved = 0

Submit(r) ==
  /\ r \notin Range(pending)
  /\ pending' = Append(pending, r)
  /\ UNCHANGED moved

Move ==
  /\ pending # << >>
  /\ Head(pending) \notin Broken
  /\ moved < XferLen[Head(pending)]
  /\ moved' = moved + 1
  /\ UNCHANGED pending

Complete ==
  /\ pending # << >>
  /\ Head(pending) \in Broken \/ moved = XferLen[Head(pending)]
  /\ pending' = Tail(pending)
  /\ moved' = 0

Next == (\E r \in Req : Submit(r)) \/ Move \/ Complete

Spec == Init /\ [][Next]_vars /\ WF_vars(Move) /\ WF_vars(Complete)
==============================================================================
