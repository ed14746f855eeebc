-------------------------------- MODULE CanTx --------------------------------
(***************************************************************************)
(* lib/src/can.c, the sending side of one controller: can_tx_req looks for *)
(* a free mailbox, a millisecond at a time, fills it and asks for it to be *)
(* sent; can_check_tx_complete asks later what has become of it.  Both are *)
(* called by the main loop, while the controller sends at its own pace.    *)
(* A frame is known by its number in the sequence of accepted requests.    *)
(***************************************************************************)
EXTENDS SequencesExt, Integers

CONSTANTS Req,         \* the CANTxReq objects of the program
          MaxWait,     \* the largest max_wait_ms it passes
          MaxFrames,   \* no more frames are requested than these
          NULL

ASSUME CanTxAssumption ==
  /\ MaxWait \in Nat /\ MaxFrames \in Nat
  /\ NULL \notin Req

Mailbox == 0 .. 2

Invalid == 255   \* CAN_TX_MB_INVALID_IDX

VARIABLES
  frame,     \* what each mailbox holds
  pend,      \* the mailboxes that ask to be sent, first asked first
  rqcp,      \* TSTATR: the mailboxes with RQCP set (and with it TXOK)
  mbIdx,     \* _mb_idx of each request
  pc, cur,   \* where the main loop stands, and the request it called with
  left,      \* can_tx_req: max_wait_ms, counted down
  snap,      \* can_check_tx_complete: RQCP bits read by the |= at its end
  told,      \* history: the answer to the last question about each request
  nth,       \* history: the frame each request was last accepted as
  accepted,  \* history: number of frames accepted
  wire       \* history: the frames sent

regVars == <<frame, pend, rqcp>>
vars == <<regVars, mbIdx, pc, cur, left, snap, told, nth, accepted, wire>>

Init ==
  /\ frame = [m \in Mailbox |-> 0]
  /\ pend = << >> /\ rqcp = {}
  /\ mbIdx = [r \in Req |-> Invalid]
  /\ pc = "idle" /\ cur = NULL /\ left = 0 /\ snap = {}
  /\ told = [r \in Req |-> "nothing"]
  /\ nth = [r \in Req |-> 0]
  /\ accepted = 0 /\ wire = << >>

------------------------------------------------------------------------------
(***************************************************************************)
(* The controller.  can_init writes CTLR with TXFP alone: mailboxes are    *)
(* sent in the order they were asked for, not by identifier, and a frame   *)
(* nobody acknowledges is sent again until somebody does, so that RQCP     *)
(* never comes without TXOK.                                               *)
(***************************************************************************)
\* A mutant: can_init leaves TXFP clear.
TransmitFifoOff == FALSE

TransmitFifo == TRUE

Transmit ==
  \E i \in DOMAIN pend :
    /\ TransmitFifo => i = 1
    /\ wire' = Append(wire, frame[pend[i]])
    /\ rqcp' = rqcp \union {pend[i]}
    /\ pend' = RemoveAt(pend, i)
    /\ UNCHANGED <<frame, mbIdx, pc, cur, left, snap, told, nth, accepted>>

Empty(m) == m \notin Range(pend)   \* TMEm

------------------------------------------------------------------------------
\* can_tx_req(r, wait)
Send(r, wait) ==
  /\ pc = "idle" /\ accepted < MaxFrames
  /\ pc' = "tme0" /\ cur' = r /\ left' = wait
  /\ mbIdx' = [mbIdx EXCEPT ![r] = Invalid]
  /\ UNCHANGED <<regVars, snap, told, nth, accepted, wire>>

\* The three bits are read one after the other, until one is found set.
Label == [m \in Mailbox |-> CASE m = 0 -> "tme0" [] m = 1 -> "tme1" [] m = 2 -> "tme2"]

Scan(m) ==
  /\ pc = Label[m]
  /\ IF Empty(m) THEN pc' = "fill" /\ mbIdx' = [mbIdx EXCEPT ![cur] = m]
     ELSE pc' = (IF m = 2 THEN "retry" ELSE Label[m + 1]) /\ UNCHANGED mbIdx
  /\ UNCHANGED <<regVars, cur, left, snap, told, nth, accepted, wire>>

\* Two mutants: the time is counted down before it is tested; not at all.
RetryWraps ==
  /\ pc = "retry"
  /\ left' = left - 1
  /\ pc' = IF left - 1 # 0 THEN "tme0" ELSE "idle"
  /\ UNCHANGED <<regVars, mbIdx, cur, snap, told, nth, accepted, wire>>

RetryForever ==
  /\ pc = "retry"
  /\ pc' = IF left > 0 THEN "tme0" ELSE "idle"
  /\ UNCHANGED <<regVars, mbIdx, cur, left, snap, told, nth, accepted, wire>>

\* A millisecond later, from the first mailbox on; or give up.
Retry ==
  /\ pc = "retry"
  /\ IF left > 0 THEN left' = left - 1 /\ pc' = "tme0"
     ELSE pc' = "idle" /\ UNCHANGED left
  /\ UNCHANGED <<regVars, mbIdx, cur, snap, told, nth, accepted, wire>>

\* Identifier, length and payload go into the mailbox; then TXRQ is set, and
\* the controller clears the flags of the mailbox.
Fill ==
  /\ pc = "fill" /\ pc' = "txrq"
  /\ frame' = [frame EXCEPT ![mbIdx[cur]] = accepted + 1]
  /\ UNCHANGED <<pend, rqcp, mbIdx, cur, left, snap, told, nth, accepted, wire>>

RequestTx ==
  /\ pc = "txrq" /\ pc' = "idle"
  /\ pend' = Append(pend, mbIdx[cur])
  /\ rqcp' = rqcp \ {mbIdx[cur]}
  /\ nth' = [nth EXCEPT ![cur] = accepted + 1]
  /\ told' = [told EXCEPT ![cur] = "nothing"]
  /\ accepted' = accepted + 1
  /\ UNCHANGED <<frame, mbIdx, cur, left, snap, wire>>

------------------------------------------------------------------------------
(***************************************************************************)
(* can_check_tx_complete(r), for a request whose last can_tx_req succeeded *)
(* and that has not been reported done.                                    *)
(***************************************************************************)
Check(r) ==
  /\ pc = "idle" /\ mbIdx[r] # Invalid /\ told[r] # "done"
  /\ pc' = "check" /\ cur' = r
  /\ UNCHANGED <<regVars, mbIdx, left, snap, told, nth, accepted, wire>>

\* A mutant: the status is not shifted to the mailbox of the request.
ReadStatusUnshifted ==
  /\ pc = "check"
  /\ pc' = IF rqcp # {} THEN "or" ELSE "idle"
  /\ told' = [told EXCEPT ![cur] = IF rqcp # {} THEN "done" ELSE "running"]
  /\ UNCHANGED <<regVars, mbIdx, cur, left, snap, nth, accepted, wire>>

ReadStatus ==
  /\ pc = "check"
  /\ pc' = IF mbIdx[cur] \in rqcp THEN "or" ELSE "idle"
  /\ told' = [told EXCEPT ![cur] = IF mbIdx[cur] \in rqcp THEN "done" ELSE "running"]
  /\ UNCHANGED <<regVars, mbIdx, cur, left, snap, nth, accepted, wire>>

\* The flags are cleared by writing ones; the |= reads the register again and
\* writes back, with the bits of this mailbox, whatever it has read.
ReadFlags ==
  /\ pc = "or" /\ pc' = "clear"
  /\ snap' = rqcp
  /\ UNCHANGED <<regVars, mbIdx, cur, left, told, nth, accepted, wire>>

ClearFlags ==
  /\ pc = "clear" /\ pc' = "idle"
  /\ rqcp' = rqcp \ (snap \union {mbIdx[cur]})
  /\ snap' = {}
  /\ UNCHANGED <<frame, pend, mbIdx, cur, left, told, nth, accepted, wire>>

------------------------------------------------------------------------------
Step ==
  \/ \E m \in Mailbox : Scan(m)
  \/ Retry \/ Fill \/ RequestTx
  \/ ReadStatus \/ ReadFlags \/ ClearFlags

\* Everything is sent and reported as far as the program can ask for it.
Done ==
  /\ pc = "idle" /\ accepted = MaxFrames /\ pend = << >>
  /\ UNCHANGED vars

Next ==
  \/ \E r \in Req : Check(r) \/ \E wait \in 0 .. MaxWait : Send(r, wait)
  \/ Step \/ Transmit \/ Done

\* The processor goes on, also while nobody acknowledges a frame on the bus.
Spec == Init /\ [][Next]_vars /\ WF_vars(Step)
------------------------------------------------------------------------------
Frame == 0 .. MaxFrames

TypeOK ==
  /\ frame \in [Mailbox -> Frame]
  /\ pend \in Seq(Mailbox) /\ rqcp \subseteq Mailbox /\ snap \subseteq Mailbox
  /\ mbIdx \in [Req -> Mailbox \union {Invalid}]
  /\ pc \in {"idle", "tme0", "tme1", "tme2", "retry", "fill", "txrq",
             "check", "or", "clear"}
  /\ cur \in Req \union {NULL}
  /\ left \in 0 .. MaxWait
  /\ told \in [Req -> {"nothing", "running", "done"}]
  /\ nth \in [Req -> Frame]
  /\ accepted \in Frame
  /\ wire \in Seq(Frame)

\* Every accepted frame is sent once and unchanged, and in the order they were
\* accepted, however the mailboxes come free while can_tx_req looks at them.
SentOnceInOrder ==
  wire \o [i \in DOMAIN pend |-> frame[pend[i]]] = [i \in 1 .. accepted |-> i]

\* A request reported done has been sent: CAN_TX_DONE never stands for another
\* frame that used the same mailbox, or for an earlier one of the request.
DoneMeansSent == \A r \in Req : told[r] = "done" => nth[r] \in Range(wire)

\* can_tx_req and can_check_tx_complete return, also when the bus is dead and
\* no mailbox ever comes free.
CallsReturn == pc # "idle" ~> pc = "idle"

\* What can_check_tx_complete is for, and what fails: a question about one
\* request leaves alone the flags that answer for the other mailboxes.
ClearsOwnFlags == [][pc = "clear" => rqcp \ {mbIdx[cur]} \subseteq rqcp']_vars
==============================================================================
