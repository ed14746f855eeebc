------------------------------- MODULE CanLoop -------------------------------
(***************************************************************************)
(* lib/src/can.c with both sides of a controller at work, as app/can-      *)
(* example uses it in loopback: what the mailboxes send goes through the   *)
(* filter banks into one of two FIFOs, whose interrupt handlers pass it to *)
(* the callback, while the main loop goes on sending.                      *)
(***************************************************************************)
EXTENDS CanTx

CONSTANTS Ident,     \* the identifier of each frame: id, and ext for CAN_EXT_BIT
          IdLists,   \* what can_filter_init_ex may be called with
          MAX_IDS    \* the most identifiers it takes (14, can.c:327)

\* What CAN_STD_ID and CAN_EXT_ID make.
StdId == {n \in Nat : n < 2048}
ExtId == {n \in Nat : n < 536870912}
Identifier == [id : StdId, ext : {FALSE}] \union [id : ExtId, ext : {TRUE}]

ASSUME CanLoopAssumption ==
  /\ Ident \in [1 .. MaxFrames -> Identifier]
  /\ \A ids \in IdLists : ids \in Seq(Identifier)
  /\ MAX_IDS \in Nat \ {0} /\ MAX_IDS % 2 = 0

FifoDepth == 3   \* of the hardware
Fifo == 0 .. 1

VARIABLES
  filter,   \* can1_filter
  rx_cb,    \* whether can_init was given a callback
  fifo,     \* the frames in each FIFO, the one in the mailbox first
  isr,      \* the FIFO whose handler has called the callback; -1 for none
  heard,    \* history: what the callback was passed, by FIFO
  lost      \* history: frames overwritten in a full FIFO

rxVars == <<filter, rx_cb, fifo, isr, heard, lost>>

------------------------------------------------------------------------------
(***************************************************************************)
(* The filter banks.  A register is four bytes, the lowest first.          *)
(***************************************************************************)
Zero == <<0, 0, 0, 0>>
AfterReset == [fr1 |-> << >>, fr2 |-> << >>, list |-> {}, single |-> {}, active |-> {},
               fifo1 |-> {}]

\* A mutant: IDE is not asked for.
FilterWordNoIde(i) ==
  IF i.ext THEN <<(i.id % 32) * 8, (i.id \div 32) % 256, (i.id \div 8192) % 256, i.id \div 2097152>>
  ELSE <<0, 0, (i.id % 8) * 32, i.id \div 8>>

FilterWord(i) ==
  IF i.ext THEN <<(i.id % 32) * 8 + 4, (i.id \div 32) % 256, (i.id \div 8192) % 256,
                  i.id \div 2097152>>
  ELSE <<0, 0, (i.id % 8) * 32, i.id \div 8>>

can_filter_init(f) ==
  [f EXCEPT !.fr1 = << >>, !.fr2 = << >>, !.single = @ \union {0}, !.list = {},
            !.fifo1 = {}, !.active = @ \union {0}]

\* Two identifiers to a bank; the second moves the bank to FIFO 1.  Of a
\* bank that is not written both registers are zero.
can_filter_init_ex(f, ids) ==
  LET n == IF Len(ids) <= MAX_IDS THEN Len(ids) ELSE MAX_IDS
      banks == {k \div 2 : k \in 0 .. n - 1}
  IN [fr1 |-> [b \in banks |-> FilterWord(ids[2 * b + 1])],
      fr2 |-> [b \in {k \in banks : 2 * k + 1 < n} |-> FilterWord(ids[2 * b + 2])],
      list |-> f.list \union banks, single |-> f.single \union banks,
      active |-> f.active \union banks,
      fifo1 |-> f.fifo1 \union {k \in banks : 2 * k + 1 < n}]

------------------------------------------------------------------------------
(***************************************************************************)
(* The controller.  can_tx_req writes STID, EXID and IDE, which is what is *)
(* received; bit 31 of the request's identifier falls off.                 *)
(***************************************************************************)
Mir(i) == [ide |-> i.ext, exid |-> IF i.ext THEN i.id % 262144 ELSE 0,
           stid |-> (IF i.ext THEN i.id \div 262144 ELSE i.id) % 2048]

\* What a bank of single 32 bit scale compares: STID, EXID, IDE, RTR.
Compared(m) == <<(m.exid % 32) * 8 + (IF m.ide THEN 4 ELSE 0), (m.exid \div 32) % 256,
                 (m.stid % 8) * 32 + (m.exid \div 8192), m.stid \div 8>>

Held(r, b) == IF b \in DOMAIN r THEN r[b] ELSE Zero

\* List mode: one of the two; mask mode with a mask of zeros: everything.
Matches(b, m) ==
  b \in filter.list => Compared(m) \in {Held(filter.fr1, b), Held(filter.fr2, b)}

\* The FIFO a frame goes to; -1 if no bank lets it pass.
Route(n) ==
  LET banks == {b \in filter.active : Matches(b, Mir(Ident[n]))}
  IN IF banks = {} THEN -1
     ELSE IF \E b \in banks : b \in filter.fifo1 /\ \A c \in banks : b <= c THEN 1 ELSE 0

\* can_init leaves RFLM clear: a frame that finds its FIFO full takes the
\* place of the last one.
Arrive(n) ==
  LET f == Route(n) IN
  IF f = -1 THEN UNCHANGED <<fifo, lost>>
  ELSE IF Len(fifo[f]) < FifoDepth THEN fifo' = [fifo EXCEPT ![f] = Append(@, n)] /\ UNCHANGED lost
  ELSE /\ lost' = lost \union {fifo[f][FifoDepth]}
       /\ fifo' = [fifo EXCEPT ![f][FifoDepth] = n]

LoopBack ==
  /\ Transmit
  /\ Arrive(wire'[Len(wire')])
  /\ UNCHANGED <<filter, rx_cb, isr, heard>>

------------------------------------------------------------------------------
(***************************************************************************)
(* The handlers, of one priority: read the mailbox and call the callback,  *)
(* if there is one, then write RFOM, FOVR and FULL, whatever FOVR says.    *)
(***************************************************************************)
MsgId(m) == IF m.ide THEN m.exid + m.stid * 262144 ELSE m.stid
Heard(n) == [id |-> MsgId(Mir(Ident[n])), frame |-> n]

\* A mutant: the FIFO is released before the mailbox is read.
HandleReleased(f) ==
  /\ isr = -1 /\ fifo[f] # << >>
  /\ isr' = f
  /\ heard' = IF rx_cb
              THEN [heard EXCEPT ![f] = Append(@, Heard(fifo[f][IF Len(fifo[f]) > 1 THEN 2 ELSE 1]))]
              ELSE heard
  /\ UNCHANGED <<vars, filter, rx_cb, fifo, lost>>

Handle(f) ==
  /\ isr = -1 /\ fifo[f] # << >>
  /\ isr' = f
  /\ heard' = IF rx_cb THEN [heard EXCEPT ![f] = Append(@, Heard(Head(fifo[f])))] ELSE heard
  /\ UNCHANGED <<vars, filter, rx_cb, fifo, lost>>

Release ==
  /\ isr # -1 /\ isr' = -1
  /\ fifo' = [fifo EXCEPT ![isr] = Tail(@)]
  /\ UNCHANGED <<vars, filter, rx_cb, heard, lost>>

Handler == Release \/ \E f \in Fifo : Handle(f)

------------------------------------------------------------------------------
LoopInit ==
  /\ Init
  /\ \/ filter = can_filter_init(AfterReset)
     \/ \E ids \in IdLists : filter = can_filter_init_ex(AfterReset, ids)
  /\ rx_cb \in BOOLEAN
  /\ fifo = [f \in Fifo |-> << >>] /\ isr = -1
  /\ heard = [f \in Fifo |-> << >>] /\ lost = {}

\* The main loop runs where no handler does.
MainStep == isr = -1 /\ Step /\ UNCHANGED rxVars

LoopNext ==
  \/ MainStep
  \/ /\ isr = -1 /\ UNCHANGED rxVars
     /\ \E r \in Req : Check(r) \/ \E wait \in 0 .. MaxWait : Send(r, wait)
  \/ LoopBack \/ Handler
  \/ Done /\ fifo = [f \in Fifo |-> << >>] /\ UNCHANGED rxVars

LoopVars == <<vars, rxVars>>

\* A handler goes on, and is entered again while its FIFO holds a frame.
LoopSpec == LoopInit /\ [][LoopNext]_LoopVars /\ WF_LoopVars(MainStep) /\ WF_LoopVars(Handler)
------------------------------------------------------------------------------
\* Every frame that passed the filter reaches the callback once, in the order
\* they were sent (a frame's number, see SentOnceInOrder) and with its own
\* identifier (of which only CAN_EXT_BIT is dropped), or was overwritten by one
\* that found its FIFO full: frames that arrive while a handler is between the
\* mailbox and the release of the FIFO are neither skipped nor told twice.
\* Where can_init was given no callback they are released unheard.
Untold(f) == IF isr = f THEN Tail(fifo[f]) ELSE fifo[f]
Told(f) == [i \in DOMAIN heard[f] |-> heard[f][i].frame] \o Untold(f)
ToldInOrder ==
  \A f \in Fifo :
    IF ~rx_cb THEN heard[f] = << >> ELSE
    /\ Range(Told(f)) = {n \in Range(wire) : Route(n) = f /\ n \notin lost}
    /\ \A i, j \in DOMAIN Told(f) : i < j => Told(f)[i] < Told(f)[j]
    /\ \A i \in DOMAIN heard[f] : heard[f][i].id = Ident[heard[f][i].frame].id

\* A frame passes if and only if its identifier, standard or extended, is one
\* of those can_filter_init_ex was given (the first fourteen, can.c:327); but
\* an odd number of them leaves the second register of the last bank zero,
\* which is the standard identifier 0.  After can_filter_init all pass.
Listed(ids) == {ids[k] : k \in {k \in DOMAIN ids : k <= MAX_IDS}}
OddSlot(ids) == IF Len(ids) % 2 = 1 /\ Len(ids) < MAX_IDS THEN {[id |-> 0, ext |-> FALSE]} ELSE {}
AcceptsListed ==
  \A n \in Range(wire) :
    (Route(n) # -1) <=>
      \/ filter = can_filter_init(AfterReset)
      \/ \E ids \in IdLists : /\ filter = can_filter_init_ex(AfterReset, ids)
                              /\ Ident[n] \in Listed(ids) \union OddSlot(ids)
==============================================================================
