--------------------------------- MODULE Dma ---------------------------------
(***************************************************************************)
(* lib/src/dma.c on DMA1 channel 4, the one channel peripheral_lookup      *)
(* maps: the queue of transfer requests, the steps of                      *)
(* dma_queue_xfer_request, the channel itself and its interrupt handler.   *)
(* A request is identified with the list node it starts with (dma.h), and  *)
(* what the driver reads of it is given by fields: [addr, len] of a        *)
(* request.  Who calls, and when the handler may run, is said by the       *)
(* modules that extend this one.                                           *)
(***************************************************************************)
EXTENDS ListMgr

CONSTANT Faulty   \* the addresses the bus answers with an error

VARIABLES
  q,       \* per_channel_dma_req_q[3]
  chan,    \* the channel: enabled, base address, bytes moved, bytes to go
  flags,   \* the channel's interrupt flags that are set: "TC", "TE"
  irqen,   \* PFIC enable bit of the channel's interrupt
  isr      \* int_handler_dma1_chan4: where it stands, and its local req

dmaVars == <<q, chan, flags, irqen, isr>>

IdleIsr == [pc |-> "idle", req |-> NULL]

DmaInit ==
  /\ q = EmptyList
  /\ chan = [en |-> FALSE, base |-> NULL, done |-> 0, cntr |-> 0]
  /\ flags = {}
  /\ irqen = FALSE
  /\ isr = IdleIsr

\* A transfer is under way, or over and not yet seen by the handler.
Busy == (chan.en /\ chan.cntr > 0) \/ flags # {}

------------------------------------------------------------------------------
\* A mutant of Program: the count and the address are exchanged.
ProgramSwapped(f) ==
  /\ flags' = {}
  /\ chan' = [en |-> TRUE, base |-> f.len, done |-> 0, cntr |-> f.addr]

\* program_dma_request: clear the flags, disable, load, enable.
Program(f) ==
  /\ flags' = {}
  /\ chan' = [en |-> TRUE, base |-> f.addr, done |-> 0, cntr |-> f.len]

(***************************************************************************)
(* dma_queue_xfer_request(r), in the four steps that another context can   *)
(* come between.                                                           *)
(***************************************************************************)
\* A mutant: core_disable_pfic_irq is left out.
DisableIrqMissing == UNCHANGED dmaVars

DisableIrq ==
  /\ irqen' = FALSE
  /\ UNCHANGED <<q, chan, flags, isr>>

\* A mutant: the request goes to the front.
InsertRequestFront(r) ==
  /\ q' = InsertNodeBefore(q, NULL, r)
  /\ UNCHANGED <<chan, flags, irqen, isr>>

InsertRequest(r) ==
  /\ q' = InsertNodeAfter(q, NULL, r)
  /\ UNCHANGED <<chan, flags, irqen, isr>>

\* A mutant: the channel is programmed whatever the queue holds.
StartAlways(r, fields) ==
  /\ Program(fields[r])
  /\ UNCHANGED <<q, irqen, isr>>

\* Only the request that finds the queue empty is programmed here.
StartIfHead(r, fields) ==
  /\ IF q.head = r THEN Program(fields[r]) ELSE UNCHANGED <<chan, flags>>
  /\ UNCHANGED <<q, irqen, isr>>

EnableIrq ==
  /\ irqen' = TRUE
  /\ UNCHANGED <<q, chan, flags, isr>>

------------------------------------------------------------------------------
(***************************************************************************)
(* The channel moves one byte at a time at the pace of the peripheral, and *)
(* stops with TC after the last one or with TE on a bus error.  HTIE is    *)
(* never set, so the half-transfer flag asks for no interrupt; CNTR = 0    *)
(* moves nothing and raises nothing.                                       *)
(***************************************************************************)
Beat ==
  /\ chan.en /\ chan.cntr > 0 /\ chan.base \notin Faulty
  /\ chan' = [chan EXCEPT !.done = @ + 1, !.cntr = @ - 1]
  /\ flags' = IF chan.cntr = 1 THEN flags \union {"TC"} ELSE flags
  /\ UNCHANGED <<q, irqen, isr>>

BusError ==
  /\ chan.en /\ chan.cntr > 0 /\ chan.base \in Faulty
  /\ chan' = [chan EXCEPT !.en = FALSE]
  /\ flags' = flags \union {"TE"}
  /\ UNCHANGED <<q, irqen, isr>>

(***************************************************************************)
(* int_handler_dma1_chan4.  It clears every flag, runs the callback of the *)
(* head request while that request is still at the head, and only then     *)
(* removes it and programs the next.                                       *)
(***************************************************************************)
IsrPending == isr.pc = "idle" /\ irqen /\ flags # {}

IsrEnter(withCb) ==
  /\ IsrPending
  /\ flags' = {}
  /\ isr' = IF q.head = NULL THEN IdleIsr
            ELSE [pc |-> IF q.head \in withCb THEN "cb" ELSE "remove",
                  req |-> q.head]
  /\ UNCHANGED <<q, chan, irqen>>

CallbackReturn ==
  /\ isr.pc = "cb"
  /\ isr' = [isr EXCEPT !.pc = "remove"]
  /\ UNCHANGED <<q, chan, flags, irqen>>

IsrRemove ==
  /\ isr.pc = "remove"
  /\ q' = RemoveNode(q, isr.req)
  /\ isr' = [isr EXCEPT !.pc = "next"]
  /\ UNCHANGED <<chan, flags, irqen>>

\* A mutant: the next request is left waiting for another interrupt.
IsrNextMissing(fields) ==
  /\ isr.pc = "next"
  /\ isr' = IdleIsr
  /\ UNCHANGED <<q, chan, flags, irqen>>

IsrNext(fields) ==
  /\ isr.pc = "next"
  /\ IF q.head # NULL THEN Program(fields[q.head]) ELSE UNCHANGED <<chan, flags>>
  /\ isr' = IdleIsr
  /\ UNCHANGED <<q, irqen>>
==============================================================================
