------------------------------ MODULE DmaQueue ------------------------------
(***************************************************************************)
(* The DMA driver under its clients: the program's main loop queues        *)
(* requests of its own, and the completion callbacks queue more from       *)
(* inside the interrupt handler, as app/usart1-tx-dma does.  The handler   *)
(* interrupts the main loop between any two of its steps while the         *)
(* interrupt is enabled, and the main loop waits for it to return.  fifo   *)
(* is a history variable: the requests in the order they were queued.      *)
(***************************************************************************)
EXTENDS Dma

CONSTANTS XferLen,    \* xfter_len of each request
          WithCb,     \* the requests whose cb is not NULL
          CbQueues    \* the requests the callback of a request may queue

ASSUME DmaQueueAssumption ==
  /\ XferLen \in [Node -> Nat \ {0}]
  /\ Faulty \subseteq Node
  /\ WithCb \subseteq Node
  /\ CbQueues \in [WithCb -> SUBSET Node]

VARIABLES pc,     \* where each context stands in dma_queue_xfer_request
          arg,    \* the request it was called with
          fifo    \* the requests queued and not yet completed, oldest first

vars == <<dmaVars, pc, arg, fifo>>

Ctx == {"main", "cb"}

\* Each request has a buffer of its own.
fields == [r \in Node |-> [addr |-> r, len |-> XferLen[r]]]

Init ==
  /\ DmaInit
  /\ pc = [c \in Ctx |-> "idle"]
  /\ arg = [c \in Ctx |-> NULL]
  /\ fifo = << >>

\* The handler runs to its end before the main loop goes on, and its
\* callback runs inside it.
Running(c) == IF c = "main" THEN isr.pc = "idle" ELSE isr.pc = "cb"

Go(c, from, to) ==
  /\ Running(c)
  /\ pc[c] = from
  /\ pc' = [pc EXCEPT ![c] = to]

\* The clients agree on who queues a request that is off the queue; a
\* callback may find its own request free although it is still linked.
Taken == Range(fifo) \union {arg[c] : c \in {d \in Ctx : pc[d] \in {"disable", "insert"}}}

MayQueue(c) == IF c = "main" THEN Node \ Taken
               ELSE CbQueues[isr.req] \ (Taken \ {isr.req})

Call(c) ==
  /\ Go(c, "idle", "disable")
  /\ \E r \in MayQueue(c) : arg' = [arg EXCEPT ![c] = r]
  /\ UNCHANGED <<dmaVars, fifo>>

Disable(c) ==
  /\ Go(c, "disable", "insert")
  /\ DisableIrq
  /\ UNCHANGED <<arg, fifo>>

Insert(c) ==
  /\ Go(c, "insert", "start")
  /\ InsertRequest(arg[c])
  /\ fifo' = Append(fifo, arg[c])
  /\ UNCHANGED arg

Start(c) ==
  /\ Go(c, "start", "enable")
  /\ StartIfHead(arg[c], fields)
  /\ UNCHANGED <<arg, fifo>>

Enable(c) ==
  /\ Go(c, "enable", "idle")
  /\ EnableIrq
  /\ arg' = [arg EXCEPT ![c] = NULL]
  /\ UNCHANGED fifo

Queue(c) == Disable(c) \/ Insert(c) \/ Start(c) \/ Enable(c)

Channel == (Beat \/ BusError) /\ UNCHANGED <<pc, arg, fifo>>

Enter == IsrEnter(WithCb) /\ UNCHANGED <<pc, arg, fifo>>

Return ==
  /\ pc["cb"] = "idle"
  /\ CallbackReturn
  /\ UNCHANGED <<pc, arg, fifo>>

Leave ==
  /\ IsrRemove
  /\ fifo' = Tail(fifo)
  /\ UNCHANGED <<pc, arg>>

StartNext == IsrNext(fields) /\ UNCHANGED <<pc, arg, fifo>>

Next ==
  \/ \E c \in Ctx : Call(c) \/ Queue(c)
  \/ Channel \/ Enter \/ Return \/ Leave \/ StartNext

(***************************************************************************)
(* A call once begun goes on; the peripheral keeps asking for bytes; and   *)
(* the interrupt, which the main loop can only hold off by queueing one    *)
(* request after the other, is taken in one of the gaps between them.      *)
(* Nothing makes the program queue a request.                              *)
(***************************************************************************)
Fairness ==
  /\ \A c \in Ctx : WF_vars(Queue(c))
  /\ WF_vars(Channel)
  /\ SF_vars(Enter)
  /\ WF_vars(Return) /\ WF_vars(Leave) /\ WF_vars(StartNext)

Spec == Init /\ [][Next]_vars /\ Fairness

------------------------------------------------------------------------------
TypeOK ==
  /\ q \in List
  /\ chan \in [en : BOOLEAN, base : Ptr, done : Nat, cntr : Nat]
  /\ flags \subseteq {"TC", "TE"}
  /\ irqen \in BOOLEAN
  /\ isr \in [pc : {"idle", "cb", "remove", "next"}, req : Ptr]
  /\ pc \in [Ctx -> {"idle", "disable", "insert", "start", "enable"}]
  /\ arg \in [Ctx -> Ptr]
  /\ fifo \in Seq(Node)

\* The linked queue holds the requests in the order they were queued, also
\* when the main loop was interrupted inside dma_queue_xfer_request or a
\* callback queued from the handler.
QueueInOrder == Represents(q, fifo)

\* While the channel works, or its completion waits for the handler, it works
\* on the oldest request, from that request's first byte on.
ChannelServesHead ==
  Busy => /\ fifo # << >>
          /\ chan.base = Head(fifo)
          /\ chan.done + chan.cntr = XferLen[Head(fifo)]

\* Every completion interrupt finds the request it completes at the head of
\* the queue, so that its callback is called (dma.h:223-229).
CompletionHasRequest == flags # {} => q.head # NULL

\* No request is stranded: while one is queued, the channel is at work on it,
\* or the handler or the call that queued it is about to start it, and the
\* interrupt that will tell of its end is on or about to be put back on.
NeverStranded ==
  fifo # << >> =>
    /\ Busy \/ isr.pc # "idle" \/ pc["main"] = "start"
    /\ irqen \/ \E c \in Ctx : pc[c] \in {"insert", "start", "enable"}

\* The channel is never programmed over a transfer that is under way, nor
\* over a completion that the handler has not seen.
NeverRestarted == [][chan' # chan /\ chan'.done = 0 /\ chan'.en => ~Busy]_vars

\* A queued request is completed in the end.
EachCompletes == \A r \in Node : (r \in Range(fifo)) ~> (r \notin Range(fifo))

\* The driver implements the service: the bytes moved are the channel's
\* while it serves the head, until the handler takes that request away.
Service == INSTANCE DmaService WITH
  Req <- Node, Broken <- Faulty, pending <- fifo,
  moved <- IF Busy \/ isr.pc \in {"cb", "remove"} THEN chan.done ELSE 0

ImplementsService == Service!Spec

------------------------------------------------------------------------------
(***************************************************************************)
(* The inductive invariant behind these properties, for clients whose      *)
(* callbacks leave their own request alone.                                *)
(***************************************************************************)
NoSelfRequeue == \A r \in WithCb : r \notin CbQueues[r]

\* What the handler holds in its local variable, and the channel at rest.
HandlerInv ==
  /\ flags # {} => ~(chan.en /\ chan.cntr > 0)
  /\ isr.pc # "idle" => ~Busy
  /\ isr.pc \in {"cb", "remove"} => fifo # << >> /\ isr.req = Head(fifo)
  /\ isr.pc = "cb" => isr.req \in WithCb
  /\ pc["cb"] # "idle" => isr.pc = "cb"

\* The handler cannot run between core_disable_pfic_irq and
\* core_enable_pfic_irq of the main loop.
MaskInv ==
  pc["main"] \in {"insert", "start", "enable"} => ~irqen /\ isr.pc = "idle"

\* A request about to be inserted is on nobody's list, and the two contexts
\* never insert the same one.
ArgInv ==
  /\ \A c \in Ctx : pc[c] \in {"disable", "insert"} => arg[c] \in Node \ Range(fifo)
  /\ (\A c \in Ctx : pc[c] \in {"disable", "insert"}) => arg["main"] # arg["cb"]
  /\ \A c \in Ctx : pc[c] = "start" => fifo # << >> /\ arg[c] = fifo[Len(fifo)]

\* A request that found the queue empty finds the channel at rest, and one
\* queued by a callback never is the first.
StartInv ==
  /\ pc["main"] = "start" => (Busy <=> Len(fifo) # 1)
  /\ pc["cb"] = "start" => Len(fifo) # 1

IInv ==
  /\ TypeOK
  /\ QueueInOrder
  /\ ChannelServesHead
  /\ NeverStranded
  /\ HandlerInv
  /\ MaskInv
  /\ ArgInv
  /\ StartInv
==============================================================================
