------------------------------ MODULE StdoutDma ------------------------------
(***************************************************************************)
(* lib/src/stdout-buffered.c on top of the DMA driver: _putchar puts a     *)
(* character into a ring buffer and, at a newline or a quarter of a        *)
(* buffer, hands what is unsent to the DMA channel.  It is called by the   *)
(* main loop and by interrupt handlers of different priorities, which may  *)
(* interrupt it before it raises the PFIC threshold and after it has put   *)
(* it back; the DMA handler, which has the highest priority, may run at    *)
(* any point.  A character is known by its position in the stream, so that *)
(* a slot of op_buffer holds the position of what was last put there.      *)
(***************************************************************************)
EXTENDS Dma

CONSTANTS dma_req,    \* the one request, and its list node
          BufSize,    \* APP_STDOUT_BUFFER_SIZE
          Irq,        \* the interrupts whose handlers print
          Prio,       \* their PFIC priorities: 0 is the most urgent, and
                      \* is left to the DMA channel (stdout_init)
          NestDepth,  \* LIBCH32_INT_NEST_DEPTH of the device (reset.S)
          MaxChars    \* no character is printed after so many

ASSUME StdoutAssumption ==
  /\ Node = {dma_req}
  /\ BufSize \in Nat /\ BufSize >= 4
  /\ Faulty = {}
  /\ Prio \in [Irq -> 1 .. 7]
  /\ NestDepth \in {2, 4, 8}
  /\ "main" \notin Irq

VARIABLES
  wr, rd,      \* wr_idx and rd_idx
  buf,         \* op_buffer
  dip,         \* dma_in_progress
  req,         \* dma_req.memory_address (an index into op_buffer), .xfter_len
  thr,         \* the PFIC priority threshold, 0: none
  pc, old, flush, count,   \* of each context: where it is in _putchar, locals
  seen,        \* history: what has gone wrong with the output
  lineEnd      \* history: the stream up to the last newline put

stdoutVars == <<wr, rd, buf, dip, req>>
localVars == <<pc, old, flush, count>>
histVars == <<seen, lineEnd>>
vars == <<dmaVars, stdoutVars, thr, localVars, histVars>>

Ctx == Irq \union {"main"}

\* The main loop is interrupted by everything; a handler by those of a more
\* urgent group, and a nesting depth of d makes d groups of the priorities.
Level(c) == IF c = "main" THEN 8 ELSE Prio[c]
Group(c) == Level(c) \div (8 \div NestDepth)

fields == [r \in Node |-> req]

Slot(i) == i % BufSize

Init ==
  /\ DmaInit
  /\ wr = 0 /\ rd = 0
  /\ buf = [i \in 0 .. BufSize - 1 |-> -1]
  /\ dip = FALSE
  /\ req = [addr |-> 0, len |-> 0]
  /\ thr = 0
  /\ pc = [c \in Ctx |-> "idle"]
  /\ old = [c \in Ctx |-> 0]
  /\ flush = [c \in Ctx |-> FALSE]
  /\ count = [c \in Ctx |-> 0]
  /\ seen = {} /\ lineEnd = 0

------------------------------------------------------------------------------
\* A context runs while nothing more urgent is active.
Running(c) ==
  /\ isr.pc = "idle"
  /\ \A d \in Ctx \ {c} : pc[d] # "idle" => Group(c) < Group(d)

At(c, l) == Running(c) /\ pc[c] = l
Goto(c, l) == pc' = [pc EXCEPT ![c] = l]

(***************************************************************************)
(* _putchar.  A handler enters when its priority is above the threshold;   *)
(* the old threshold is read and the new one written one after the other.  *)
(***************************************************************************)
Call(c) ==
  /\ At(c, "idle") /\ wr < MaxChars
  /\ c # "main" => thr = 0 \/ Level(c) < thr
  /\ Goto(c, "raise")
  /\ \E f \in BOOLEAN : flush' = [flush EXCEPT ![c] = f]
  /\ old' = [old EXCEPT ![c] = thr]
  /\ UNCHANGED <<dmaVars, stdoutVars, thr, count, histVars>>

\* A mutant: the threshold is left alone.
RaiseMissing(c) ==
  /\ At(c, "raise") /\ Goto(c, "put")
  /\ UNCHANGED <<dmaVars, stdoutVars, thr, old, flush, count, histVars>>

Raise(c) ==
  /\ At(c, "raise") /\ Goto(c, "put")
  /\ thr' = 1
  /\ UNCHANGED <<dmaVars, stdoutVars, old, flush, count, histVars>>

Put(c) ==
  /\ At(c, "put") /\ Goto(c, "test")
  /\ buf' = [buf EXCEPT ![Slot(wr)] = wr]
  /\ wr' = wr + 1
  /\ seen' = IF wr - rd >= BufSize THEN seen \union {"overwritten"} ELSE seen
  /\ lineEnd' = IF flush[c] THEN wr + 1 ELSE lineEnd
  /\ UNCHANGED <<dmaVars, rd, dip, req, thr, old, flush, count>>

\* Two mutants: a newline does not wait for the transfer under way; the
\* characters to send are counted before the wait.
TestNoFlush(c) ==
  /\ At(c, "test") /\ Goto(c, IF dip THEN "restore" ELSE "count")
  /\ UNCHANGED <<dmaVars, stdoutVars, thr, old, flush, count, histVars>>

TestStale(c) ==
  /\ At(c, "test")
  /\ Goto(c, IF ~dip THEN "count" ELSE IF flush[c] THEN "loop" ELSE "restore")
  /\ count' = [count EXCEPT ![c] = wr - rd]
  /\ UNCHANGED <<dmaVars, stdoutVars, thr, old, flush, histVars>>

Test(c) ==
  /\ At(c, "test")
  /\ Goto(c, IF ~dip THEN "count" ELSE IF flush[c] THEN "spin" ELSE "restore")
  /\ UNCHANGED <<dmaVars, stdoutVars, thr, old, flush, count, histVars>>

Spin(c) ==
  /\ At(c, "spin") /\ ~dip /\ Goto(c, "count")
  /\ UNCHANGED <<dmaVars, stdoutVars, thr, old, flush, count, histVars>>

\* A mutant: the indices are exchanged.
CountSwapped(c) ==
  /\ At(c, "count") /\ Goto(c, IF flush[c] THEN "loop" ELSE "restore")
  /\ count' = [count EXCEPT ![c] = rd - wr]
  /\ UNCHANGED <<dmaVars, stdoutVars, thr, old, flush, histVars>>

Count(c) ==
  /\ At(c, "count")
  /\ count' = [count EXCEPT ![c] = wr - rd]
  /\ Goto(c, IF flush[c] \/ wr - rd >= BufSize \div 4 THEN "loop" ELSE "restore")
  /\ UNCHANGED <<dmaVars, stdoutVars, thr, old, flush, histVars>>

(***************************************************************************)
(* drain_buffer, its loop inlined: wait for the last transfer, compute the *)
(* next, queue it.                                                         *)
(***************************************************************************)
\* A mutant: the wait is left out.
LoopNoWait(c) ==
  /\ At(c, "loop") /\ Goto(c, IF count[c] = 0 THEN "restore" ELSE "prepare")
  /\ UNCHANGED <<dmaVars, stdoutVars, thr, old, flush, count, histVars>>

Loop(c) ==
  /\ At(c, "loop") /\ (count[c] = 0 \/ ~dip)
  /\ Goto(c, IF count[c] = 0 THEN "restore" ELSE "prepare")
  /\ UNCHANGED <<dmaVars, stdoutVars, thr, old, flush, count, histVars>>

ChunkLen(n) == LET head_room == BufSize - Slot(rd)
               IN  IF n > head_room THEN n - head_room ELSE n

\* A mutant: every chunk is sent from the start of the buffer.
PrepareAtZero(c) ==
  /\ At(c, "prepare") /\ Goto(c, "mark")
  /\ count' = [count EXCEPT ![c] = @ - ChunkLen(@)]
  /\ req' = [addr |-> 0, len |-> ChunkLen(count[c])]
  /\ UNCHANGED <<dmaVars, wr, rd, buf, dip, thr, old, flush, histVars>>

Prepare(c) ==
  /\ At(c, "prepare") /\ Goto(c, "mark")
  /\ count' = [count EXCEPT ![c] = @ - ChunkLen(@)]
  /\ req' = [addr |-> Slot(rd), len |-> ChunkLen(count[c])]
  /\ UNCHANGED <<dmaVars, wr, rd, buf, dip, thr, old, flush, histVars>>

\* A mutant: the transfer is not marked before it is queued.
MarkMissing(c) ==
  /\ At(c, "mark") /\ Goto(c, "disable")
  /\ UNCHANGED <<dmaVars, stdoutVars, thr, old, flush, count, histVars>>

Mark(c) ==
  /\ At(c, "mark") /\ Goto(c, "disable")
  /\ dip' = TRUE
  /\ UNCHANGED <<dmaVars, wr, rd, buf, req, thr, old, flush, count, histVars>>

Queue(c) ==
  /\ \/ At(c, "disable") /\ DisableIrq /\ Goto(c, "insert")
     \/ At(c, "insert") /\ InsertRequest(dma_req) /\ Goto(c, "start")
     \/ At(c, "start") /\ StartIfHead(dma_req, fields) /\ Goto(c, "enable")
     \/ At(c, "enable") /\ EnableIrq /\ Goto(c, "loop")
  /\ UNCHANGED <<stdoutVars, thr, old, flush, count, histVars>>

Restore(c) ==
  /\ At(c, "restore") /\ Goto(c, "idle")
  /\ thr' = old[c]
  /\ UNCHANGED <<dmaVars, stdoutVars, old, flush, count, histVars>>

Step(c) ==
  \/ Raise(c) \/ Put(c) \/ Test(c) \/ Spin(c) \/ Count(c)
  \/ Loop(c) \/ Prepare(c) \/ Mark(c) \/ Queue(c) \/ Restore(c)

------------------------------------------------------------------------------
\* The byte the channel moves should be the next of the stream; the memory
\* past op_buffer holds none.
Move ==
  /\ Beat
  /\ LET at == chan.base + chan.done
     IN  seen' = seen
           \union (IF at >= BufSize THEN {"outside"} ELSE {})
           \union (IF at < BufSize /\ buf[at] = rd + chan.done THEN {} ELSE {"wrong"})
  /\ UNCHANGED <<stdoutVars, thr, localVars, lineEnd>>

\* The handler has the highest priority and is let through any threshold, but
\* does not interrupt a handler of its own group.
Enter ==
  /\ \A c \in Ctx : pc[c] # "idle" => Group(c) > 0
  /\ IsrEnter(Node)
  /\ UNCHANGED <<stdoutVars, thr, localVars, histVars>>

\* dma_cb; it stops the program for good when no transfer is in progress.
Callback ==
  /\ CallbackReturn
  /\ dip
  /\ rd' = rd + req.len
  /\ dip' = FALSE
  /\ UNCHANGED <<wr, buf, req, thr, localVars, histVars>>

Leave == IsrRemove /\ UNCHANGED <<stdoutVars, thr, localVars, histVars>>

StartNext == IsrNext(fields) /\ UNCHANGED <<stdoutVars, thr, localVars, histVars>>

Handler == Enter \/ Callback \/ Leave \/ StartNext

\* The printing is over.
Done ==
  /\ wr >= MaxChars /\ \A c \in Ctx : pc[c] = "idle"
  /\ ~Busy /\ isr.pc = "idle"
  /\ UNCHANGED vars

Next == (\E c \in Ctx : Call(c) \/ Step(c)) \/ Move \/ Handler \/ Done

(***************************************************************************)
(* _putchar goes on when nothing more urgent runs, the USART asks for the  *)
(* next byte, and the handler runs when it may.  Nobody has to print.      *)
(***************************************************************************)
Fairness ==
  /\ \A c \in Ctx : WF_vars(Step(c))
  /\ WF_vars(Move) /\ WF_vars(Handler)

Spec == Init /\ [][Next]_vars /\ Fairness
------------------------------------------------------------------------------
Inside == {c \in Ctx : pc[c] \notin {"idle", "raise"}}

Label == {"idle", "raise", "put", "test", "spin", "count", "loop", "prepare",
          "mark", "disable", "insert", "start", "enable", "restore"}

InFlight == IF dip THEN req.len ELSE 0

TypeOK ==
  /\ q \in List
  /\ chan \in [en : BOOLEAN, base : Nat \union {NULL}, done : Nat, cntr : Nat]
  /\ flags \subseteq {"TC", "TE"}
  /\ irqen \in BOOLEAN
  /\ isr \in [pc : {"idle", "cb", "remove", "next"}, req : Ptr]
  /\ wr \in Nat /\ rd \in Nat
  /\ buf \in [0 .. BufSize - 1 -> Nat \union {-1}]
  /\ dip \in BOOLEAN
  /\ req \in [addr : 0 .. BufSize - 1, len : Nat]
  /\ thr \in 0 .. 7
  /\ pc \in [Ctx -> Label]
  /\ old \in [Ctx -> 0 .. 7]
  /\ flush \in [Ctx -> BOOLEAN]
  /\ count \in [Ctx -> Nat]
  /\ seen \subseteq {"overwritten", "outside", "wrong"} /\ lineEnd \in Nat

\* At most one context is between the two calls that change the threshold,
\* however they interrupt each other, and the threshold is raised exactly
\* while there is one (the comment at stdout-buffered.c:101).
OneInPutchar ==
  /\ \A c, d \in Inside : c = d
  /\ thr = IF Inside = {} THEN 0 ELSE 1

\* dma_cb is never called without a transfer in progress, where it would stop
\* the program (stdout-buffered.c:58).
NoTrap == isr.pc = "cb" => dip

\* Every character is accounted for: sent, in the transfer under way, or left
\* to the drain loop, which ends when nothing is left.
Accounting ==
  /\ rd + InFlight <= wr
  /\ \A c \in Inside :
       /\ pc[c] \in {"loop", "prepare", "disable", "insert", "start", "enable"} =>
            rd + InFlight + count[c] = wr
       /\ pc[c] = "mark" => rd + req.len + count[c] = wr

\* dma_req is only written while neither the queue nor the channel has it.
RequestFree ==
  \A c \in Ctx : pc[c] \in {"prepare", "mark", "disable", "insert"} =>
    q.head = NULL /\ ~Busy /\ isr.pc = "idle"

\* A wrong byte goes out only after the buffer was overrun or the channel was
\* sent past its end.
WrongOnlyByOverrun == "wrong" \in seen => seen \intersect {"overwritten", "outside"} # {}

\* Every line is sent in the end, without another character being printed.
LinesGoOut == []<>(rd >= lineEnd)
------------------------------------------------------------------------------
(***************************************************************************)
(* The inductive invariant behind them.  The queue is empty or holds       *)
(* dma_req alone, and dma_in_progress tells the two apart but for the few  *)
(* steps between marking and inserting and between callback and removal.   *)
(***************************************************************************)
Queued == CreateList(EmptyList, dma_req)

\* The context inside is the most urgent of those that are active, and gives
\* back a threshold of zero.
InsideInv ==
  /\ \A c \in Inside : \A d \in Ctx \ {c} : pc[d] # "idle" => Group(c) < Group(d)
  /\ \A c \in Ctx : pc[c] # "idle" => old[c] = 0
  /\ thr = IF Inside = {} THEN 0 ELSE 1

EmptyInv ==
  q = EmptyList => /\ ~Busy /\ isr.pc \in {"idle", "next"}
                   /\ dip => \E c \in Ctx : pc[c] \in {"disable", "insert"}

QueuedInv ==
  q = Queued => isr.pc # "next" /\ (dip <=> isr.pc # "remove")

HandlerInv ==
  /\ flags # {} => ~(chan.en /\ chan.cntr > 0)
  /\ isr.pc # "idle" => ~Busy
  /\ isr.pc \in {"cb", "remove"} => isr.req = dma_req

CallerInv ==
  \A c \in Ctx :
    /\ pc[c] \in {"count", "prepare", "mark"} => ~dip
    /\ pc[c] \in {"prepare", "mark", "disable", "insert"} =>
         q = EmptyList /\ isr.pc = "idle"
    /\ pc[c] \in {"disable", "insert", "start"} => dip /\ ~Busy
    /\ pc[c] \in {"start", "enable"} => q = Queued /\ isr.pc = "idle"
    /\ pc[c] \in {"insert", "start", "enable"} => ~irqen

DataInv ==
  /\ TypeOK
  /\ q \in {EmptyList, Queued}
  /\ EmptyInv
  /\ QueuedInv
  /\ HandlerInv
  /\ CallerInv
  /\ Accounting

IInv == InsideInv /\ DataInv

\* What is on its way out.  Short of an overrun the ring holds the characters
\* not yet sent, each in its slot; a transfer starts at the slot of the first
\* of them, and a running channel has what is left of that transfer to do.
StreamInv ==
  /\ "overwritten" \notin seen =>
       wr - rd <= BufSize /\ \A i \in rd .. wr - 1 : buf[Slot(i)] = i
  /\ dip \/ (\E c \in Ctx : pc[c] = "mark") => req.addr = Slot(rd)
  /\ chan.en /\ chan.cntr > 0 =>
       chan.base = req.addr /\ chan.done + chan.cntr = req.len
  /\ WrongOnlyByOverrun
==============================================================================
