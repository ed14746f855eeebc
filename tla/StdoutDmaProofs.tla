--------------------------- MODULE StdoutDmaProofs ---------------------------
(***************************************************************************)
(* The buffered output for every buffer size, any set of printing          *)
(* interrupts below the priority of the DMA channel, and output of any     *)
(* length.                                                                 *)
(***************************************************************************)
EXTENDS StdoutDma, TLAPS

LEMMA Levels ==
  ASSUME StdoutAssumption, NEW c \in Ctx
  PROVE  Level(c) >= 1
  BY DEF StdoutAssumption, Ctx, Level

\* Whatever the nesting depth, the main loop interrupts no handler.
LEMMA Groups ==
  ASSUME StdoutAssumption, NEW c \in Ctx
  PROVE  /\ Group(c) \in Nat
         /\ Group(c) <= Group("main")
  <1>1. NestDepth \in {2, 4, 8} /\ "main" \notin Irq
    BY DEF StdoutAssumption
  <1>2. Level(c) \in 1 .. 8 /\ Level("main") = 8
    BY DEF StdoutAssumption, Ctx, Level
  <1>3. CASE NestDepth = 2
    BY <1>2, <1>3 DEF Group
  <1>4. CASE NestDepth = 4
    BY <1>2, <1>4 DEF Group
  <1>5. CASE NestDepth = 8
    BY <1>2, <1>5 DEF Group
  <1> QED
    BY <1>1, <1>3, <1>4, <1>5

LEMMA SlotRange ==
  ASSUME StdoutAssumption, NEW i \in Nat
  PROVE  Slot(i) \in 0 .. BufSize - 1
  BY DEF StdoutAssumption, Slot

\* A chunk takes something, and no more than there is.
LEMMA ChunkRange ==
  ASSUME StdoutAssumption, NEW n \in Nat, rd \in Nat
  PROVE  ChunkLen(n) \in Nat /\ ChunkLen(n) <= n
  <1> DEFINE room == BufSize - Slot(rd)
  <1>1. room \in Nat
    BY SlotRange DEF StdoutAssumption
  <1> HIDE DEF room
  <1>2. ChunkLen(n) = IF n > room THEN n - room ELSE n
    BY DEF ChunkLen, room
  <1> QED
    BY <1>1, <1>2

\* The two states of the queue and the way between them.
LEMMA QueueOps ==
  ASSUME StdoutAssumption, NullAssumption
  PROVE  /\ EmptyList.head = NULL /\ Queued.head = dma_req /\ dma_req # NULL
         /\ EmptyList # Queued
         /\ EmptyList \in List /\ Queued \in List
         /\ InsertNodeAfter(EmptyList, NULL, dma_req) = Queued
         /\ RemoveNode(Queued, dma_req) = EmptyList
  <1> USE DEF StdoutAssumption, NullAssumption
  <1>1. EmptyList = [head |-> NULL, prev |-> [n \in {dma_req} |-> NULL],
                     next |-> [n \in {dma_req} |-> NULL]]
    BY DEF EmptyList
  <1>2. Queued = [head |-> dma_req, prev |-> [n \in {dma_req} |-> dma_req],
                  next |-> [n \in {dma_req} |-> dma_req]]
    BY <1>1 DEF Queued, CreateList
  <1>3. EmptyList.head = NULL /\ Queued.head = dma_req /\ dma_req # NULL
    BY <1>1, <1>2
  <1>4. EmptyList \in List /\ Queued \in List
    BY <1>1, <1>2 DEF List, Ptr
  <1>5. InsertNodeAfter(EmptyList, NULL, dma_req) = Queued
    BY <1>3 DEF InsertNodeAfter, Queued
  <1>6. RemoveNode(Queued, dma_req) = EmptyList
    <2>1. Queued.next[dma_req] = dma_req
      BY <1>2
    <2> DEFINE m == RemoveNode(Queued, dma_req)
    <2>2. /\ m \in List /\ m.head = NULL
          /\ m.prev[dma_req] = NULL /\ m.next[dma_req] = NULL
      BY <1>4, <2>1 DEF RemoveNode, InitNode, List, Ptr
    <2> HIDE DEF m
    <2>3. m.prev = EmptyList.prev /\ m.next = EmptyList.next
      BY <1>1, <2>2 DEF List
    <2>4. m = EmptyList
      BY <1>1, <1>4, <2>2, <2>3 DEF List
    <2> QED
      BY <2>4 DEF m
  <1> QED
    BY <1>3, <1>4, <1>5, <1>6

------------------------------------------------------------------------------
\* Who is inside is alone there.
LEMMA Alone ==
  ASSUME StdoutAssumption, InsideInv, NEW c \in Inside, NEW d \in Ctx, d # c
  PROVE  pc[d] \in {"idle", "raise"}
  <1> SUFFICES ASSUME pc[d] \notin {"idle", "raise"} PROVE FALSE
    OBVIOUS
  <1>1. c \in Ctx /\ pc[c] # "idle" /\ d \in Inside
    BY DEF Inside
  <1>2. Group(c) < Group(d) /\ Group(d) < Group(c)
    BY <1>1 DEF InsideInv
  <1> QED
    BY <1>1, <1>2, Groups

\* A context that runs finds nobody else inside.
LEMMA RunsAlone ==
  ASSUME StdoutAssumption, InsideInv, NEW c \in Ctx, Running(c), pc[c] # "idle"
  PROVE  \A d \in Ctx \ {c} : pc[d] \in {"idle", "raise"}
  <1> SUFFICES ASSUME NEW d \in Ctx, d # c, pc[d] \notin {"idle", "raise"} PROVE FALSE
    OBVIOUS
  <1>1. d \in Inside /\ pc[d] # "idle"
    BY DEF Inside
  <1>2. Group(c) < Group(d) /\ Group(d) < Group(c)
    BY <1>1 DEF InsideInv, Running
  <1> QED
    BY <1>2, Groups

\* Neither does one that starts to.
LEMMA CallsAlone ==
  ASSUME StdoutAssumption, TypeOK, InsideInv, NEW c \in Ctx, Call(c)
  PROVE  Inside = {} /\ thr = 0
  <1>1. pc[c] = "idle" /\ Running(c) /\ (c # "main" => thr = 0 \/ Level(c) < thr)
    BY DEF Call, At
  <1>2. CASE c = "main"
    <2> SUFFICES ASSUME NEW d \in Inside PROVE FALSE
      BY DEF InsideInv
    <2>1. d \in Ctx /\ d # c /\ pc[d] # "idle"
      BY <1>1 DEF Inside
    <2>2. Group(c) < Group(d)
      BY <1>1, <2>1 DEF Running
    <2> QED
      BY <1>2, <2>1, <2>2, Groups
  <1>3. CASE c # "main"
    <2>1. ~(Level(c) < 1)
      BY Levels DEF StdoutAssumption, Level, Ctx
    <2> QED
      BY <1>1, <1>3, <2>1 DEF InsideInv
  <1> QED
    BY <1>2, <1>3

LEMMA InsideInit == Init => InsideInv
  BY DEF Init, InsideInv, Inside

LEMMA InsideStep ==
  ASSUME StdoutAssumption, TypeOK, InsideInv, [Next]_vars
  PROVE  InsideInv'
  <1> USE DEF InsideInv, Inside
  <1>0. pc \in [Ctx -> Label] /\ old \in [Ctx -> 0 .. 7]
    BY DEF TypeOK
  <1>1. ASSUME NEW c \in Ctx, Call(c) PROVE InsideInv'
    <2>1. Inside = {} /\ thr = 0
      BY <1>1, CallsAlone
    <2>2. pc' = [pc EXCEPT ![c] = "raise"] /\ old' = [old EXCEPT ![c] = thr] /\ thr' = thr
      BY <1>1 DEF Call, Goto
    <2>3. Inside' = {}
      BY <1>0, <2>1, <2>2
    <2>4. \A d \in Ctx : pc'[d] # "idle" => old'[d] = 0
      BY <1>0, <2>1, <2>2
    <2> QED
      BY <2>1, <2>2, <2>3, <2>4
  <1>2. ASSUME NEW c \in Ctx, Raise(c) PROVE InsideInv'
    <2>1. pc[c] = "raise" /\ Running(c) /\ pc' = [pc EXCEPT ![c] = "put"]
          /\ old' = old /\ thr' = 1
      BY <1>2 DEF Raise, At, Goto
    <2>2. \A d \in Ctx \ {c} : pc[d] \in {"idle", "raise"}
      BY <2>1, RunsAlone
    <2>3. Inside' = {c}
      BY <1>0, <2>1, <2>2
    <2>4. \A d \in Ctx \ {c} : pc'[d] # "idle" => Group(c) < Group(d)
      BY <1>0, <2>1 DEF Running
    <2>5. \A d \in Ctx : pc'[d] # "idle" => old'[d] = 0
      BY <1>0, <2>1
    <2> QED
      BY <2>1, <2>3, <2>4, <2>5
  <1>3. ASSUME NEW c \in Ctx, Restore(c) PROVE InsideInv'
    <2>1. pc[c] = "restore" /\ Running(c) /\ pc' = [pc EXCEPT ![c] = "idle"]
          /\ old' = old /\ thr' = old[c]
      BY <1>3 DEF Restore, At, Goto
    <2>2. \A d \in Ctx \ {c} : pc[d] \in {"idle", "raise"}
      BY <2>1, RunsAlone
    <2>3. Inside' = {}
      BY <1>0, <2>1, <2>2
    <2>4. \A d \in Ctx : pc'[d] # "idle" => old'[d] = 0
      BY <1>0, <2>1
    <2>5. thr' = 0
      BY <2>1
    <2> QED
      BY <2>3, <2>4, <2>5
  <1>4. ASSUME NEW c \in Ctx, NEW b, pc' = [pc EXCEPT ![c] = b],
               pc[c] \notin {"idle", "raise"}, b \notin {"idle", "raise"},
               UNCHANGED <<old, thr>>
        PROVE  InsideInv'
    <2>1. Inside' = Inside
      BY <1>0, <1>4
    <2>2. \A d \in Ctx : pc'[d] # "idle" <=> pc[d] # "idle"
      BY <1>0, <1>4
    <2> QED
      BY <1>4, <2>1, <2>2
  <1>5. ASSUME NEW c \in Ctx, Put(c) \/ Test(c) \/ Spin(c) \/ Count(c) \/ Loop(c)
                              \/ Prepare(c) \/ Mark(c) \/ Queue(c)
        PROVE  InsideInv'
    <2>1. CASE Put(c) \/ Spin(c) \/ Prepare(c) \/ Mark(c)
      <3>1. pc[c] \in {"put", "spin", "prepare", "mark"} /\ UNCHANGED <<old, thr>>
        BY <2>1 DEF Put, Spin, Prepare, Mark, At
      <3>2. \E b \in {"test", "count", "mark", "disable"} : pc' = [pc EXCEPT ![c] = b]
        BY <2>1 DEF Put, Spin, Prepare, Mark, Goto
      <3> QED
        BY <1>4, <3>1, <3>2
    <2>2. CASE Test(c)
      <3>1. pc[c] = "test" /\ UNCHANGED <<old, thr>>
        BY <2>2 DEF Test, At
      <3>2. \E b \in {"count", "spin", "restore"} : pc' = [pc EXCEPT ![c] = b]
        BY <2>2 DEF Test, Goto
      <3> QED
        BY <1>4, <3>1, <3>2
    <2>3. CASE Count(c) \/ Loop(c)
      <3>1. pc[c] \in {"count", "loop"} /\ UNCHANGED <<old, thr>>
        BY <2>3 DEF Count, Loop, At
      <3>2. \E b \in {"loop", "prepare", "restore"} : pc' = [pc EXCEPT ![c] = b]
        BY <2>3 DEF Count, Loop, Goto
      <3> QED
        BY <1>4, <3>1, <3>2
    <2>4. CASE Queue(c)
      <3>1. pc[c] \in {"disable", "insert", "start", "enable"} /\ UNCHANGED <<old, thr>>
        BY <2>4 DEF Queue, At
      <3>2. \E b \in {"insert", "start", "enable", "loop"} : pc' = [pc EXCEPT ![c] = b]
        BY <2>4 DEF Queue, Goto
      <3> QED
        BY <1>4, <3>1, <3>2
    <2> QED
      BY <1>5, <2>1, <2>2, <2>3, <2>4
  <1>6. CASE Move \/ Handler \/ Done \/ UNCHANGED vars
    BY <1>6 DEF Move, Handler, Enter, Callback, Leave, StartNext, Done, vars, localVars
  <1> QED
    BY <1>1, <1>2, <1>3, <1>5, <1>6 DEF Next, Step

------------------------------------------------------------------------------
\* The steps that only move a context on.
LEMMA LocalStep ==
  ASSUME StdoutAssumption, NullAssumption, IInv, NEW c \in Ctx, NEW b \in Label,
         pc' = [pc EXCEPT ![c] = b],
         thr' \in 0 .. 7, old' \in [Ctx -> 0 .. 7], flush' \in [Ctx -> BOOLEAN],
         UNCHANGED <<dmaVars, stdoutVars, count, histVars>>,
         pc[c] \notin {"disable", "insert"},
         b \notin {"mark", "disable", "insert", "start", "enable"},
         b \in {"count", "prepare"} => ~dip,
         b = "prepare" => q = EmptyList /\ isr.pc = "idle",
         b \in {"loop", "prepare"} => rd + InFlight + count[c] = wr
  PROVE  DataInv'
  <1>1. pc \in [Ctx -> Label] /\ pc' \in [Ctx -> Label]
    BY DEF IInv, DataInv, TypeOK
  <1>2. /\ UNCHANGED <<q, chan, flags, irqen, isr, wr, rd, buf, dip, req, count, histVars>>
        /\ Busy' = Busy /\ InFlight' = InFlight
    BY DEF dmaVars, stdoutVars, Busy, InFlight
  <1>3. TypeOK'
    BY <1>1, <1>2 DEF IInv, DataInv, TypeOK, histVars
  <1>4. q' \in {EmptyList, Queued} /\ QueuedInv' /\ HandlerInv'
    BY <1>2 DEF IInv, DataInv, QueuedInv, HandlerInv
  <1>5. EmptyInv'
    <2>1. \A d \in Ctx : pc[d] \in {"disable", "insert"} => pc'[d] \in {"disable", "insert"}
      BY <1>1
    <2> QED
      BY <1>2, <2>1 DEF IInv, DataInv, EmptyInv
  <1>6. CallerInv'
    <2>1. \A d \in Ctx \ {c} : pc'[d] = pc[d]
      BY <1>1
    <2>2. pc'[c] = b
      BY <1>1
    <2> QED
      BY <1>2, <2>1, <2>2 DEF IInv, DataInv, CallerInv
  <1>7. Accounting'
    <2>1. \A d \in Ctx \ {c} : pc'[d] = pc[d]
      BY <1>1
    <2>2. pc'[c] = b
      BY <1>1
    <2>3. ASSUME NEW d \in Ctx, d # c
          PROVE  /\ pc'[d] \in {"loop", "prepare", "disable", "insert", "start", "enable"} =>
                      rd + InFlight + count[d] = wr
                 /\ pc'[d] = "mark" => rd + req.len + count[d] = wr
      BY <2>1, <2>3 DEF IInv, DataInv, Accounting, Inside
    <2> QED
      BY <1>2, <2>2, <2>3 DEF IInv, DataInv, Accounting, Inside
  <1> QED
    BY <1>3, <1>4, <1>5, <1>6, <1>7 DEF DataInv

\* A context that runs leaves the handler at rest.
LEMMA Idle ==
  ASSUME IInv, NEW c \in Ctx, Running(c), ~dip
  PROVE  q = EmptyList /\ isr.pc = "idle" /\ InFlight = 0
  BY DEF IInv, DataInv, Running, QueuedInv, InFlight

LEMMA LocalSteps ==
  ASSUME StdoutAssumption, NullAssumption, IInv, NEW c \in Ctx,
         Call(c) \/ Raise(c) \/ Test(c) \/ Spin(c) \/ Loop(c) \/ Restore(c)
  PROVE  DataInv'
  <1>0. /\ pc \in [Ctx -> Label] /\ thr \in 0 .. 7 /\ old \in [Ctx -> 0 .. 7]
        /\ flush \in [Ctx -> BOOLEAN]
    BY DEF IInv, DataInv, TypeOK
  <1> DEFINE Unch == UNCHANGED <<dmaVars, stdoutVars, count, histVars>>
  <1>1. CASE Call(c)
    <2>1. pc[c] = "idle" /\ pc' = [pc EXCEPT ![c] = "raise"] /\ Unch /\ thr' = thr
      BY <1>1 DEF Call, At, Goto
    <2>2. old' \in [Ctx -> 0 .. 7] /\ flush' \in [Ctx -> BOOLEAN]
      BY <1>0, <1>1 DEF Call
    <2> QED
      BY <1>0, <2>1, <2>2, LocalStep DEF Label
  <1>2. CASE Raise(c)
    <2>1. pc[c] = "raise" /\ pc' = [pc EXCEPT ![c] = "put"] /\ Unch /\ thr' = 1
          /\ old' = old /\ flush' = flush
      BY <1>2 DEF Raise, At, Goto
    <2>2. thr' \in 0 .. 7 /\ old' \in [Ctx -> 0 .. 7] /\ flush' \in [Ctx -> BOOLEAN]
      BY <1>0, <2>1
    <2> QED
      BY <2>1, <2>2, LocalStep DEF Label
  <1>3. CASE Test(c)
    <2>1. pc[c] = "test" /\ Unch /\ thr' = thr /\ old' = old /\ flush' = flush
      BY <1>3 DEF Test, At
    <2>2. PICK b \in {"count", "spin", "restore"} :
            pc' = [pc EXCEPT ![c] = b] /\ (b = "count" => ~dip)
      BY <1>3 DEF Test, Goto
    <2> QED
      BY <1>0, <2>1, <2>2, LocalStep DEF Label
  <1>4. CASE Spin(c)
    <2>1. pc[c] = "spin" /\ pc' = [pc EXCEPT ![c] = "count"] /\ Unch /\ thr' = thr
          /\ old' = old /\ flush' = flush /\ ~dip
      BY <1>4 DEF Spin, At, Goto
    <2> QED
      BY <1>0, <2>1, LocalStep DEF Label
  <1>5. CASE Loop(c)
    <2>1. pc[c] = "loop" /\ Unch /\ thr' = thr /\ old' = old /\ flush' = flush
          /\ Running(c)
      BY <1>5 DEF Loop, At
    <2>2. PICK b \in {"restore", "prepare"} :
            pc' = [pc EXCEPT ![c] = b] /\ (b = "prepare" => ~dip)
      BY <1>5 DEF Loop, Goto
    <2>3. b = "prepare" => q = EmptyList /\ isr.pc = "idle"
      BY <2>1, <2>2, Idle
    <2>4. rd + InFlight + count[c] = wr
      BY <2>1 DEF IInv, DataInv, Accounting, Inside
    <2> QED
      BY <1>0, <2>1, <2>2, <2>3, <2>4, LocalStep DEF Label
  <1>6. CASE Restore(c)
    <2>1. pc[c] = "restore" /\ pc' = [pc EXCEPT ![c] = "idle"] /\ Unch
          /\ thr' = old[c] /\ old' = old /\ flush' = flush
      BY <1>6 DEF Restore, At, Goto
    <2>2. thr' \in 0 .. 7
      BY <1>0, <2>1
    <2> QED
      BY <1>0, <2>1, <2>2, LocalStep DEF Label
  <1> QED
    BY <1>1, <1>2, <1>3, <1>4, <1>5, <1>6

\* The steps that take a context from one place inside to the next.
LEMMA OthersWait ==
  ASSUME StdoutAssumption, IInv, NEW c \in Inside, NEW b, pc' = [pc EXCEPT ![c] = b]
  PROVE  /\ c \in Ctx /\ pc'[c] = b
         /\ \A d \in Ctx \ {c} : pc'[d] = pc[d] /\ pc[d] \in {"idle", "raise"}
  <1>1. c \in Ctx /\ pc \in [Ctx -> Label] /\ InsideInv
    BY DEF IInv, DataInv, TypeOK, Inside
  <1>2. \A d \in Ctx \ {c} : pc[d] \in {"idle", "raise"}
    BY <1>1, Alone
  <1> QED
    BY <1>1, <1>2

LEMMA PutStep ==
  ASSUME StdoutAssumption, NullAssumption, IInv, NEW c \in Ctx, Put(c)
  PROVE  DataInv'
  <1>1. /\ pc[c] = "put" /\ c \in Inside /\ pc' = [pc EXCEPT ![c] = "test"]
        /\ UNCHANGED <<q, chan, flags, irqen, isr, rd, dip, req, thr, old, flush, count>>
        /\ wr' = wr + 1 /\ wr \in Nat
    BY DEF Put, At, Goto, Inside, dmaVars, IInv, DataInv, TypeOK
  <1>2. pc'[c] = "test" /\ \A d \in Ctx \ {c} : pc'[d] = pc[d] /\ pc[d] \in {"idle", "raise"}
    BY <1>1, OthersWait
  <1>3. TypeOK'
    <2>1. buf' \in [0 .. BufSize - 1 -> Nat \union {-1}]
      BY <1>1 DEF Put, IInv, DataInv, TypeOK
    <2>2. seen' \subseteq {"overwritten", "outside", "wrong"} /\ lineEnd' \in Nat
      BY <1>1 DEF Put, IInv, DataInv, TypeOK
    <2>3. pc' \in [Ctx -> Label] /\ wr' \in Nat
      BY <1>1 DEF IInv, DataInv, TypeOK, Label
    <2> QED
      BY <1>1, <2>1, <2>2, <2>3 DEF IInv, DataInv, TypeOK
  <1>4. Busy' = Busy /\ InFlight' = InFlight
    BY <1>1 DEF Busy, InFlight
  <1>5. q' \in {EmptyList, Queued} /\ QueuedInv' /\ HandlerInv'
    BY <1>1, <1>4 DEF IInv, DataInv, QueuedInv, HandlerInv
  <1>6. EmptyInv'
    <2>1. ~ \E d \in Ctx : pc[d] \in {"disable", "insert"}
      BY <1>1, <1>2
    <2> QED
      BY <1>1, <1>4, <2>1 DEF IInv, DataInv, EmptyInv
  <1>7. CallerInv'
    BY <1>1, <1>2 DEF CallerInv
  <1>8. Accounting'
    <2>1. rd + InFlight <= wr + 1
      <3>1. InFlight \in Nat /\ rd \in Nat /\ rd + InFlight <= wr
        BY DEF IInv, DataInv, Accounting, TypeOK, InFlight
      <3> QED
        BY <1>1, <3>1
    <2> QED
      BY <1>1, <1>2, <1>4, <2>1 DEF Accounting, Inside
  <1> QED
    BY <1>3, <1>5, <1>6, <1>7, <1>8 DEF DataInv

LEMMA CountStep ==
  ASSUME StdoutAssumption, NullAssumption, IInv, NEW c \in Ctx, Count(c)
  PROVE  DataInv'
  <1>1. /\ pc[c] = "count" /\ c \in Inside /\ Running(c)
        /\ UNCHANGED <<q, chan, flags, irqen, isr, wr, rd, buf, dip, req, thr, old,
                       flush, seen, lineEnd>>
        /\ count' = [count EXCEPT ![c] = wr - rd]
    BY DEF Count, At, Inside, dmaVars, stdoutVars, histVars
  <1>2. PICK b \in {"loop", "restore"} : pc' = [pc EXCEPT ![c] = b]
    BY DEF Count, Goto
  <1>3. pc'[c] = b /\ \A d \in Ctx \ {c} : pc'[d] = pc[d] /\ pc[d] \in {"idle", "raise"}
    BY <1>1, <1>2, OthersWait
  <1>4. ~dip /\ InFlight = 0
    BY <1>1 DEF IInv, DataInv, CallerInv, InFlight
  <1>5. wr \in Nat /\ rd \in Nat /\ wr - rd \in Nat
    <2>1. wr \in Nat /\ rd \in Nat /\ rd + InFlight <= wr
      BY DEF IInv, DataInv, TypeOK, Accounting
    <2> QED
      BY <1>4, <2>1
  <1>6. TypeOK'
    <2>1. count' \in [Ctx -> Nat] /\ count'[c] = wr - rd
      BY <1>1, <1>5 DEF IInv, DataInv, TypeOK
    <2>2. pc' \in [Ctx -> Label]
      BY <1>2 DEF IInv, DataInv, TypeOK, Label
    <2> QED
      BY <1>1, <2>1, <2>2 DEF IInv, DataInv, TypeOK
  <1>7. Busy' = Busy /\ InFlight' = 0
    BY <1>1, <1>4 DEF Busy, InFlight
  <1>8. q' \in {EmptyList, Queued} /\ QueuedInv' /\ HandlerInv'
    BY <1>1, <1>7 DEF IInv, DataInv, QueuedInv, HandlerInv
  <1>9. EmptyInv'
    BY <1>1, <1>4, <1>7 DEF IInv, DataInv, EmptyInv
  <1>10. CallerInv'
    BY <1>1, <1>3, <1>4 DEF CallerInv
  <1>11. Accounting'
    <2>1. count'[c] = wr - rd
      BY <1>1 DEF IInv, DataInv, TypeOK
    <2>2. rd + 0 <= wr /\ rd + 0 + (wr - rd) = wr
      BY <1>5
    <2> QED
      BY <1>1, <1>3, <1>7, <2>1, <2>2 DEF Accounting, Inside
  <1> QED
    BY <1>6, <1>8, <1>9, <1>10, <1>11 DEF DataInv

\* The next chunk is taken from the count, and is not yet in flight.
LEMMA PrepareStep ==
  ASSUME StdoutAssumption, NullAssumption, IInv, NEW c \in Ctx, Prepare(c)
  PROVE  DataInv'
  <1> DEFINE n == count[c]
             k == ChunkLen(n)
  <1>1. /\ pc[c] = "prepare" /\ c \in Inside /\ pc' = [pc EXCEPT ![c] = "mark"]
        /\ UNCHANGED <<q, chan, flags, irqen, isr, wr, rd, buf, dip, thr, old, flush,
                       seen, lineEnd>>
        /\ count' = [count EXCEPT ![c] = n - k]
        /\ req' = [addr |-> Slot(rd), len |-> k]
    BY DEF Prepare, At, Goto, Inside, dmaVars, histVars
  <1>2. pc'[c] = "mark" /\ \A d \in Ctx \ {c} : pc'[d] = pc[d] /\ pc[d] \in {"idle", "raise"}
    BY <1>1, OthersWait
  <1>3. /\ ~dip /\ InFlight = 0 /\ q = EmptyList /\ isr.pc = "idle"
        /\ rd + InFlight + n = wr
    BY <1>1 DEF IInv, DataInv, CallerInv, InFlight, Accounting
  <1>4. wr \in Nat /\ rd \in Nat /\ n \in Nat
    BY DEF IInv, DataInv, TypeOK
  <1>5. k \in Nat /\ n - k \in Nat
    <2>1. k \in Nat /\ k <= n
      BY <1>4, ChunkRange
    <2> QED
      BY <1>4, <2>1
  <1>6. Slot(rd) \in 0 .. BufSize - 1
    BY <1>4, SlotRange
  <1> HIDE DEF n, k
  <1>7. count'[c] = n - k /\ count' \in [Ctx -> Nat] /\ req'.len = k
    BY <1>1, <1>5 DEF IInv, DataInv, TypeOK
  <1>8. TypeOK'
    <2>1. pc' \in [Ctx -> Label]
      BY <1>1 DEF IInv, DataInv, TypeOK, Label
    <2>2. req' \in [addr : 0 .. BufSize - 1, len : Nat]
      BY <1>1, <1>5, <1>6
    <2> QED
      BY <1>1, <1>7, <2>1, <2>2 DEF IInv, DataInv, TypeOK
  <1>9. Busy' = Busy /\ InFlight' = 0
    BY <1>1, <1>3 DEF Busy, InFlight
  <1>10. q' \in {EmptyList, Queued} /\ QueuedInv' /\ HandlerInv' /\ EmptyInv'
    BY <1>1, <1>3, <1>9 DEF IInv, DataInv, QueuedInv, HandlerInv, EmptyInv
  <1>11. CallerInv'
    BY <1>1, <1>2, <1>3 DEF CallerInv
  <1>12. Accounting'
    <2>1. rd + 0 <= wr /\ rd + k + (n - k) = wr
      BY <1>3, <1>4, <1>5
    <2> QED
      BY <1>1, <1>2, <1>7, <1>9, <2>1 DEF Accounting, Inside
  <1> QED
    BY <1>8, <1>10, <1>11, <1>12 DEF DataInv

LEMMA MarkStep ==
  ASSUME StdoutAssumption, NullAssumption, IInv, NEW c \in Ctx, Mark(c)
  PROVE  DataInv'
  <1>1. /\ pc[c] = "mark" /\ c \in Inside /\ pc' = [pc EXCEPT ![c] = "disable"]
        /\ UNCHANGED <<q, chan, flags, irqen, isr, wr, rd, buf, req, thr, old, flush,
                       count, seen, lineEnd>>
        /\ dip' = TRUE
    BY DEF Mark, At, Goto, Inside, dmaVars, histVars
  <1>2. pc'[c] = "disable" /\ \A d \in Ctx \ {c} : pc'[d] = pc[d] /\ pc[d] \in {"idle", "raise"}
    BY <1>1, OthersWait
  <1>3. /\ q = EmptyList /\ isr.pc = "idle" /\ ~Busy /\ q # Queued
        /\ rd + req.len + count[c] = wr
    BY <1>1, QueueOps DEF IInv, DataInv, CallerInv, EmptyInv, Accounting
  <1>4. wr \in Nat /\ rd \in Nat /\ req.len \in Nat /\ count[c] \in Nat
    BY DEF IInv, DataInv, TypeOK
  <1>5. TypeOK'
    <2>1. pc' \in [Ctx -> Label]
      BY <1>1 DEF IInv, DataInv, TypeOK, Label
    <2> QED
      BY <1>1, <2>1 DEF IInv, DataInv, TypeOK
  <1>6. Busy' = Busy /\ InFlight' = req.len
    BY <1>1 DEF Busy, InFlight
  <1>7. q' \in {EmptyList, Queued} /\ QueuedInv' /\ HandlerInv'
    BY <1>1, <1>3, <1>6 DEF IInv, DataInv, QueuedInv, HandlerInv
  <1>8. EmptyInv'
    BY <1>1, <1>2, <1>3, <1>6 DEF EmptyInv
  <1>9. CallerInv'
    BY <1>1, <1>2, <1>3, <1>6 DEF CallerInv
  <1>10. Accounting'
    <2>1. rd + req.len <= wr
      BY <1>3, <1>4
    <2> QED
      BY <1>1, <1>2, <1>3, <1>6, <2>1 DEF Accounting, Inside
  <1> QED
    BY <1>5, <1>7, <1>8, <1>9, <1>10 DEF DataInv

\* dma_queue_xfer_request, step by step.
LEMMA DisableStep ==
  ASSUME StdoutAssumption, NullAssumption, IInv, NEW c \in Ctx,
         At(c, "disable"), DisableIrq, Goto(c, "insert"),
         UNCHANGED <<stdoutVars, thr, old, flush, count, histVars>>
  PROVE  DataInv'
  <1>1. /\ pc[c] = "disable" /\ c \in Inside /\ pc' = [pc EXCEPT ![c] = "insert"]
        /\ UNCHANGED <<q, chan, flags, isr, wr, rd, buf, dip, req, thr, old, flush,
                       count, seen, lineEnd>>
        /\ irqen' = FALSE
    BY DEF At, Goto, Inside, stdoutVars, histVars, DisableIrq
  <1>2. pc'[c] = "insert" /\ \A d \in Ctx \ {c} : pc'[d] = pc[d] /\ pc[d] \in {"idle", "raise"}
    BY <1>1, OthersWait
  <1>3. /\ q = EmptyList /\ isr.pc = "idle" /\ ~Busy /\ dip
        /\ rd + InFlight + count[c] = wr
    BY <1>1 DEF IInv, DataInv, CallerInv, Accounting
  <1>4. TypeOK'
    <2>1. pc' \in [Ctx -> Label]
      BY <1>1 DEF IInv, DataInv, TypeOK, Label
    <2> QED
      BY <1>1, <2>1 DEF IInv, DataInv, TypeOK
  <1>5. Busy' = Busy /\ InFlight' = InFlight
    BY <1>1 DEF Busy, InFlight
  <1>6. q' \in {EmptyList, Queued} /\ QueuedInv' /\ HandlerInv'
    BY <1>1, <1>5 DEF IInv, DataInv, QueuedInv, HandlerInv
  <1>7. EmptyInv' /\ CallerInv'
    BY <1>1, <1>2, <1>3, <1>5 DEF EmptyInv, CallerInv
  <1>8. Accounting'
    <2>1. rd + InFlight <= wr
      BY DEF IInv, DataInv, Accounting
    <2> QED
      BY <1>1, <1>2, <1>3, <1>5, <2>1 DEF Accounting, Inside
  <1> QED
    BY <1>4, <1>6, <1>7, <1>8 DEF DataInv

LEMMA InsertStep ==
  ASSUME StdoutAssumption, NullAssumption, IInv, NEW c \in Ctx,
         At(c, "insert"), InsertRequest(dma_req), Goto(c, "start"),
         UNCHANGED <<stdoutVars, thr, old, flush, count, histVars>>
  PROVE  DataInv'
  <1>1. /\ pc[c] = "insert" /\ c \in Inside /\ pc' = [pc EXCEPT ![c] = "start"]
        /\ UNCHANGED <<chan, flags, irqen, isr, wr, rd, buf, dip, req, thr, old, flush,
                       count, seen, lineEnd>>
        /\ q' = InsertNodeAfter(q, NULL, dma_req)
    BY DEF At, Goto, Inside, stdoutVars, histVars, InsertRequest
  <1>2. pc'[c] = "start" /\ \A d \in Ctx \ {c} : pc'[d] = pc[d] /\ pc[d] \in {"idle", "raise"}
    BY <1>1, OthersWait
  <1>3. /\ q = EmptyList /\ isr.pc = "idle" /\ ~Busy /\ dip /\ ~irqen
        /\ rd + InFlight + count[c] = wr
    BY <1>1 DEF IInv, DataInv, CallerInv, Accounting
  <1>4. q' = Queued /\ q' # EmptyList /\ q' \in List
    BY <1>1, <1>3, QueueOps
  <1>5. TypeOK'
    <2>1. pc' \in [Ctx -> Label]
      BY <1>1 DEF IInv, DataInv, TypeOK, Label
    <2> QED
      BY <1>1, <1>4, <2>1 DEF IInv, DataInv, TypeOK
  <1>6. Busy' = Busy /\ InFlight' = InFlight
    BY <1>1 DEF Busy, InFlight
  <1>7. QueuedInv' /\ HandlerInv' /\ EmptyInv' /\ CallerInv'
    BY <1>1, <1>2, <1>3, <1>4, <1>6
    DEF IInv, DataInv, QueuedInv, HandlerInv, EmptyInv, CallerInv
  <1>8. Accounting'
    <2>1. rd + InFlight <= wr
      BY DEF IInv, DataInv, Accounting
    <2> QED
      BY <1>1, <1>2, <1>3, <1>6, <2>1 DEF Accounting, Inside
  <1> QED
    BY <1>4, <1>5, <1>7, <1>8 DEF DataInv

LEMMA StartStep ==
  ASSUME StdoutAssumption, NullAssumption, IInv, NEW c \in Ctx,
         At(c, "start"), StartIfHead(dma_req, fields), Goto(c, "enable"),
         UNCHANGED <<stdoutVars, thr, old, flush, count, histVars>>
  PROVE  DataInv'
  <1>1. /\ pc[c] = "start" /\ c \in Inside /\ pc' = [pc EXCEPT ![c] = "enable"]
        /\ UNCHANGED <<q, irqen, isr, wr, rd, buf, dip, req, thr, old, flush,
                       count, seen, lineEnd>>
    BY DEF At, Goto, Inside, stdoutVars, histVars, StartIfHead
  <1>2. pc'[c] = "enable" /\ \A d \in Ctx \ {c} : pc'[d] = pc[d] /\ pc[d] \in {"idle", "raise"}
    BY <1>1, OthersWait
  <1>3. /\ q = Queued /\ isr.pc = "idle" /\ dip /\ ~irqen
        /\ rd + InFlight + count[c] = wr
    BY <1>1 DEF IInv, DataInv, CallerInv, Accounting
  <1>4. q # EmptyList /\ q.head = dma_req
    BY <1>3, QueueOps
  <1>5. /\ flags' = {}
        /\ chan' = [en |-> TRUE, base |-> req.addr, done |-> 0, cntr |-> req.len]
    BY <1>4 DEF StartIfHead, Program, fields, StdoutAssumption
  <1>6. TypeOK'
    <2>1. pc' \in [Ctx -> Label]
      BY <1>1 DEF IInv, DataInv, TypeOK, Label
    <2>2. req.addr \in Nat /\ req.len \in Nat
      BY DEF IInv, DataInv, TypeOK
    <2>3. chan' \in [en : BOOLEAN, base : Nat \union {NULL}, done : Nat, cntr : Nat]
      BY <1>5, <2>2
    <2> QED
      BY <1>1, <1>5, <2>1, <2>3 DEF IInv, DataInv, TypeOK
  <1>7. InFlight' = InFlight
    BY <1>1 DEF InFlight
  <1>8. q' \in {EmptyList, Queued} /\ QueuedInv' /\ HandlerInv' /\ EmptyInv' /\ CallerInv'
    BY <1>1, <1>2, <1>3, <1>4, <1>5
    DEF IInv, DataInv, QueuedInv, HandlerInv, EmptyInv, CallerInv
  <1>9. Accounting'
    <2>1. rd + InFlight <= wr
      BY DEF IInv, DataInv, Accounting
    <2> QED
      BY <1>1, <1>2, <1>3, <1>7, <2>1 DEF Accounting, Inside
  <1> QED
    BY <1>6, <1>8, <1>9 DEF DataInv

LEMMA EnableStep ==
  ASSUME StdoutAssumption, NullAssumption, IInv, NEW c \in Ctx,
         At(c, "enable"), EnableIrq, Goto(c, "loop"),
         UNCHANGED <<stdoutVars, thr, old, flush, count, histVars>>
  PROVE  DataInv'
  <1>1. /\ pc[c] = "enable" /\ c \in Inside /\ pc' = [pc EXCEPT ![c] = "loop"]
        /\ UNCHANGED <<q, chan, flags, isr, wr, rd, buf, dip, req, thr, old, flush,
                       count, seen, lineEnd>>
        /\ irqen' = TRUE
    BY DEF At, Goto, Inside, stdoutVars, histVars, EnableIrq
  <1>2. pc'[c] = "loop" /\ \A d \in Ctx \ {c} : pc'[d] = pc[d] /\ pc[d] \in {"idle", "raise"}
    BY <1>1, OthersWait
  <1>3. q = Queued /\ q # EmptyList /\ rd + InFlight + count[c] = wr
    BY <1>1, QueueOps DEF IInv, DataInv, CallerInv, Accounting
  <1>4. TypeOK'
    <2>1. pc' \in [Ctx -> Label]
      BY <1>1 DEF IInv, DataInv, TypeOK, Label
    <2> QED
      BY <1>1, <2>1 DEF IInv, DataInv, TypeOK
  <1>5. Busy' = Busy /\ InFlight' = InFlight
    BY <1>1 DEF Busy, InFlight
  <1>6. q' \in {EmptyList, Queued} /\ QueuedInv' /\ HandlerInv' /\ EmptyInv' /\ CallerInv'
    BY <1>1, <1>2, <1>3, <1>5
    DEF IInv, DataInv, QueuedInv, HandlerInv, EmptyInv, CallerInv
  <1>7. Accounting'
    <2>1. rd + InFlight <= wr
      BY DEF IInv, DataInv, Accounting
    <2> QED
      BY <1>1, <1>2, <1>3, <1>5, <2>1 DEF Accounting, Inside
  <1> QED
    BY <1>4, <1>6, <1>7 DEF DataInv

------------------------------------------------------------------------------
\* The channel and its handler move no context.
LEMMA MoveStep ==
  ASSUME StdoutAssumption, NullAssumption, IInv, Move
  PROVE  DataInv'
  <1>1. /\ UNCHANGED <<q, irqen, isr, wr, rd, buf, dip, req, thr, pc, old, flush,
                       count, lineEnd>>
        /\ chan.en /\ chan.cntr > 0 /\ Busy
        /\ chan' = [chan EXCEPT !.done = chan.done + 1, !.cntr = chan.cntr - 1]
        /\ flags' = IF chan.cntr = 1 THEN flags \union {"TC"} ELSE flags
    BY DEF Move, Beat, Busy, stdoutVars, localVars
  <1>2. chan \in [en : BOOLEAN, base : Nat \union {NULL}, done : Nat, cntr : Nat]
    BY DEF IInv, DataInv, TypeOK
  <1>3. flags = {} /\ q # EmptyList /\ q = Queued /\ isr.pc = "idle"
    BY <1>1 DEF IInv, DataInv, HandlerInv, EmptyInv
  <1>4. chan.cntr - 1 \in Nat /\ chan.done + 1 \in Nat
    BY <1>1, <1>2
  <1>5. chan' = [en |-> chan.en, base |-> chan.base, done |-> chan.done + 1,
                 cntr |-> chan.cntr - 1]
    BY <1>1, <1>2
  <1>6. /\ chan' \in [en : BOOLEAN, base : Nat \union {NULL}, done : Nat, cntr : Nat]
        /\ chan'.cntr = chan.cntr - 1
    <2>1. chan.en \in BOOLEAN /\ chan.base \in Nat \union {NULL}
      BY <1>2
    <2> QED
      BY <1>4, <1>5, <2>1
  <1>7. flags' \subseteq {"TC", "TE"} /\ (flags' # {} => ~(chan'.en /\ chan'.cntr > 0))
    BY <1>1, <1>2, <1>3, <1>6
  <1>8. TypeOK'
    <2>1. seen' \subseteq {"overwritten", "outside", "wrong"}
      BY DEF Move, IInv, DataInv, TypeOK
    <2> QED
      BY <1>1, <1>6, <1>7, <2>1 DEF IInv, DataInv, TypeOK
  <1>9. InFlight' = InFlight
    BY <1>1 DEF InFlight
  <1>10. q' \in {EmptyList, Queued} /\ QueuedInv' /\ HandlerInv' /\ EmptyInv'
    BY <1>1, <1>3, <1>7 DEF IInv, DataInv, QueuedInv, HandlerInv, EmptyInv
  <1>11. CallerInv'
    <2>1. \A c \in Ctx : pc[c] \notin {"disable", "insert", "start"}
      BY <1>1 DEF IInv, DataInv, CallerInv
    <2> QED
      BY <1>1, <2>1 DEF IInv, DataInv, CallerInv
  <1>12. Accounting'
    BY <1>1, <1>9 DEF IInv, DataInv, Accounting, Inside
  <1> QED
    BY <1>8, <1>10, <1>11, <1>12 DEF DataInv

LEMMA EnterStep ==
  ASSUME StdoutAssumption, NullAssumption, IInv, Enter
  PROVE  DataInv'
  <1>1. /\ UNCHANGED <<q, chan, irqen, wr, rd, buf, dip, req, thr, pc, old, flush,
                       count, seen, lineEnd>>
        /\ isr.pc = "idle" /\ irqen /\ flags # {} /\ flags' = {} /\ Busy
        /\ ~(chan.en /\ chan.cntr > 0)
    BY DEF Enter, IsrEnter, IsrPending, stdoutVars, localVars, histVars, Busy,
           IInv, DataInv, HandlerInv
  <1>2. q = Queued /\ q # EmptyList /\ q.head = dma_req /\ dma_req # NULL /\ dip
    BY <1>1, QueueOps DEF IInv, DataInv, EmptyInv, QueuedInv
  <1>3. isr' = [pc |-> "cb", req |-> dma_req]
    BY <1>2 DEF Enter, IsrEnter, StdoutAssumption
  <1>4. TypeOK'
    <2>1. isr' \in [pc : {"idle", "cb", "remove", "next"}, req : Ptr]
      BY <1>3 DEF Ptr, StdoutAssumption
    <2> QED
      BY <1>1, <2>1 DEF IInv, DataInv, TypeOK
  <1>5. ~Busy' /\ InFlight' = InFlight
    BY <1>1 DEF Busy, InFlight
  <1>6. q' \in {EmptyList, Queued} /\ QueuedInv' /\ HandlerInv' /\ EmptyInv'
    BY <1>1, <1>2, <1>3, <1>5 DEF IInv, DataInv, QueuedInv, HandlerInv, EmptyInv
  <1>7. CallerInv'
    <2>1. \A c \in Ctx : pc[c] \notin {"prepare", "mark", "disable", "insert", "start", "enable"}
      BY <1>1, <1>2 DEF IInv, DataInv, CallerInv
    <2> QED
      BY <1>1, <2>1 DEF IInv, DataInv, CallerInv
  <1>8. Accounting'
    BY <1>1, <1>5 DEF IInv, DataInv, Accounting, Inside
  <1> QED
    BY <1>4, <1>6, <1>7, <1>8 DEF DataInv

\* dma_cb moves the transfer from in flight to sent.
LEMMA CallbackStep ==
  ASSUME StdoutAssumption, NullAssumption, IInv, Callback
  PROVE  DataInv'
  <1>1. /\ UNCHANGED <<q, chan, flags, irqen, wr, buf, req, thr, pc, old, flush,
                       count, seen, lineEnd>>
        /\ isr.pc = "cb" /\ isr' = [isr EXCEPT !.pc = "remove"]
        /\ dip /\ dip' = FALSE /\ rd' = rd + req.len
    BY DEF Callback, CallbackReturn, localVars, histVars
  <1>2. /\ isr'.pc = "remove" /\ isr'.req = dma_req
        /\ isr' \in [pc : {"idle", "cb", "remove", "next"}, req : Ptr]
    BY <1>1 DEF IInv, DataInv, TypeOK, HandlerInv
  <1>3. q = Queued /\ q # EmptyList /\ ~Busy
    BY <1>1, QueueOps DEF IInv, DataInv, EmptyInv, HandlerInv
  <1>4. rd \in Nat /\ req.len \in Nat /\ wr \in Nat
    BY DEF IInv, DataInv, TypeOK
  <1>5. TypeOK'
    <2>1. rd' \in Nat
      BY <1>1, <1>4
    <2>2. dip' \in BOOLEAN
      BY <1>1
    <2> QED
      BY <1>1, <1>2, <2>1, <2>2 DEF IInv, DataInv, TypeOK
  <1>6. Busy' = Busy /\ InFlight = req.len /\ InFlight' = 0
    BY <1>1 DEF Busy, InFlight
  <1>7. q' \in {EmptyList, Queued} /\ QueuedInv' /\ HandlerInv' /\ EmptyInv'
    BY <1>1, <1>2, <1>3, <1>6 DEF IInv, DataInv, QueuedInv, HandlerInv, EmptyInv
  <1>8. \A c \in Ctx : pc[c] \notin {"prepare", "mark", "disable", "insert", "start", "enable"}
    BY <1>1 DEF IInv, DataInv, CallerInv
  <1>9. CallerInv'
    BY <1>1, <1>8 DEF CallerInv
  <1>10. Accounting'
    <2>1. rd' + 0 = rd + InFlight /\ rd' + 0 <= wr
      BY <1>1, <1>4, <1>6 DEF IInv, DataInv, Accounting
    <2> QED
      BY <1>1, <1>6, <1>8, <2>1 DEF IInv, DataInv, Accounting, Inside
  <1> QED
    BY <1>5, <1>7, <1>9, <1>10 DEF DataInv

LEMMA LeaveStep ==
  ASSUME StdoutAssumption, NullAssumption, IInv, Leave
  PROVE  DataInv'
  <1>1. /\ UNCHANGED <<chan, flags, irqen, wr, rd, buf, dip, req, thr, pc, old, flush,
                       count, seen, lineEnd>>
        /\ isr.pc = "remove" /\ isr' = [isr EXCEPT !.pc = "next"]
        /\ q' = RemoveNode(q, isr.req)
    BY DEF Leave, IsrRemove, stdoutVars, localVars, histVars
  <1>2. q = Queued /\ isr.req = dma_req /\ ~dip /\ ~Busy
    BY <1>1 DEF IInv, DataInv, EmptyInv, QueuedInv, HandlerInv
  <1>3. q' = EmptyList /\ q' # Queued /\ q' \in List
    BY <1>1, <1>2, QueueOps
  <1>4. isr'.pc = "next" /\ isr' \in [pc : {"idle", "cb", "remove", "next"}, req : Ptr]
    BY <1>1 DEF IInv, DataInv, TypeOK
  <1>5. TypeOK'
    BY <1>1, <1>3, <1>4 DEF IInv, DataInv, TypeOK
  <1>6. Busy' = Busy /\ InFlight' = InFlight
    BY <1>1 DEF Busy, InFlight
  <1>7. QueuedInv' /\ HandlerInv' /\ EmptyInv'
    BY <1>1, <1>2, <1>3, <1>4, <1>6 DEF IInv, DataInv, QueuedInv, HandlerInv, EmptyInv
  <1>8. CallerInv'
    <2>1. \A c \in Ctx : pc[c] \notin {"prepare", "mark", "disable", "insert", "start", "enable"}
      BY <1>1 DEF IInv, DataInv, CallerInv
    <2> QED
      BY <1>1, <2>1 DEF IInv, DataInv, CallerInv
  <1>9. Accounting'
    BY <1>1, <1>6 DEF IInv, DataInv, Accounting, Inside
  <1> QED
    BY <1>3, <1>5, <1>7, <1>8, <1>9 DEF DataInv

LEMMA StartNextStep ==
  ASSUME StdoutAssumption, NullAssumption, IInv, StartNext
  PROVE  DataInv'
  <1>1. isr.pc = "next" /\ q = EmptyList /\ ~Busy /\ q.head = NULL /\ ~dip
    <2>1. isr.pc = "next" /\ q = EmptyList /\ ~Busy
      BY DEF StartNext, IsrNext, IInv, DataInv, QueuedInv, EmptyInv
    <2>2. ~dip
      BY <2>1 DEF IInv, DataInv, EmptyInv, CallerInv
    <2> QED
      BY <2>1, <2>2, QueueOps
  <1>2. /\ UNCHANGED <<q, chan, flags, irqen, wr, rd, buf, dip, req, thr, pc, old, flush,
                       count, seen, lineEnd>>
        /\ isr' = IdleIsr
    BY <1>1 DEF StartNext, IsrNext, stdoutVars, localVars, histVars
  <1>3. isr'.pc = "idle" /\ isr' \in [pc : {"idle", "cb", "remove", "next"}, req : Ptr]
    BY <1>2 DEF IdleIsr, Ptr
  <1>4. TypeOK'
    BY <1>2, <1>3 DEF IInv, DataInv, TypeOK
  <1>5. Busy' = Busy /\ InFlight' = InFlight /\ q # Queued
    BY <1>1, <1>2, QueueOps DEF Busy, InFlight
  <1>6. q' \in {EmptyList, Queued} /\ QueuedInv' /\ HandlerInv' /\ EmptyInv'
    BY <1>1, <1>2, <1>3, <1>5 DEF IInv, DataInv, QueuedInv, HandlerInv, EmptyInv
  <1>7. CallerInv'
    BY <1>1, <1>2, <1>3, <1>5 DEF IInv, DataInv, CallerInv
  <1>8. Accounting'
    BY <1>2, <1>5 DEF IInv, DataInv, Accounting, Inside
  <1> QED
    BY <1>4, <1>6, <1>7, <1>8 DEF DataInv

------------------------------------------------------------------------------
LEMMA InitInv == StdoutAssumption /\ Init => IInv
  <1> SUFFICES ASSUME StdoutAssumption, Init PROVE IInv
    OBVIOUS
  <1>1. q = EmptyList /\ q # Queued /\ q \in List
    BY QueueOps, NullAssumption DEF Init, DmaInit
  <1>2. ~Busy /\ isr = IdleIsr /\ isr.pc = "idle" /\ Inside = {} /\ InFlight = 0 /\ ~dip
    BY DEF Init, DmaInit, Busy, IdleIsr, Inside, InFlight
  <1>3. TypeOK
    <2>1. /\ chan \in [en : BOOLEAN, base : Nat \union {NULL}, done : Nat, cntr : Nat]
          /\ isr \in [pc : {"idle", "cb", "remove", "next"}, req : Ptr]
      BY <1>2 DEF Init, DmaInit, IdleIsr, Ptr
    <2>2. flags \subseteq {"TC", "TE"} /\ irqen \in BOOLEAN /\ dip \in BOOLEAN
      BY DEF Init, DmaInit
    <2>3. /\ wr \in Nat /\ rd \in Nat /\ thr \in 0 .. 7 /\ lineEnd \in Nat
          /\ seen \subseteq {"overwritten", "outside", "wrong"}
      BY DEF Init
    <2>4. buf \in [0 .. BufSize - 1 -> Nat \union {-1}]
      BY DEF Init
    <2>5. req \in [addr : 0 .. BufSize - 1, len : Nat]
      BY DEF Init, StdoutAssumption
    <2>6. pc \in [Ctx -> Label]
      BY DEF Init, Label
    <2>7. old \in [Ctx -> 0 .. 7] /\ count \in [Ctx -> Nat]
      BY DEF Init
    <2>8. flush \in [Ctx -> BOOLEAN]
      BY DEF Init
    <2> QED
      BY <1>1, <2>1, <2>2, <2>3, <2>4, <2>5, <2>6, <2>7, <2>8 DEF TypeOK
  <1>4. InsideInv
    BY InsideInit
  <1>5. EmptyInv /\ QueuedInv /\ HandlerInv
    BY <1>1, <1>2 DEF EmptyInv, QueuedInv, HandlerInv, Init, DmaInit
  <1>6. CallerInv /\ Accounting
    BY <1>2 DEF CallerInv, Accounting, Init
  <1> QED
    BY <1>1, <1>3, <1>4, <1>5, <1>6 DEF IInv, DataInv

LEMMA NextInv ==
  ASSUME StdoutAssumption, NullAssumption, IInv, [Next]_vars
  PROVE  IInv'
  <1>1. InsideInv'
    BY InsideStep DEF IInv, DataInv
  <1>2. ASSUME NEW c \in Ctx, Call(c) \/ Step(c) PROVE DataInv'
    <2>1. CASE Queue(c)
      BY <2>1, DisableStep, InsertStep, StartStep, EnableStep DEF Queue
    <2> QED
      BY <1>2, <2>1, LocalSteps, PutStep, CountStep, PrepareStep, MarkStep DEF Step
  <1>3. ASSUME UNCHANGED vars PROVE DataInv'
    <2>1. UNCHANGED <<q, chan, flags, irqen, isr, wr, rd, buf, dip, req, thr, pc, old,
                      flush, count, seen, lineEnd>>
      BY <1>3 DEF vars, dmaVars, stdoutVars, localVars, histVars
    <2>2. Busy' = Busy /\ InFlight' = InFlight /\ Inside' = Inside
      BY <2>1 DEF Busy, InFlight, Inside
    <2>3. TypeOK'
      BY <2>1 DEF IInv, DataInv, TypeOK
    <2>4. q' \in {EmptyList, Queued} /\ EmptyInv' /\ QueuedInv' /\ HandlerInv'
      BY <2>1, <2>2 DEF IInv, DataInv, EmptyInv, QueuedInv, HandlerInv
    <2>5. CallerInv' /\ Accounting'
      BY <2>1, <2>2 DEF IInv, DataInv, CallerInv, Accounting
    <2> QED
      BY <2>3, <2>4, <2>5 DEF DataInv
  <1>4. DataInv'
    <2>1. CASE Move \/ Handler
      BY <2>1, MoveStep, EnterStep, CallbackStep, LeaveStep, StartNextStep DEF Handler
    <2>2. CASE Done
      BY <2>2, <1>3 DEF Done
    <2> QED
      BY <1>2, <1>3, <2>1, <2>2 DEF Next
  <1> QED
    BY <1>1, <1>4 DEF IInv

\* The invariant carries the properties that the model checker checks.
LEMMA InvImplies ==
  ASSUME StdoutAssumption, NullAssumption, IInv
  PROVE  TypeOK /\ OneInPutchar /\ NoTrap /\ Accounting /\ RequestFree
  <1>1. OneInPutchar
    <2>1. ASSUME NEW c \in Inside, NEW d \in Inside, c # d PROVE FALSE
      BY <2>1, Alone DEF IInv, Inside
    <2> QED
      BY <2>1 DEF OneInPutchar, IInv, InsideInv
  <1>2. NoTrap
    <2>1. isr.pc = "cb" => q = Queued
      BY DEF IInv, DataInv, EmptyInv
    <2> QED
      BY <2>1 DEF NoTrap, IInv, DataInv, QueuedInv
  <1>3. RequestFree
    BY QueueOps DEF RequestFree, IInv, DataInv, CallerInv, EmptyInv
  <1> QED
    BY <1>1, <1>2, <1>3 DEF IInv, DataInv

LEMMA Invariance == Spec => []IInv
  <1>1. Init => IInv
    BY InitInv, StdoutAssumption
  <1>2. IInv /\ [Next]_vars => IInv'
    BY NextInv, StdoutAssumption, NullAssumption
  <1> QED
    BY <1>1, <1>2, PTL DEF Spec

\* However the printing contexts interrupt one another, at most one is between
\* the two calls that change the threshold, and the last one out lowers it.
THEOREM PutcharExclusive == Spec => []OneInPutchar
  <1>1. IInv => OneInPutchar
    BY InvImplies, StdoutAssumption, NullAssumption
  <1> QED
    BY <1>1, Invariance, PTL

\* The completion callback never meets its trap.
THEOREM CallbackNeverTraps == Spec => []NoTrap
  <1>1. IInv => NoTrap
    BY InvImplies, StdoutAssumption, NullAssumption
  <1> QED
    BY <1>1, Invariance, PTL

\* Every character printed is sent, in flight or counted by the drain loop.
THEOREM CharactersAccountedFor == Spec => [](TypeOK /\ Accounting)
  <1>1. IInv => TypeOK /\ Accounting
    BY InvImplies, StdoutAssumption, NullAssumption
  <1> QED
    BY <1>1, Invariance, PTL

\* The request is rewritten only when neither queue nor channel has it.
THEOREM RequestNeverShared == Spec => []RequestFree
  <1>1. IInv => RequestFree
    BY InvImplies, StdoutAssumption, NullAssumption
  <1> QED
    BY <1>1, Invariance, PTL

\* Buffer indices, counts and thresholds stay in their ranges.
THEOREM StdoutTyped == Spec => []TypeOK
  BY CharactersAccountedFor, PTL

------------------------------------------------------------------------------
(***************************************************************************)
(* What the channel sends.                                                 *)
(***************************************************************************)
LEMMA Remainder ==
  ASSUME NEW n \in Nat \ {0}, NEW a \in Nat
  PROVE  a = n * (a \div n) + (a % n) /\ a % n \in 0 .. n - 1 /\ a \div n \in Nat
  OBVIOUS

LEMMA RemainderUnique ==
  ASSUME NEW n \in Nat \ {0}, NEW a \in Nat, NEW d \in Nat, NEW r \in 0 .. n - 1,
         a = n * d + r
  PROVE  a % n = r
  <1> DEFINE e == a \div n
             s == a % n
  <1>1. a = n * e + s /\ s \in 0 .. n - 1 /\ e \in Nat
    BY Remainder
  <1> HIDE DEF e, s
  <1>2. n * (d - e) = s - r /\ d - e \in Int
    BY <1>1
  <1>3. /\ \A k \in Int : k >= 1 => n * k >= n
        /\ \A k \in Int : k <= -1 => n * k <= -n
    OBVIOUS
  <1>4. d - e = 0
    BY <1>1, <1>2, <1>3
  <1>5. s = r
    BY <1>1, <1>2, <1>4
  <1> QED
    BY <1>5 DEF s

\* The slots run on with the positions until the ring wraps.
LEMMA SlotsRunOn ==
  ASSUME StdoutAssumption, NEW i \in Nat, NEW k \in Nat, Slot(i) + k < BufSize
  PROVE  Slot(i + k) = Slot(i) + k
  <1> DEFINE d == i \div BufSize
             r == i % BufSize
  <1>1. BufSize \in Nat \ {0}
    BY DEF StdoutAssumption
  <1>2. i = BufSize * d + r /\ r \in Nat /\ d \in Nat
    BY <1>1, Remainder
  <1>3. r + k \in 0 .. BufSize - 1
    BY <1>1, <1>2 DEF Slot
  <1> HIDE DEF d, r
  <1>4. i + k = BufSize * d + (r + k) /\ i + k \in Nat
    BY <1>1, <1>2
  <1>5. (i + k) % BufSize = r + k
    BY <1>1, <1>2, <1>3, <1>4, RemainderUnique
  <1> QED
    BY <1>5 DEF Slot, r

\* Two positions less than a ring apart have different slots.
LEMMA SlotsApart ==
  ASSUME StdoutAssumption, NEW i \in Nat, NEW j \in Nat, i < j, j - i < BufSize
  PROVE  Slot(i) # Slot(j)
  <1> DEFINE d == i \div BufSize
             e == j \div BufSize
             r == i % BufSize
  <1>1. BufSize \in Nat \ {0}
    BY DEF StdoutAssumption
  <1>2. /\ i = BufSize * d + r /\ d \in Nat /\ r \in Nat
        /\ j = BufSize * e + (j % BufSize) /\ e \in Nat
    BY <1>1, Remainder
  <1> SUFFICES ASSUME j % BufSize = r PROVE FALSE
    BY DEF Slot
  <1> HIDE DEF d, e, r
  <1>3. BufSize * (e - d) = j - i /\ e - d \in Int
    BY <1>1, <1>2
  <1>4. /\ \A k \in Int : k >= 1 => BufSize * k >= BufSize
        /\ \A k \in Int : k <= 0 => BufSize * k <= 0
    BY <1>1
  <1> QED
    BY <1>1, <1>3, <1>4

\* The steps that touch neither the ring, the request nor the channel.
LEMMA StreamKept ==
  ASSUME StreamInv, UNCHANGED <<chan, wr, rd, buf, dip, req, seen>>,
         \A c \in Ctx : pc'[c] = "mark" => pc[c] = "mark"
  PROVE  StreamInv'
  BY DEF StreamInv, WrongOnlyByOverrun

\* A character is put where none that waits is lost, unless the ring is full.
LEMMA StreamPut ==
  ASSUME StdoutAssumption, IInv, StreamInv, NEW c \in Ctx, Put(c)
  PROVE  StreamInv'
  <1>1. /\ pc' = [pc EXCEPT ![c] = "test"]
        /\ UNCHANGED <<chan, rd, dip, req>>
        /\ buf' = [buf EXCEPT ![Slot(wr)] = wr] /\ wr' = wr + 1
        /\ seen' = IF wr - rd >= BufSize THEN seen \union {"overwritten"} ELSE seen
    BY DEF Put, Goto, dmaVars
  <1>2. /\ pc \in [Ctx -> Label] /\ wr \in Nat /\ rd \in Nat
        /\ buf \in [0 .. BufSize - 1 -> Nat \union {-1}] /\ BufSize \in Nat
    BY DEF IInv, DataInv, TypeOK, StdoutAssumption
  <1>3. \A d \in Ctx : pc'[d] = "mark" => pc[d] = "mark"
    BY <1>1, <1>2
  <1>4. ASSUME "overwritten" \notin seen'
        PROVE  wr' - rd <= BufSize /\ \A i \in rd .. wr' - 1 : buf'[Slot(i)] = i
    <2>1. "overwritten" \notin seen /\ wr - rd < BufSize
      BY <1>1, <1>2, <1>4
    <2>2. ASSUME NEW i \in rd .. wr' - 1 PROVE buf'[Slot(i)] = i
      <3>0. i \in Nat
        BY <1>1, <1>2
      <3>1. i \in Nat /\ Slot(i) \in 0 .. BufSize - 1 /\ Slot(wr) \in 0 .. BufSize - 1
        BY <1>2, <3>0, SlotRange
      <3>2. CASE i = wr
        BY <1>1, <1>2, <3>1, <3>2
      <3>3. CASE i # wr
        <4>1. i \in rd .. wr - 1 /\ i < wr /\ wr - i < BufSize
          BY <1>1, <1>2, <2>1, <3>3
        <4>2. Slot(i) # Slot(wr)
          BY <1>2, <3>1, <4>1, SlotsApart
        <4>3. buf[Slot(i)] = i
          BY <2>1, <4>1 DEF StreamInv
        <4> QED
          BY <1>1, <1>2, <3>1, <4>2, <4>3
      <3> QED
        BY <3>2, <3>3
    <2>3. wr' - rd <= BufSize
      BY <1>1, <1>2, <2>1
    <2> QED
      BY <2>2, <2>3
  <1>5. WrongOnlyByOverrun'
    BY <1>1 DEF StreamInv, WrongOnlyByOverrun
  <1> QED
    BY <1>1, <1>3, <1>4, <1>5 DEF StreamInv

LEMMA StreamPrepare ==
  ASSUME StdoutAssumption, IInv, StreamInv, NEW c \in Ctx, Prepare(c)
  PROVE  StreamInv'
  <1>1. /\ UNCHANGED <<chan, wr, rd, buf, dip, seen>>
        /\ req'.addr = Slot(rd) /\ pc[c] = "prepare"
    BY DEF Prepare, At, dmaVars, histVars
  <1>2. ~Busy
    BY <1>1 DEF IInv, DataInv, CallerInv, EmptyInv
  <1> QED
    BY <1>1, <1>2 DEF StreamInv, WrongOnlyByOverrun, Slot, Busy

LEMMA StreamMark ==
  ASSUME StreamInv, NEW c \in Ctx, Mark(c)
  PROVE  StreamInv'
  <1>1. UNCHANGED <<chan, wr, rd, buf, req, seen>> /\ pc[c] = "mark"
    BY DEF Mark, At, dmaVars, histVars
  <1> QED
    BY <1>1 DEF StreamInv, WrongOnlyByOverrun, Slot

LEMMA StreamStart ==
  ASSUME StdoutAssumption, NullAssumption, IInv, StreamInv, NEW c \in Ctx,
         At(c, "start"), StartIfHead(dma_req, fields), Goto(c, "enable"),
         UNCHANGED <<stdoutVars, thr, old, flush, count, histVars>>
  PROVE  StreamInv'
  <1>1. UNCHANGED <<wr, rd, buf, dip, req, seen>> /\ pc' = [pc EXCEPT ![c] = "enable"]
        /\ pc[c] = "start"
    BY DEF stdoutVars, histVars, Goto, At
  <1>2. q.head = dma_req
    BY <1>1, QueueOps DEF IInv, DataInv, CallerInv
  <1>3. chan' = [en |-> TRUE, base |-> req.addr, done |-> 0, cntr |-> req.len]
    BY <1>2 DEF StartIfHead, Program, fields, StdoutAssumption
  <1>4. chan'.base = req.addr /\ chan'.done + chan'.cntr = req.len
    <2>1. req.len \in Nat
      BY DEF IInv, DataInv, TypeOK
    <2>2. chan'.base = req.addr /\ chan'.done = 0 /\ chan'.cntr = req.len
      BY <1>3
    <2> QED
      BY <2>1, <2>2
  <1>5. pc \in [Ctx -> Label]
    BY DEF IInv, DataInv, TypeOK
  <1>6. \A d \in Ctx : pc'[d] = "mark" => pc[d] = "mark"
    BY <1>1, <1>5
  <1> QED
    BY <1>1, <1>4, <1>6 DEF StreamInv, WrongOnlyByOverrun, Slot

\* The byte moved is the next of the stream: it lies in the transfer, the
\* transfer in what the ring holds.
LEMMA StreamMove ==
  ASSUME StdoutAssumption, IInv, StreamInv, Move
  PROVE  StreamInv'
  <1> DEFINE at == chan.base + chan.done
  <1>1. /\ UNCHANGED <<wr, rd, buf, dip, req, pc>>
        /\ chan.en /\ chan.cntr > 0
        /\ chan' = [chan EXCEPT !.done = chan.done + 1, !.cntr = chan.cntr - 1]
        /\ seen' = seen
             \union (IF at >= BufSize THEN {"outside"} ELSE {})
             \union (IF at < BufSize /\ buf[at] = rd + chan.done THEN {} ELSE {"wrong"})
    BY DEF Move, Beat, stdoutVars, localVars
  <1>2. /\ chan \in [en : BOOLEAN, base : Nat \union {NULL}, done : Nat, cntr : Nat]
        /\ wr \in Nat /\ rd \in Nat /\ BufSize \in Nat
        /\ req \in [addr : 0 .. BufSize - 1, len : Nat]
    BY DEF IInv, DataInv, TypeOK, StdoutAssumption
  <1>3. /\ chan.done \in Nat /\ chan.cntr \in Nat /\ req.len \in Nat
        /\ chan'.base = chan.base /\ chan'.done = chan.done + 1
        /\ chan'.cntr = chan.cntr - 1
    BY <1>1, <1>2
  <1>4. chan.base = req.addr /\ chan.done + chan.cntr = req.len
    BY <1>1 DEF StreamInv
  <1>5. chan'.base = req.addr /\ chan'.done + chan'.cntr = req.len
    BY <1>3, <1>4
  <1>6. dip /\ rd + req.len <= wr
    <2>1. q = Queued /\ isr.pc # "remove"
      BY <1>1 DEF IInv, DataInv, EmptyInv, HandlerInv, Busy
    <2>2. dip
      BY <2>1 DEF IInv, DataInv, QueuedInv
    <2> QED
      BY <2>2 DEF IInv, DataInv, Accounting, InFlight
  <1>7. chan.base = Slot(rd) /\ Slot(rd) \in Nat
    BY <1>2, <1>4, <1>6, SlotRange DEF StreamInv
  <1>8. ASSUME "overwritten" \notin seen, at < BufSize
        PROVE  buf[at] = rd + chan.done
    <2>1. Slot(rd + chan.done) = at
      BY <1>2, <1>3, <1>7, <1>8, SlotsRunOn
    <2>2. rd + chan.done \in rd .. wr - 1
      BY <1>1, <1>2, <1>3, <1>4, <1>6
    <2> QED
      BY <1>8, <2>1, <2>2 DEF StreamInv
  <1>9. WrongOnlyByOverrun'
    <2>1. at < BufSize \/ at >= BufSize
      BY <1>2, <1>3, <1>7
    <2> HIDE DEF at
    <2>2. CASE "overwritten" \in seen \/ at >= BufSize
      BY <1>1, <2>2 DEF WrongOnlyByOverrun
    <2>3. CASE "overwritten" \notin seen /\ at < BufSize
      <3>1. seen' \subseteq seen \union {"outside"} /\ seen \subseteq seen'
        BY <1>1, <1>8, <2>3
      <3> QED
        BY <3>1 DEF StreamInv, WrongOnlyByOverrun
    <2> QED
      BY <2>1, <2>2, <2>3
  <1>10. "overwritten" \notin seen' => "overwritten" \notin seen
    BY <1>1
  <1> HIDE DEF at
  <1> QED
    BY <1>1, <1>5, <1>9, <1>10 DEF StreamInv, Slot

\* What has been sent is taken off the ring.
LEMMA StreamCallback ==
  ASSUME IInv, StreamInv, Callback
  PROVE  StreamInv'
  <1>1. /\ UNCHANGED <<chan, wr, buf, req, pc, seen>>
        /\ isr.pc = "cb" /\ dip' = FALSE /\ rd' = rd + req.len
    BY DEF Callback, CallbackReturn, localVars, histVars
  <1>2. \A c \in Ctx : pc[c] # "mark"
    BY <1>1 DEF IInv, DataInv, CallerInv
  <1>3. rd \in Nat /\ req.len \in Nat /\ wr \in Nat
    BY DEF IInv, DataInv, TypeOK
  <1>4. ASSUME "overwritten" \notin seen'
        PROVE  wr - rd' <= BufSize /\ \A i \in rd' .. wr - 1 : buf[Slot(i)] = i
    <2>1. wr - rd <= BufSize /\ \A i \in rd .. wr - 1 : buf[Slot(i)] = i
      BY <1>1, <1>4 DEF StreamInv
    <2>2. rd' .. wr - 1 \subseteq rd .. wr - 1 /\ wr - rd' <= wr - rd
      BY <1>1, <1>3
    <2>3. BufSize \in Nat
      BY StdoutAssumption DEF StdoutAssumption
    <2> QED
      BY <1>1, <1>3, <2>1, <2>2, <2>3
  <1> QED
    BY <1>1, <1>2, <1>4 DEF StreamInv, WrongOnlyByOverrun, Slot

LEMMA StreamInit == StdoutAssumption /\ Init => StreamInv
  BY DEF Init, DmaInit, StreamInv, WrongOnlyByOverrun, StdoutAssumption

LEMMA StreamStep ==
  ASSUME StdoutAssumption, NullAssumption, IInv, StreamInv, [Next]_vars
  PROVE  StreamInv'
  <1>0. pc \in [Ctx -> Label]
    BY DEF IInv, DataInv, TypeOK
  <1>1. ASSUME NEW c \in Ctx, NEW b, b # "mark", pc' = [pc EXCEPT ![c] = b],
               UNCHANGED <<chan, wr, rd, buf, dip, req, seen>>
        PROVE  StreamInv'
    BY <1>0, <1>1, StreamKept
  <1>2. ASSUME NEW c \in Ctx,
               Call(c) \/ Raise(c) \/ Test(c) \/ Spin(c) \/ Count(c) \/ Loop(c) \/ Restore(c)
        PROVE  StreamInv'
    <2>1. UNCHANGED <<chan, wr, rd, buf, dip, req, seen>>
      BY <1>2 DEF Call, Raise, Test, Spin, Count, Loop, Restore, dmaVars, stdoutVars,
                  histVars
    <2>2. PICK b \in Label \ {"mark"} : pc' = [pc EXCEPT ![c] = b]
      BY <1>2 DEF Call, Raise, Test, Spin, Count, Loop, Restore, Goto, Label
    <2> QED
      BY <1>1, <2>1, <2>2
  <1>3. ASSUME NEW c \in Ctx, Queue(c) PROVE StreamInv'
    <2>1. CASE At(c, "start") /\ StartIfHead(dma_req, fields) /\ Goto(c, "enable")
      BY <1>3, <2>1, StreamStart DEF Queue
    <2>2. CASE \/ At(c, "disable") /\ DisableIrq /\ Goto(c, "insert")
               \/ At(c, "insert") /\ InsertRequest(dma_req) /\ Goto(c, "start")
               \/ At(c, "enable") /\ EnableIrq /\ Goto(c, "loop")
      <3>1. UNCHANGED <<chan, wr, rd, buf, dip, req, seen>>
        BY <1>3, <2>2 DEF Queue, DisableIrq, InsertRequest, EnableIrq, stdoutVars, histVars
      <3>2. PICK b \in Label \ {"mark"} : pc' = [pc EXCEPT ![c] = b]
        BY <2>2 DEF Goto, Label
      <3> QED
        BY <1>1, <3>1, <3>2
    <2> QED
      BY <1>3, <2>1, <2>2 DEF Queue
  <1>4. CASE Handler
    <2>1. CASE Enter \/ Leave
      BY <2>1, StreamKept DEF Enter, IsrEnter, Leave, IsrRemove, stdoutVars, localVars,
                              histVars
    <2>2. CASE StartNext
      <3>1. isr.pc = "next" /\ q.head = NULL
        BY <2>2, QueueOps DEF StartNext, IsrNext, IInv, DataInv, QueuedInv
      <3> QED
        BY <2>2, <3>1, StreamKept DEF StartNext, IsrNext, stdoutVars, localVars, histVars
    <2> QED
      BY <1>4, <2>1, <2>2, StreamCallback DEF Handler
  <1>5. CASE Done \/ UNCHANGED vars
    BY <1>5, StreamKept DEF Done, vars, dmaVars, stdoutVars, localVars, histVars
  <1> QED
    BY <1>2, <1>3, <1>4, <1>5, StreamPut, StreamPrepare, StreamMark, StreamMove
    DEF Next, Step

\* A byte that is not the next of the stream leaves only when the ring has been
\* overrun or the channel runs past the end of op_buffer, however printing,
\* transfers and interrupts fall: indices, chunks and slots are right.
THEOREM WrongBytesExplained == Spec => []WrongOnlyByOverrun
  <1>1. Init => StreamInv
    BY StreamInit, StdoutAssumption
  <1>2. IInv /\ StreamInv /\ [Next]_vars => StreamInv'
    BY StreamStep, StdoutAssumption, NullAssumption
  <1>3. StreamInv => WrongOnlyByOverrun
    BY DEF StreamInv
  <1> QED
    BY <1>1, <1>2, <1>3, Invariance, PTL DEF Spec
==============================================================================
