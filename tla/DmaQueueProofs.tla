--------------------------- MODULE DmaQueueProofs ---------------------------
(***************************************************************************)
(* The DMA driver for any number of requests of any length, failing or     *)
(* not, and for every callback that leaves its own request alone.          *)
(***************************************************************************)
EXTENDS DmaQueue, SequenceTheorems, TLAPS

\* The queue of the driver as a list that its callers keep (list_mgr.c).
Ring == INSTANCE ListClientProofs
          WITH list <- q, order <- fifo, todo <- << >>, Arrays <- {}

LEMMA RingTerms ==
  ASSUME NEW l, NEW s, NEW r, NEW n
  PROVE  /\ Ring!List = List
         /\ Ring!Range(s) = Range(s)
         /\ Ring!Represents(l, s) <=> Represents(l, s)
         /\ Ring!InsertNodeAfter(l, r, n) = InsertNodeAfter(l, r, n)
         /\ Ring!RemoveNode(l, n) = RemoveNode(l, n)
  <1>1. Ring!List = List
    BY DEF Ring!List, List, Ring!Ptr, Ptr
  <1>2. Ring!Range(s) = Range(s)
    BY DEF Ring!Range, Range
  <1>3. Ring!IsInjective(s) <=> IsInjective(s)
    BY DEF Ring!IsInjective, IsInjective
  <1>4. Ring!Represents(l, s) <=> Represents(l, s)
    BY <1>3 DEF Ring!Represents, Represents
  <1>5. Ring!InsertNodeAfter(l, r, n) = InsertNodeAfter(l, r, n)
    BY DEF Ring!InsertNodeAfter, InsertNodeAfter, Ring!CreateList, CreateList
  <1>6. Ring!RemoveNode(l, n) = RemoveNode(l, n)
    BY DEF Ring!RemoveNode, RemoveNode, Ring!InitNode, InitNode
  <1> QED
    BY <1>1, <1>2, <1>4, <1>5, <1>6

\* The head pointer of the queue against the sequence it represents.
LEMMA QueueHead ==
  ASSUME QueueInOrder, TypeOK
  PROVE  /\ fifo = << >> => q.head = NULL
         /\ fifo # << >> => /\ q.head = Head(fifo) /\ q.head = fifo[1]
                            /\ q.head \in Node /\ q.head # NULL
                            /\ Head(fifo) \in Range(fifo)
                            /\ Len(fifo) \in Nat \ {0}
         /\ IsInjective(fifo)
  <1>1. q \in List /\ fifo \in Seq(Node) /\ Represents(q, fifo)
    BY DEF TypeOK, QueueInOrder
  <1>2. ASSUME fifo # << >>
        PROVE  /\ q.head = Head(fifo) /\ q.head = fifo[1]
               /\ q.head \in Node /\ Head(fifo) \in Range(fifo)
               /\ Len(fifo) \in Nat \ {0}
    <2>1. 1 \in DOMAIN fifo /\ Len(fifo) \in Nat \ {0}
      BY <1>1, <1>2, EmptySeq, LenProperties
    <2>2. fifo[1] \in Node /\ Head(fifo) = fifo[1]
      BY <1>1, <2>1, LenProperties, ElementOfSeq
    <2> QED
      BY <1>1, <1>2, <2>1, <2>2 DEF Represents, Range
  <1> QED
    BY <1>1, <1>2, NullAssumption DEF Represents

LEMMA InitInv == Init => IInv
  <1> SUFFICES ASSUME Init PROVE IInv
    OBVIOUS
  <1> USE DEF Init, DmaInit
  <1>1. Range(fifo) = {} /\ Len(fifo) = 0 /\ IsInjective(fifo)
    BY DEF Range, IsInjective
  <1>2. q \in List /\ Represents(q, fifo)
    BY <1>1 DEF EmptyList, List, Ptr, Represents
  <1>3. /\ chan \in [en : BOOLEAN, base : Ptr, done : Nat, cntr : Nat]
        /\ isr \in [pc : {"idle", "cb", "remove", "next"}, req : Ptr]
        /\ ~Busy
    BY DEF IdleIsr, Ptr, Busy
  <1>4. TypeOK
    <2>1. fifo \in Seq(Node) /\ flags \subseteq {"TC", "TE"}
      OBVIOUS
    <2>4. irqen \in BOOLEAN
      OBVIOUS
    <2>2. pc \in [Ctx -> {"idle", "disable", "insert", "start", "enable"}]
      OBVIOUS
    <2>3. arg \in [Ctx -> Ptr]
      BY DEF Ptr
    <2> QED
      BY <1>2, <1>3, <2>1, <2>2, <2>3, <2>4 DEF TypeOK
  <1> QED
    BY <1>1, <1>2, <1>3, <1>4
    DEF IInv, QueueInOrder, ChannelServesHead, NeverStranded, HandlerInv,
        MaskInv, ArgInv, StartInv, IdleIsr, Ctx

------------------------------------------------------------------------------
\* The steps of the calls and of the callback that leave the queue alone.
LEMMA CallInv ==
  ASSUME IInv, NoSelfRequeue, DmaQueueAssumption, NEW c \in Ctx, Call(c)
  PROVE  IInv'
  <1> USE DEF IInv, Call, Go, Running
  <1>1. /\ UNCHANGED <<q, chan, flags, irqen, isr, fifo>>
        /\ pc[c] = "idle" /\ pc' = [pc EXCEPT ![c] = "disable"]
        /\ arg[c] \in Ptr /\ arg' = [arg EXCEPT ![c] = arg'[c]]
        /\ arg'[c] \in MayQueue(c)
    BY DEF dmaVars, TypeOK
  <1>2. arg'[c] \in Node \ Range(fifo)
    <2>1. CASE c = "main"
      BY <1>1, <2>1 DEF MayQueue, Taken
    <2>2. CASE c # "main"
      <3>1. isr.pc = "cb" /\ isr.req \in WithCb /\ CbQueues[isr.req] \subseteq Node
        BY <2>2, DmaQueueAssumption DEF HandlerInv
      <3>2. isr.req \notin CbQueues[isr.req]
        BY <3>1, NoSelfRequeue DEF NoSelfRequeue
      <3> QED
        BY <1>1, <2>2, <3>1, <3>2 DEF MayQueue, Taken
    <2> QED
      BY <2>1, <2>2
  <1>3. \A d \in Ctx \ {c} : pc[d] \in {"disable", "insert"} => arg'[c] # arg[d]
    <2> SUFFICES ASSUME NEW d \in Ctx \ {c}, pc[d] \in {"disable", "insert"}
                 PROVE  arg'[c] # arg[d]
      OBVIOUS
    <2>1. arg[d] \in Taken
      BY DEF Taken
    <2>2. CASE c = "main"
      BY <1>1, <2>1, <2>2 DEF MayQueue
    <2>3. CASE c # "main"
      <3>1. isr.pc = "cb" /\ isr.req \in WithCb
        BY <2>3 DEF HandlerInv
      <3>2. isr.req \notin CbQueues[isr.req]
        BY <3>1, NoSelfRequeue DEF NoSelfRequeue
      <3> QED
        BY <1>1, <2>1, <2>3, <3>2 DEF MayQueue
    <2> QED
      BY <2>2, <2>3
  <1>4. TypeOK'
    BY <1>1, <1>2 DEF TypeOK, Ptr
  <1>5. QueueInOrder' /\ ChannelServesHead' /\ Busy' = Busy
    BY <1>1 DEF QueueInOrder, ChannelServesHead, Busy
  <1>6. NeverStranded'
    BY <1>1, <1>5 DEF NeverStranded, TypeOK, Ctx
  <1>7. HandlerInv' /\ MaskInv' /\ StartInv'
    BY <1>1, <1>5 DEF HandlerInv, MaskInv, StartInv, TypeOK, Ctx
  <1>8. ArgInv'
    <2>1. \A d \in Ctx : pc'[d] \in {"disable", "insert"} => arg'[d] \in Node \ Range(fifo)
      BY <1>1, <1>2 DEF ArgInv, TypeOK
    <2>2. (\A d \in Ctx : pc'[d] \in {"disable", "insert"}) => arg'["main"] # arg'["cb"]
      BY <1>1, <1>3 DEF TypeOK, Ctx
    <2>3. \A d \in Ctx : pc'[d] = "start" => fifo # << >> /\ arg'[d] = fifo[Len(fifo)]
      BY <1>1 DEF ArgInv, TypeOK
    <2> QED
      BY <1>1, <2>1, <2>2, <2>3 DEF ArgInv
  <1> QED
    BY <1>4, <1>5, <1>6, <1>7, <1>8

LEMMA DisableInv ==
  ASSUME IInv, NEW c \in Ctx, Disable(c)
  PROVE  IInv'
  <1> USE DEF IInv, Disable, DisableIrq, Go, Running
  <1>1. /\ UNCHANGED <<q, chan, flags, isr, arg, fifo>> /\ irqen' = FALSE
        /\ pc[c] = "disable" /\ pc' = [pc EXCEPT ![c] = "insert"]
        /\ pc'[c] = "insert"
    BY DEF TypeOK
  <1>2. TypeOK' /\ Busy' = Busy
    BY <1>1 DEF TypeOK, Busy
  <1>3. QueueInOrder' /\ ChannelServesHead'
    BY <1>1, <1>2 DEF QueueInOrder, ChannelServesHead
  <1>4. NeverStranded'
    <2>1. \E d \in Ctx : pc'[d] = "insert"
      BY <1>1
    <2>2. pc["main"] = "start" => pc'["main"] = "start"
      BY <1>1 DEF TypeOK, Ctx
    <2> QED
      BY <1>1, <1>2, <2>1, <2>2 DEF NeverStranded
  <1>5. HandlerInv' /\ StartInv'
    BY <1>1, <1>2 DEF HandlerInv, StartInv, TypeOK, Ctx
  <1>6. MaskInv'
    BY <1>1 DEF MaskInv, TypeOK, Ctx
  <1>7. ArgInv'
    <2>1. \A d \in Ctx : pc'[d] \in {"disable", "insert"} => pc[d] \in {"disable", "insert"}
      BY <1>1 DEF TypeOK
    <2>2. \A d \in Ctx : pc'[d] = "start" => pc[d] = "start"
      BY <1>1 DEF TypeOK
    <2> QED
      BY <1>1, <2>1, <2>2 DEF ArgInv
  <1> QED
    BY <1>2, <1>3, <1>4, <1>5, <1>6, <1>7

LEMMA EnableInv ==
  ASSUME IInv, NEW c \in Ctx, Enable(c)
  PROVE  IInv'
  <1> USE DEF IInv, Enable, EnableIrq, Go, Running
  <1>1. /\ UNCHANGED <<q, chan, flags, isr, fifo>> /\ irqen' = TRUE
        /\ pc[c] = "enable" /\ pc' = [pc EXCEPT ![c] = "idle"]
        /\ arg' = [arg EXCEPT ![c] = NULL]
    OBVIOUS
  <1>2. TypeOK' /\ Busy' = Busy
    BY <1>1 DEF TypeOK, Busy, Ptr
  <1>3. QueueInOrder' /\ ChannelServesHead'
    BY <1>1, <1>2 DEF QueueInOrder, ChannelServesHead
  <1>4. NeverStranded'
    <2>1. pc["main"] = "start" => pc'["main"] = "start"
      BY <1>1 DEF TypeOK, Ctx
    <2> QED
      BY <1>1, <1>2, <2>1 DEF NeverStranded
  <1>5. HandlerInv' /\ StartInv'
    BY <1>1, <1>2 DEF HandlerInv, StartInv, TypeOK, Ctx
  <1>6. MaskInv'
    BY <1>1 DEF MaskInv, HandlerInv, TypeOK, Ctx
  <1>7. ArgInv'
    <2>1. \A d \in Ctx : pc'[d] \in {"disable", "insert", "start"} =>
             pc[d] = pc'[d] /\ arg'[d] = arg[d]
      BY <1>1 DEF TypeOK
    <2> QED
      BY <1>1, <2>1 DEF ArgInv, Ctx
  <1> QED
    BY <1>2, <1>3, <1>4, <1>5, <1>6, <1>7

\* The one step that makes the queue longer.
LEMMA InsertInv ==
  ASSUME IInv, NEW c \in Ctx, Insert(c)
  PROVE  IInv'
  <1> USE DEF IInv, Insert, InsertRequest, Go, Running
  <1> DEFINE r == arg[c]
  <1>1. /\ UNCHANGED <<chan, flags, irqen, isr, arg>>
        /\ q' = InsertNodeAfter(q, NULL, r) /\ fifo' = Append(fifo, r)
        /\ pc[c] = "insert" /\ pc' = [pc EXCEPT ![c] = "start"]
        /\ r \in Node /\ r \notin Range(fifo)
    BY DEF ArgInv
  <1> HIDE DEF r
  <1>2. /\ q \in List /\ fifo \in Seq(Node) /\ Represents(q, fifo)
        /\ fifo = << >> => q.head = NULL
        /\ fifo # << >> => Len(fifo) \in Nat \ {0} /\ Head(fifo) \in Range(fifo)
    BY QueueHead DEF TypeOK, QueueInOrder
  <1>3. /\ q' \in List /\ Represents(q, fifo)'
        /\ Range(fifo') = Range(fifo) \union {r}
    <2>1. /\ InsertNodeAfter(q, NULL, r) \in List
          /\ Represents(InsertNodeAfter(q, NULL, r), Append(fifo, r))
          /\ Range(Append(fifo, r)) = Range(fifo) \union {r}
      <3>1. q \in Ring!List /\ Ring!Represents(q, fifo) /\ r \notin Ring!Range(fifo)
        BY <1>1, <1>2, RingTerms
      <3>2. /\ Ring!InsertNodeAfter(q, NULL, r) \in Ring!List
            /\ Ring!Represents(Ring!InsertNodeAfter(q, NULL, r), Append(fifo, r))
            /\ Ring!Range(Append(fifo, r)) = Ring!Range(fifo) \union {r}
        BY <1>1, <1>2, <3>1, NullAssumption, Ring!AppendRepresents
      <3>3. Ring!InsertNodeAfter(q, NULL, r) = InsertNodeAfter(q, NULL, r)
        BY RingTerms
      <3> QED
        BY <3>2, <3>3, RingTerms
    <2> QED
      BY <1>1, <2>1
  <1>4. /\ fifo' \in Seq(Node) /\ fifo' # << >> /\ Len(fifo') = Len(fifo) + 1
        /\ fifo'[Len(fifo')] = r
        /\ fifo # << >> => Head(fifo') = Head(fifo)
        /\ Len(fifo) \in Nat
    BY <1>1, <1>2, AppendProperties, HeadTailAppend, LenProperties
  <1>5. TypeOK' /\ QueueInOrder' /\ Busy' = Busy
    BY <1>1, <1>3, <1>4 DEF TypeOK, QueueInOrder, Busy
  <1>6. ChannelServesHead'
    BY <1>1, <1>4, <1>5 DEF ChannelServesHead
  <1>7. NeverStranded'
    <2>1. Busy \/ isr.pc # "idle" \/ pc'["main"] = "start"
      <3>1. CASE c = "main"
        BY <3>1, <1>1 DEF TypeOK, Ctx
      <3>2. CASE c # "main"
        BY <3>2 DEF Ctx
      <3> QED
        BY <3>1, <3>2
    <2>2. \E d \in Ctx : pc'[d] = "start"
      BY <1>1 DEF TypeOK
    <2> QED
      BY <1>1, <1>5, <2>1, <2>2 DEF NeverStranded
  <1>8. HandlerInv'
    <2>1. isr.pc # "idle" => fifo # << >> \/ isr.pc = "next"
      BY DEF HandlerInv, TypeOK
    <2>2. pc'["cb"] # "idle" => isr.pc = "cb"
      BY <1>1 DEF HandlerInv, TypeOK, Ctx
    <2> QED
      BY <1>1, <1>4, <1>5, <2>1, <2>2 DEF HandlerInv
  <1>9. MaskInv'
    BY <1>1 DEF MaskInv, TypeOK, Ctx
  <1>10. ArgInv'
    <2>1. \A d \in Ctx \ {c} : pc[d] \in {"disable", "insert"} => arg[d] # r
      BY <1>1 DEF ArgInv, Ctx, r
    <2>2. \A d \in Ctx : pc'[d] \in {"disable", "insert"} =>
             d # c /\ pc[d] \in {"disable", "insert"} /\ arg'[d] \in Node \ Range(fifo')
      BY <1>1, <1>3, <2>1 DEF ArgInv, TypeOK
    <2>3. \A d \in Ctx : pc'[d] = "start" => arg'[d] = fifo'[Len(fifo')]
      <3>1. \A d \in Ctx \ {c} : pc[d] # "start"
        BY <1>1 DEF HandlerInv, MaskInv, Ctx
      <3> QED
        BY <1>1, <1>4, <3>1 DEF TypeOK, r
    <2> QED
      BY <1>1, <1>4, <2>2, <2>3 DEF ArgInv
  <1>11. StartInv'
    <2>1. CASE c = "main"
      <3>1. Len(fifo') = 1 <=> fifo = << >>
        BY <1>2, <1>4
      <3>3. fifo # << >> => Busy
        BY <2>1, <1>1 DEF NeverStranded
      <3>2. pc'["cb"] # "start"
        BY <2>1, <1>1 DEF HandlerInv, MaskInv, TypeOK, Ctx
      <3> QED
        BY <1>5, <3>1, <3>2, <3>3 DEF StartInv, ChannelServesHead
    <2>2. CASE c # "main"
      <3>1. isr.pc = "cb" /\ fifo # << >>
        BY <2>2 DEF HandlerInv, Ctx
      <3>2. Len(fifo') # 1 /\ ~Busy
        BY <3>1, <1>2, <1>4 DEF HandlerInv
      <3>3. pc'["main"] # "start"
        BY <2>2, <3>1, <1>1 DEF MaskInv, TypeOK, Ctx
      <3> QED
        BY <1>5, <3>2, <3>3 DEF StartInv
    <2> QED
      BY <2>1, <2>2
  <1> QED
    BY <1>5, <1>6, <1>7, <1>8, <1>9, <1>10, <1>11

\* The channel is started by the call only when it is at rest.
LEMMA StartStep ==
  ASSUME IInv, NEW c \in Ctx, Start(c)
  PROVE  q.head = arg[c] => c = "main" /\ ~Busy /\ Len(fifo) = 1
  <1> USE DEF IInv, Start, Go, Running
  <1> SUFFICES ASSUME q.head = arg[c] PROVE c = "main" /\ ~Busy /\ Len(fifo) = 1
    OBVIOUS
  <1>1. /\ fifo # << >> /\ arg[c] = fifo[Len(fifo)] /\ q.head = fifo[1]
        /\ Len(fifo) \in Nat \ {0} /\ IsInjective(fifo)
        /\ DOMAIN fifo = 1 .. Len(fifo)
    BY QueueHead, LenProperties DEF ArgInv, TypeOK
  <1>2. 1 \in DOMAIN fifo /\ Len(fifo) \in DOMAIN fifo
    BY <1>1
  <1>3. Len(fifo) = 1
    BY <1>1, <1>2 DEF IsInjective
  <1> QED
    BY <1>3 DEF StartInv, Ctx

LEMMA StartKeepsInv ==
  ASSUME IInv, DmaQueueAssumption, NEW c \in Ctx, Start(c)
  PROVE  IInv'
  <1> USE DEF IInv, Start, StartIfHead, Go, Running
  <1> DEFINE r == arg[c]
  <1>1. /\ UNCHANGED <<q, irqen, isr, arg, fifo>>
        /\ pc[c] = "start" /\ pc' = [pc EXCEPT ![c] = "enable"]
        /\ fifo # << >> /\ r = fifo[Len(fifo)] /\ Len(fifo) \in Nat \ {0}
        /\ r \in Node
    <2>1. fifo # << >> /\ r = fifo[Len(fifo)]
      BY DEF ArgInv
    <2>2. Len(fifo) \in Nat \ {0}
      BY <2>1, QueueHead
    <2> QED
      BY <2>1, <2>2, ElementOfSeq DEF TypeOK
  <1>2. CASE q.head = r
    <2>1. c = "main" /\ ~Busy /\ Len(fifo) = 1
      BY <1>2, StartStep
    <2>2. /\ flags' = {}
          /\ chan' = [en |-> TRUE, base |-> r, done |-> 0, cntr |-> XferLen[r]]
          /\ XferLen[r] \in Nat \ {0}
      BY <1>1, <1>2, DmaQueueAssumption DEF Program, fields
    <2>3. r = Head(fifo) /\ isr.pc = "idle"
      BY <1>1, <1>2, <2>1, QueueHead
    <2> HIDE DEF r
    <2>4. TypeOK' /\ Busy'
      BY <1>1, <2>2 DEF TypeOK, Busy, Ptr
    <2>5. QueueInOrder' /\ ChannelServesHead'
      BY <1>1, <2>2, <2>3 DEF QueueInOrder, ChannelServesHead
    <2>6. pc'["main"] = "enable" /\ pc'["cb"] = "idle"
      BY <1>1, <2>1, <2>3 DEF HandlerInv, TypeOK, Ctx
    <2>7. NeverStranded' /\ HandlerInv'
      BY <1>1, <2>2, <2>3, <2>4, <2>6 DEF NeverStranded, HandlerInv, Ctx
    <2>8. MaskInv' /\ StartInv'
      BY <1>1, <2>1, <2>6 DEF MaskInv, StartInv
    <2>9. ArgInv'
      BY <2>6 DEF ArgInv, Ctx
    <2> QED
      BY <2>4, <2>5, <2>7, <2>8, <2>9
  <1>3. CASE q.head # r
    <2> HIDE DEF r
    <2>1. UNCHANGED <<chan, flags>>
      BY <1>3 DEF r
    <2>2. TypeOK' /\ QueueInOrder' /\ ChannelServesHead' /\ Busy' = Busy
      BY <1>1, <2>1 DEF TypeOK, QueueInOrder, ChannelServesHead, Busy
    <2>3. NeverStranded'
      <3>1. Busy \/ isr.pc # "idle"
        <4>1. CASE c = "main"
          <5>1. Len(fifo) # 1
            BY <1>1, <1>3, QueueHead
          <5> QED
            BY <1>1, <4>1, <5>1 DEF StartInv
        <4>2. CASE c # "main"
          BY <4>2 DEF Ctx
        <4> QED
          BY <4>1, <4>2
      <3>2. \E d \in Ctx : pc'[d] = "enable"
        BY <1>1 DEF TypeOK
      <3> QED
        BY <1>1, <2>2, <3>1, <3>2 DEF NeverStranded
    <2>4. HandlerInv' /\ MaskInv' /\ StartInv'
      BY <1>1, <2>1, <2>2 DEF HandlerInv, MaskInv, StartInv, TypeOK, Ctx
    <2>5. ArgInv'
      <3>1. \A d \in Ctx : pc'[d] \in {"disable", "insert", "start"} => pc[d] = pc'[d]
        BY <1>1 DEF TypeOK
      <3> QED
        BY <1>1, <3>1 DEF ArgInv, Ctx
    <2> QED
      BY <2>2, <2>3, <2>4, <2>5
  <1> QED
    BY <1>2, <1>3

------------------------------------------------------------------------------
\* The channel: it only works with the main loop in front of it or the
\* handler at rest, and on the head.
LEMMA ChannelInv ==
  ASSUME IInv, Channel
  PROVE  IInv'
  <1> USE DEF IInv
  <1>1. /\ UNCHANGED <<q, irqen, isr, pc, arg, fifo>>
        /\ chan.en /\ chan.cntr > 0 /\ chan.cntr \in Nat /\ chan.done \in Nat
        /\ Busy
    BY DEF Channel, Beat, BusError, TypeOK, Busy
  <1>2. isr.pc = "idle" /\ pc["cb"] = "idle" /\ flags = {}
    BY <1>1 DEF HandlerInv, TypeOK
  <1>3. /\ chan' \in [en : BOOLEAN, base : Ptr, done : Nat, cntr : Nat]
        /\ chan'.base = chan.base /\ chan'.done + chan'.cntr = chan.done + chan.cntr
        /\ flags' \subseteq {"TC", "TE"}
        /\ Busy'
        /\ flags' # {} => ~(chan'.en /\ chan'.cntr > 0)
    <2>1. CASE Beat
      <3>1. chan' = [chan EXCEPT !.done = chan.done + 1, !.cntr = chan.cntr - 1]
        BY <2>1 DEF Beat
      <3>2. flags' = IF chan.cntr = 1 THEN flags \union {"TC"} ELSE flags
        BY <2>1 DEF Beat
      <3>3. chan \in [en : BOOLEAN, base : Ptr, done : Nat, cntr : Nat]
        BY DEF TypeOK
      <3>4. /\ chan.en \in BOOLEAN /\ chan.base \in Ptr
            /\ chan.cntr - 1 \in Nat /\ chan.done + 1 \in Nat
        BY <1>1, <3>3
      <3>5. chan' = [en |-> chan.en, base |-> chan.base, done |-> chan.done + 1,
                     cntr |-> chan.cntr - 1]
        BY <3>1, <3>3
      <3>6. /\ chan' \in [en : BOOLEAN, base : Ptr, done : Nat, cntr : Nat]
            /\ chan'.base = chan.base /\ chan'.en = chan.en
            /\ chan'.cntr = chan.cntr - 1
            /\ chan'.done + chan'.cntr = chan.done + chan.cntr
        <4>1. chan' \in [en : BOOLEAN, base : Ptr, done : Nat, cntr : Nat]
          BY <3>4, <3>5
        <4>2. chan'.done = chan.done + 1 /\ chan'.cntr = chan.cntr - 1
          BY <3>5
        <4>3. chan'.base = chan.base /\ chan'.en = chan.en
          BY <3>5
        <4> QED
          BY <1>1, <4>1, <4>2, <4>3
      <3>7. flags' \subseteq {"TC", "TE"} /\ (flags' # {} <=> chan.cntr = 1)
        BY <1>2, <3>2
      <3> QED
        BY <1>1, <3>6, <3>7 DEF Busy
    <2>2. CASE BusError
      <3>1. chan' = [chan EXCEPT !.en = FALSE] /\ flags' = flags \union {"TE"}
        BY <2>2 DEF BusError
      <3>2. chan \in [en : BOOLEAN, base : Ptr, done : Nat, cntr : Nat]
        BY DEF TypeOK
      <3>3. /\ chan' \in [en : BOOLEAN, base : Ptr, done : Nat, cntr : Nat]
            /\ chan'.base = chan.base /\ chan'.en = FALSE
            /\ chan'.cntr = chan.cntr /\ chan'.done = chan.done
        <4>1. chan' = [en |-> FALSE, base |-> chan.base, done |-> chan.done,
                       cntr |-> chan.cntr]
          BY <3>1, <3>2
        <4> QED
          BY <3>2, <4>1
      <3>4. flags' = {"TE"}
        BY <1>2, <3>1
      <3> QED
        BY <3>3, <3>4 DEF Busy
    <2> QED
      BY <2>1, <2>2 DEF Channel
  <1>4. TypeOK' /\ QueueInOrder'
    BY <1>1, <1>3 DEF TypeOK, QueueInOrder
  <1>5. ChannelServesHead' /\ NeverStranded'
    BY <1>1, <1>3 DEF ChannelServesHead, NeverStranded
  <1>6. HandlerInv' /\ MaskInv' /\ StartInv'
    BY <1>1, <1>2, <1>3 DEF HandlerInv, MaskInv, StartInv
  <1>7. ArgInv'
    BY <1>1 DEF ArgInv
  <1> QED
    BY <1>4, <1>5, <1>6, <1>7

\* The handler is entered with a completed request at the head.
LEMMA EnterInv ==
  ASSUME IInv, Enter
  PROVE  IInv'
  <1> USE DEF IInv
  <1>1. /\ UNCHANGED <<q, chan, irqen, pc, arg, fifo>> /\ flags' = {}
        /\ isr.pc = "idle" /\ irqen /\ flags # {} /\ Busy
        /\ ~(chan.en /\ chan.cntr > 0)
        /\ isr' = IF q.head = NULL THEN IdleIsr
                  ELSE [pc |-> IF q.head \in WithCb THEN "cb" ELSE "remove",
                        req |-> q.head]
    BY DEF Enter, IsrEnter, IsrPending, HandlerInv, Busy
  <1>2. fifo # << >> /\ q.head = Head(fifo) /\ q.head # NULL /\ q.head \in Node
    BY <1>1, QueueHead DEF ChannelServesHead
  <1>3. /\ isr'.pc \in {"cb", "remove"} /\ isr'.req = Head(fifo)
        /\ isr'.pc = "cb" => isr'.req \in WithCb
        /\ isr' \in [pc : {"idle", "cb", "remove", "next"}, req : Ptr]
        /\ isr'.pc # "idle"
    BY <1>1, <1>2 DEF Ptr
  <1>4. TypeOK' /\ ~Busy'
    BY <1>1, <1>3 DEF TypeOK, Busy
  <1>5. QueueInOrder' /\ ChannelServesHead' /\ NeverStranded'
    BY <1>1, <1>3, <1>4 DEF QueueInOrder, ChannelServesHead, NeverStranded
  <1>6. pc["main"] \notin {"insert", "start", "enable"} /\ pc["cb"] = "idle"
    BY <1>1 DEF MaskInv, HandlerInv
  <1>7. HandlerInv' /\ MaskInv' /\ StartInv'
    BY <1>1, <1>2, <1>3, <1>4, <1>6 DEF HandlerInv, MaskInv, StartInv
  <1>8. ArgInv'
    BY <1>1 DEF ArgInv
  <1> QED
    BY <1>4, <1>5, <1>7, <1>8

LEMMA ReturnInv ==
  ASSUME IInv, Return
  PROVE  IInv'
  <1> USE DEF IInv
  <1>1. /\ UNCHANGED <<q, chan, flags, irqen, pc, arg, fifo>>
        /\ isr.pc = "cb" /\ pc["cb"] = "idle"
        /\ isr' = [isr EXCEPT !.pc = "remove"]
    BY DEF Return, CallbackReturn
  <1>2. TypeOK' /\ Busy' = Busy /\ isr'.pc = "remove" /\ isr'.req = isr.req
    BY <1>1 DEF TypeOK, Busy
  <1>3. QueueInOrder' /\ ChannelServesHead' /\ NeverStranded'
    BY <1>1, <1>2 DEF QueueInOrder, ChannelServesHead, NeverStranded
  <1>4. pc["main"] \notin {"insert", "start", "enable"}
    BY <1>1 DEF MaskInv
  <1>5. HandlerInv' /\ MaskInv' /\ StartInv'
    BY <1>1, <1>2, <1>4 DEF HandlerInv, MaskInv, StartInv
  <1>6. ArgInv'
    BY <1>1 DEF ArgInv
  <1> QED
    BY <1>2, <1>3, <1>5, <1>6

\* The one step that makes the queue shorter.
LEMMA LeaveInv ==
  ASSUME IInv, Leave
  PROVE  IInv'
  <1> USE DEF IInv
  <1>1. /\ UNCHANGED <<chan, flags, irqen, pc, arg>>
        /\ isr.pc = "remove" /\ isr' = [isr EXCEPT !.pc = "next"]
        /\ q' = RemoveNode(q, isr.req) /\ fifo' = Tail(fifo)
    BY DEF Leave, IsrRemove
  <1>2. fifo # << >> /\ isr.req = Head(fifo) /\ q \in List /\ fifo \in Seq(Node)
    BY <1>1 DEF HandlerInv, TypeOK
  <1>3. /\ q' \in List /\ Represents(q', fifo')
        /\ Range(fifo') \subseteq Range(fifo)
        /\ fifo' \in Seq(Node)
    <2>1. Represents(q, fifo)
      BY DEF QueueInOrder
    <2>2. /\ q.head = Head(fifo)
          /\ RemoveNode(q, q.head) \in List
          /\ Represents(RemoveNode(q, q.head), Tail(fifo))
          /\ Range(Tail(fifo)) \subseteq Range(fifo)
      <3>1. q \in Ring!List /\ Ring!Represents(q, fifo)
        BY <1>2, <2>1, RingTerms
      <3>2. /\ q.head = Head(fifo)
            /\ Ring!RemoveNode(q, Head(fifo)) \in Ring!List
            /\ Ring!Represents(Ring!RemoveNode(q, Head(fifo)), Tail(fifo))
            /\ Ring!Range(Tail(fifo)) = Ring!Range(fifo) \ {Head(fifo)}
        BY <1>2, <3>1, NullAssumption, Ring!RemoveHeadRepresents
      <3> QED
        BY <3>2, RingTerms
    <2>3. Tail(fifo) \in Seq(Node)
      BY <1>2, HeadTailProperties
    <2> QED
      BY <1>1, <1>2, <2>2, <2>3
  <1>4. /\ TypeOK' /\ Busy' = Busy /\ ~Busy
        /\ isr'.pc = "next" /\ isr'.req = isr.req
    BY <1>1, <1>3 DEF TypeOK, Busy, HandlerInv
  <1>5. pc["main"] \notin {"insert", "start", "enable"} /\ pc["cb"] = "idle"
    BY <1>1 DEF MaskInv, HandlerInv
  <1>6. QueueInOrder' /\ ChannelServesHead'
    BY <1>3, <1>4 DEF QueueInOrder, ChannelServesHead
  <1>7. NeverStranded'
    <2>1. irqen \/ \E c \in Ctx : pc[c] \in {"insert", "start", "enable"}
      BY <1>2 DEF NeverStranded
    <2> QED
      BY <1>1, <1>4, <2>1 DEF NeverStranded
  <1>8. HandlerInv' /\ MaskInv' /\ StartInv'
    BY <1>1, <1>4, <1>5 DEF HandlerInv, MaskInv, StartInv
  <1>9. ArgInv'
    <2>1. \A c \in Ctx : pc[c] # "start"
      BY <1>5 DEF Ctx
    <2> QED
      BY <1>1, <1>3, <2>1 DEF ArgInv
  <1> QED
    BY <1>4, <1>6, <1>7, <1>8, <1>9

\* The handler starts the next request, if there is one.
LEMMA StartNextInv ==
  ASSUME IInv, DmaQueueAssumption, StartNext
  PROVE  IInv'
  <1> USE DEF IInv
  <1>1. /\ UNCHANGED <<q, irqen, pc, arg, fifo>>
        /\ isr.pc = "next" /\ isr' = IdleIsr /\ ~Busy
        /\ IF q.head # NULL THEN Program(fields[q.head])
           ELSE UNCHANGED <<chan, flags>>
    BY DEF StartNext, IsrNext, HandlerInv
  <1>2. pc["main"] \notin {"insert", "start", "enable"} /\ pc["cb"] = "idle"
    BY <1>1 DEF MaskInv, HandlerInv
  <1>3. isr'.pc = "idle" /\ isr' \in [pc : {"idle", "cb", "remove", "next"}, req : Ptr]
    BY <1>1 DEF IdleIsr, Ptr
  <1>4. ArgInv' /\ QueueInOrder'
    BY <1>1 DEF ArgInv, QueueInOrder
  <1>5. MaskInv' /\ StartInv'
    BY <1>1, <1>2 DEF MaskInv, StartInv
  <1>6. CASE fifo = << >>
    <2>1. UNCHANGED <<chan, flags>> /\ Busy' = Busy
      BY <1>1, <1>6, QueueHead DEF Busy
    <2>2. TypeOK'
      BY <1>1, <1>3, <2>1 DEF TypeOK
    <2>3. ChannelServesHead' /\ NeverStranded' /\ HandlerInv'
      BY <1>1, <1>2, <1>3, <1>6, <2>1
      DEF ChannelServesHead, NeverStranded, HandlerInv, Busy
    <2> QED
      BY <1>4, <1>5, <2>2, <2>3
  <1>7. CASE fifo # << >>
    <2>1. q.head = Head(fifo) /\ q.head \in Node /\ q.head # NULL
      BY <1>7, QueueHead
    <2>2. /\ flags' = {}
          /\ chan' = [en |-> TRUE, base |-> Head(fifo), done |-> 0,
                      cntr |-> XferLen[Head(fifo)]]
          /\ XferLen[Head(fifo)] \in Nat \ {0}
      BY <1>1, <2>1, DmaQueueAssumption DEF Program, fields
    <2>3. TypeOK' /\ Busy'
      BY <1>1, <1>3, <2>1, <2>2 DEF TypeOK, Busy, Ptr
    <2>4. ChannelServesHead'
      BY <1>1, <1>7, <2>2 DEF ChannelServesHead
    <2>5. NeverStranded' /\ HandlerInv'
      BY <1>1, <1>2, <1>3, <2>2, <2>3 DEF NeverStranded, HandlerInv
    <2> QED
      BY <1>4, <1>5, <2>3, <2>4, <2>5
  <1> QED
    BY <1>6, <1>7

------------------------------------------------------------------------------
LEMMA NextInv ==
  ASSUME DmaQueueAssumption, NoSelfRequeue, IInv, [Next]_vars
  PROVE  IInv'
  <1>1. ASSUME NEW c \in Ctx, Call(c) \/ Queue(c) PROVE IInv'
    BY <1>1, CallInv, DisableInv, InsertInv, StartKeepsInv, EnableInv DEF Queue
  <1>2. CASE UNCHANGED vars
    BY <1>2 DEF vars, dmaVars, IInv, TypeOK, QueueInOrder, ChannelServesHead,
                NeverStranded, HandlerInv, MaskInv, ArgInv, StartInv, Busy
  <1> QED
    BY <1>1, <1>2, ChannelInv, EnterInv, ReturnInv, LeaveInv, StartNextInv DEF Next

\* A completion always finds its request at the head of the queue.
LEMMA CompletionFollows == ASSUME IInv PROVE CompletionHasRequest
  BY QueueHead DEF IInv, CompletionHasRequest, ChannelServesHead, Busy

\* For any requests and any callbacks that leave their own request alone,
\* the driver keeps its invariant in every reachable state.
LEMMA Invariance ==
  ASSUME DmaQueueAssumption, NoSelfRequeue
  PROVE  Spec => []IInv
  <1>1. Init => IInv
    BY InitInv
  <1>2. IInv /\ [Next]_vars => IInv'
    BY NextInv
  <1> QED
    BY <1>1, <1>2, PTL DEF Spec

\* The linked queue holds the requests in the order they were queued,
\* whoever queued them and whatever the handler interrupted.
THEOREM RequestsInOrder == NoSelfRequeue => (Spec => []QueueInOrder)
  <1> SUFFICES ASSUME NoSelfRequeue PROVE Spec => []QueueInOrder
    OBVIOUS
  <1>1. Spec => []IInv
    BY Invariance, DmaQueueAssumption
  <1>2. IInv => QueueInOrder
    BY DEF IInv
  <1> QED
    BY <1>1, <1>2, PTL

\* The channel works for the oldest request, and the interrupt that ends a
\* transfer finds that request.
THEOREM ChannelAtHead ==
  NoSelfRequeue => (Spec => [](ChannelServesHead /\ CompletionHasRequest))
  <1> SUFFICES ASSUME NoSelfRequeue
               PROVE  Spec => [](ChannelServesHead /\ CompletionHasRequest)
    OBVIOUS
  <1>1. Spec => []IInv
    BY Invariance, DmaQueueAssumption
  <1>2. IInv => ChannelServesHead /\ CompletionHasRequest
    BY CompletionFollows DEF IInv
  <1> QED
    BY <1>1, <1>2, PTL

\* While a request is queued something is going to complete it.
THEOREM NothingStranded == NoSelfRequeue => (Spec => []NeverStranded)
  <1> SUFFICES ASSUME NoSelfRequeue PROVE Spec => []NeverStranded
    OBVIOUS
  <1>1. Spec => []IInv
    BY Invariance, DmaQueueAssumption
  <1>2. IInv => NeverStranded
    BY DEF IInv
  <1> QED
    BY <1>1, <1>2, PTL

\* No transfer is ever programmed over another.
THEOREM NothingRestarted == NoSelfRequeue => (Spec => NeverRestarted)
  <1> SUFFICES ASSUME NoSelfRequeue PROVE Spec => NeverRestarted
    OBVIOUS
  <1>1. Spec => []IInv
    BY Invariance, DmaQueueAssumption
  <1>2. ASSUME IInv, [Next]_vars, chan' # chan, chan'.done = 0, chan'.en
        PROVE  ~Busy
    <2>1. ASSUME NEW c \in Ctx, Call(c) \/ Queue(c) PROVE ~Busy
      <3>1. Start(c)
        BY <1>2, <2>1 DEF Call, Queue, Disable, DisableIrq, Insert,
                          InsertRequest, Enable, EnableIrq, dmaVars
      <3>2. q.head = arg[c]
        BY <1>2, <3>1 DEF Start, StartIfHead
      <3> QED
        BY <1>2, <3>1, <3>2, StartStep
    <2>2. CASE Channel
      <3>1. chan \in [en : BOOLEAN, base : Ptr, done : Nat, cntr : Nat]
        BY <1>2 DEF IInv, TypeOK
      <3>2. CASE Beat
        <4>1. chan'.done = chan.done + 1 /\ chan.done \in Nat
          BY <3>1, <3>2 DEF Beat
        <4> QED
          BY <1>2, <4>1
      <3>3. CASE BusError
        BY <1>2, <3>1, <3>3 DEF BusError
      <3> QED
        BY <2>2, <3>2, <3>3 DEF Channel
    <2>3. CASE StartNext
      BY <1>2, <2>3 DEF StartNext, IsrNext, IInv, HandlerInv
    <2>4. CASE Enter \/ Return \/ Leave \/ UNCHANGED vars
      BY <1>2, <2>4 DEF Enter, IsrEnter, Return, CallbackReturn, Leave,
                        IsrRemove, vars, dmaVars
    <2> QED
      BY <1>2, <2>1, <2>2, <2>3, <2>4 DEF Next
  <1>3. IInv /\ [Next]_vars => (chan' # chan /\ chan'.done = 0 /\ chan'.en => ~Busy)
    BY <1>2
  <1>4. IInv /\ [Next]_vars => [chan' # chan /\ chan'.done = 0 /\ chan'.en => ~Busy]_vars
    BY <1>3
  <1> QED
    BY <1>1, <1>4, PTL DEF Spec, NeverRestarted

\* The queue, the channel and the contexts inside the driver stay well typed.
THEOREM DriverTyped == NoSelfRequeue => (Spec => []TypeOK)
  <1> SUFFICES ASSUME NoSelfRequeue PROVE Spec => []TypeOK
    OBVIOUS
  <1>1. Spec => []IInv
    BY Invariance, DmaQueueAssumption
  <1>2. IInv => TypeOK
    BY DEF IInv
  <1> QED
    BY <1>1, <1>2, PTL

------------------------------------------------------------------------------
(***************************************************************************)
(* The safety half of ImplementsService for every value of the constants:  *)
(* each step of the driver is a step of DmaService or leaves it as it was. *)
(***************************************************************************)
\* How far the channel had come when the transfer ended.
DoneInv ==
  /\ flags # {} => chan.base \in Faulty \/ chan.done = XferLen[chan.base]
  /\ isr.pc \in {"cb", "remove"} =>
       Head(fifo) \in Faulty \/ chan.done = XferLen[Head(fifo)]

LEMMA DoneInit == Init => DoneInv
  BY DEF Init, DmaInit, IdleIsr, DoneInv

LEMMA DoneStep ==
  ASSUME DmaQueueAssumption, IInv, DoneInv, [Next]_vars
  PROVE  DoneInv'
  <1>1. ASSUME NEW c \in Ctx, Insert(c) PROVE DoneInv'
    <2>1. UNCHANGED <<chan, flags, isr>> /\ fifo' = Append(fifo, arg[c])
      BY <1>1 DEF Insert, InsertRequest
    <2>2. isr.pc \in {"cb", "remove"} => fifo # << >> /\ fifo \in Seq(Node)
      BY DEF IInv, HandlerInv, TypeOK
    <2>3. arg[c] \in Node
      BY <1>1 DEF Insert, Go, IInv, ArgInv
    <2>4. isr.pc \in {"cb", "remove"} => Head(fifo') = Head(fifo)
      BY <2>1, <2>2, <2>3, HeadTailAppend
    <2> QED
      BY <2>1, <2>4 DEF DoneInv
  <1>2. ASSUME NEW c \in Ctx, Start(c) PROVE DoneInv'
    <2>1. CASE q.head = arg[c]
      <3>1. isr.pc = "idle"
        BY <1>2, <2>1, StartStep DEF Start, Go, Running
      <3> QED
        BY <1>2, <2>1, <3>1 DEF Start, StartIfHead, Program, DoneInv
    <2>2. CASE q.head # arg[c]
      BY <1>2, <2>2 DEF Start, StartIfHead, DoneInv
    <2> QED
      BY <2>1, <2>2
  <1>3. CASE Beat /\ UNCHANGED <<pc, arg, fifo>>
    <2>1. /\ chan \in [en : BOOLEAN, base : Ptr, done : Nat, cntr : Nat]
          /\ chan.en /\ chan.cntr > 0 /\ Busy
      BY <1>3 DEF Beat, IInv, TypeOK, Busy
    <2>2. isr.pc = "idle" /\ flags = {}
      BY <2>1 DEF IInv, HandlerInv
    <2>3. chan.done + chan.cntr = XferLen[chan.base]
      BY <2>1 DEF IInv, ChannelServesHead
    <2>4. chan'.done = chan.done + 1 /\ chan'.base = chan.base /\ UNCHANGED isr
      <3>1. chan' = [chan EXCEPT !.done = chan.done + 1, !.cntr = chan.cntr - 1]
        BY <1>3 DEF Beat
      <3> QED
        BY <1>3, <2>1, <3>1 DEF Beat
    <2>5. flags' # {} => chan.cntr = 1
      BY <1>3, <2>2 DEF Beat
    <2>6. flags' # {} => chan'.done = XferLen[chan'.base]
      BY <2>3, <2>4, <2>5
    <2> QED
      BY <2>2, <2>4, <2>6 DEF DoneInv
  <1>4. CASE BusError /\ UNCHANGED <<pc, arg, fifo>>
    <2>1. chan.base \in Faulty /\ chan' = [chan EXCEPT !.en = FALSE] /\ UNCHANGED isr
      BY <1>4 DEF BusError
    <2>2. chan \in [en : BOOLEAN, base : Ptr, done : Nat, cntr : Nat]
      BY DEF IInv, TypeOK
    <2>3. chan'.base = chan.base /\ chan'.done = chan.done
      BY <2>1, <2>2
    <2> QED
      BY <1>4, <2>1, <2>3 DEF DoneInv
  <1>5. CASE Enter
    <2>1. q.head = Head(fifo) /\ chan.base = Head(fifo)
      BY <1>5, QueueHead DEF Enter, IsrEnter, IsrPending, IInv,
                             ChannelServesHead, Busy
    <2> QED
      BY <1>5, <2>1 DEF Enter, IsrEnter, IsrPending, DoneInv
  <1>6. CASE Return
    <2>1. UNCHANGED <<chan, flags, fifo>> /\ isr.pc = "cb"
      BY <1>6 DEF Return, CallbackReturn
    <2> QED
      BY <2>1 DEF DoneInv
  <1>7. CASE Leave
    <2>1. UNCHANGED <<chan, flags>> /\ isr' = [isr EXCEPT !.pc = "next"]
      BY <1>7 DEF Leave, IsrRemove
    <2>2. isr'.pc = "next"
      BY <2>1 DEF IInv, TypeOK
    <2> QED
      BY <2>1, <2>2 DEF DoneInv
  <1>8. CASE StartNext
    <2>1. flags = {}
      BY <1>8 DEF StartNext, IsrNext, IInv, HandlerInv, Busy
    <2>2. flags' = {}
      BY <1>8, <2>1 DEF StartNext, IsrNext, Program
    <2> QED
      BY <1>8, <2>2 DEF StartNext, IsrNext, IdleIsr, DoneInv
  <1>9. ASSUME NEW c \in Ctx, Call(c) \/ Disable(c) \/ Enable(c) PROVE DoneInv'
    BY <1>9 DEF Call, Disable, DisableIrq, Enable, EnableIrq, dmaVars, DoneInv
  <1>10. CASE UNCHANGED vars
    BY <1>10 DEF vars, dmaVars, DoneInv
  <1> QED
    BY <1>1, <1>2, <1>3, <1>4, <1>5, <1>6, <1>7, <1>8, <1>9, <1>10
    DEF Next, Queue, Channel

------------------------------------------------------------------------------
\* The bytes the service has moved of its oldest request.
Moved == IF Busy \/ isr.pc \in {"cb", "remove"} THEN chan.done ELSE 0

LEMMA ServiceInit == Init => Service!Init
  BY DEF Init, DmaInit, IdleIsr, Busy, Service!Init

LEMMA ServiceStep ==
  ASSUME DmaQueueAssumption, IInv, DoneInv, [Next]_vars
  PROVE  [Service!Next]_(Service!vars)
  <1>11. UNCHANGED <<fifo, Moved>> => UNCHANGED Service!vars
    BY DEF Service!vars, Moved
  <1>12. /\ q \in List /\ fifo \in Seq(Node)
        /\ chan \in [en : BOOLEAN, base : Ptr, done : Nat, cntr : Nat]
    BY DEF IInv, TypeOK
  <1>1. ASSUME NEW c \in Ctx, Insert(c) PROVE \E r \in Node : Service!Submit(r)
    <2>1. arg[c] \in Node /\ arg[c] \notin Range(fifo)
      BY <1>1 DEF Insert, Go, IInv, ArgInv
    <2>2. fifo' = Append(fifo, arg[c]) /\ Moved' = Moved
      BY <1>1 DEF Insert, InsertRequest, Moved, Busy
    <2> QED
      BY <2>1, <2>2 DEF Service!Submit, Moved, Range, Service!Range
  <1>2. ASSUME NEW c \in Ctx, Start(c) PROVE UNCHANGED <<fifo, Moved>>
    <2>1. CASE q.head = arg[c]
      <3>1. isr.pc = "idle" /\ ~Busy
        BY <1>2, <2>1, StartStep DEF Start, Go, Running
      <3>2. chan'.done = 0 /\ UNCHANGED <<fifo, isr>>
        BY <1>2, <2>1 DEF Start, StartIfHead, Program
      <3> QED
        BY <3>1, <3>2 DEF Moved
    <2>2. CASE q.head # arg[c]
      BY <1>2, <2>2 DEF Start, StartIfHead, Moved, Busy
    <2> QED
      BY <2>1, <2>2
  <1>3. ASSUME Beat, UNCHANGED fifo PROVE Service!Move
    <2>1. chan.en /\ chan.cntr > 0 /\ Busy /\ chan.base \notin Faulty
      BY <1>3 DEF Beat, Busy
    <2>2. fifo # << >> /\ chan.base = Head(fifo) /\ chan.done + chan.cntr = XferLen[Head(fifo)]
      BY <2>1 DEF IInv, ChannelServesHead
    <2>3. chan'.done = chan.done + 1 /\ chan'.cntr = chan.cntr - 1 /\ chan'.en = chan.en
      <3>1. chan' = [chan EXCEPT !.done = chan.done + 1, !.cntr = chan.cntr - 1]
        BY <1>3 DEF Beat
      <3> QED
        BY <1>12, <3>1
    <2>4. chan.cntr = 1 => flags' # {}
      BY <1>3 DEF Beat
    <2>5. Busy'
      BY <1>12, <2>1, <2>3, <2>4 DEF Busy
    <2>6. Moved = chan.done /\ Moved' = chan.done + 1
      BY <2>1, <2>3, <2>5 DEF Moved
    <2>7. chan.done < XferLen[Head(fifo)]
      BY <1>12, <2>1, <2>2
    <2> QED
      BY <1>3, <2>1, <2>2, <2>6, <2>7 DEF Service!Move, Moved
  <1>4. ASSUME BusError, UNCHANGED fifo PROVE UNCHANGED <<fifo, Moved>>
    <2>1. Busy /\ flags' # {} /\ chan' = [chan EXCEPT !.en = FALSE]
      BY <1>4 DEF BusError, Busy
    <2>2. Busy' /\ chan'.done = chan.done
      BY <1>12, <2>1 DEF Busy
    <2> QED
      BY <1>4, <2>1, <2>2 DEF Moved
  <1>5. ASSUME Enter PROVE UNCHANGED <<fifo, Moved>>
    <2>1. Busy /\ UNCHANGED <<chan, fifo>> /\ isr.pc = "idle"
      BY <1>5 DEF Enter, IsrEnter, IsrPending, Busy
    <2>2. q.head # NULL
      BY <2>1, QueueHead DEF IInv, ChannelServesHead
    <2>3. isr'.pc \in {"cb", "remove"}
      BY <1>5, <2>2 DEF Enter, IsrEnter
    <2> QED
      BY <2>1, <2>3 DEF Moved
  <1>6. ASSUME Return PROVE UNCHANGED <<fifo, Moved>>
    <2>1. UNCHANGED <<chan, flags, fifo>> /\ isr.pc = "cb" /\ isr' = [isr EXCEPT !.pc = "remove"]
      BY <1>6 DEF Return, CallbackReturn
    <2>2. isr'.pc = "remove"
      BY <2>1 DEF IInv, TypeOK
    <2> QED
      BY <2>1, <2>2 DEF Moved
  <1>7. ASSUME Leave PROVE Service!Complete
    <2>1. /\ UNCHANGED <<chan, flags>> /\ isr.pc = "remove"
          /\ isr' = [isr EXCEPT !.pc = "next"] /\ fifo' = Tail(fifo)
      BY <1>7 DEF Leave, IsrRemove
    <2>2. isr'.pc = "next" /\ ~Busy /\ Busy' = Busy /\ fifo # << >>
      BY <2>1 DEF IInv, TypeOK, HandlerInv, Busy
    <2>3. Moved = chan.done /\ Moved' = 0
      BY <2>1, <2>2 DEF Moved
    <2>4. Head(fifo) \in Faulty \/ Moved = XferLen[Head(fifo)]
      BY <2>1, <2>3 DEF DoneInv
    <2> QED
      BY <2>1, <2>2, <2>3, <2>4 DEF Service!Complete, Moved
  <1>8. ASSUME StartNext PROVE UNCHANGED <<fifo, Moved>>
    <2>1. isr.pc = "next" /\ ~Busy /\ UNCHANGED fifo /\ isr'.pc = "idle"
      BY <1>8 DEF StartNext, IsrNext, IdleIsr, IInv, HandlerInv
    <2>2. CASE q.head = NULL
      BY <1>8, <2>1, <2>2 DEF StartNext, IsrNext, Moved, Busy
    <2>3. CASE q.head # NULL
      <3>1. chan'.done = 0
        BY <1>8, <2>3 DEF StartNext, IsrNext, Program
      <3> QED
        BY <2>1, <3>1 DEF Moved
    <2> QED
      BY <2>2, <2>3
  <1>9. ASSUME NEW c \in Ctx, Call(c) \/ Disable(c) \/ Enable(c)
        PROVE  UNCHANGED <<fifo, Moved>>
    BY <1>9 DEF Call, Disable, DisableIrq, Enable, EnableIrq, dmaVars, Moved, Busy
  <1>10. ASSUME UNCHANGED vars PROVE UNCHANGED <<fifo, Moved>>
    BY <1>10 DEF vars, dmaVars, Moved, Busy
  <1> QED
    <2>1. CASE \E c \in Ctx : Call(c) \/ Queue(c)
      BY <2>1, <1>11, <1>1, <1>2, <1>9 DEF Queue, Service!Next
    <2>2. CASE Channel
      BY <2>2, <1>11, <1>3, <1>4 DEF Channel, Service!Next
    <2>3. CASE Enter \/ Return \/ Leave \/ StartNext \/ UNCHANGED vars
      BY <2>3, <1>11, <1>5, <1>6, <1>7, <1>8, <1>10 DEF Service!Next
    <2> QED
      BY <2>1, <2>2, <2>3 DEF Next

\* The driver implements the service: requests are moved one at a time in the
\* order they were queued, each from its first byte to its last or to a bus
\* error, and each is completed once.  (That each is completed in the end is
\* left to the model checker.)
THEOREM DriverImplementsService ==
  NoSelfRequeue => (Spec => Service!Init /\ [][Service!Next]_(Service!vars))
  <1> SUFFICES ASSUME NoSelfRequeue
               PROVE  Spec => Service!Init /\ [][Service!Next]_(Service!vars)
    OBVIOUS
  <1>1. Spec => []IInv
    BY Invariance, DmaQueueAssumption
  <1>2. Init => DoneInv /\ Service!Init
    BY DoneInit, ServiceInit
  <1>3. IInv /\ DoneInv /\ [Next]_vars => DoneInv'
    BY DoneStep, DmaQueueAssumption
  <1>4. IInv /\ DoneInv /\ [Next]_vars => [Service!Next]_(Service!vars)
    BY ServiceStep, DmaQueueAssumption
  <1> QED
    BY <1>1, <1>2, <1>3, <1>4, PTL DEF Spec
------------------------------------------------------------------------------
(***************************************************************************)
(* The driver as a client of list_mgr.c: it makes none but the calls that  *)
(* ListClient makes.  So what holds of that module's list holds of the     *)
(* queue of the driver.                                                    *)
(***************************************************************************)
LEMMA RingStep ==
  ASSUME IInv, [Next]_vars
  PROVE  [Ring!Next]_(Ring!vars)
  <1>1. q \in List /\ fifo \in Seq(Node) /\ Represents(q, fifo)
    BY DEF IInv, TypeOK, QueueInOrder
  <1>2. ASSUME NEW c \in Ctx, Insert(c) PROVE Ring!CallAppend(arg[c])
    <2>1. arg[c] \in Node /\ arg[c] \notin Range(fifo)
      BY <1>2 DEF Insert, Go, IInv, ArgInv
    <2>2. q' = InsertNodeAfter(q, NULL, arg[c]) /\ fifo' = Append(fifo, arg[c])
      BY <1>2 DEF Insert, InsertRequest
    <2> QED
      BY <2>1, <2>2, RingTerms DEF Ring!CallAppend, Ring!Free
  <1>3. ASSUME Leave PROVE 1 \in DOMAIN fifo /\ Ring!CallRemove(1)
    <2>1. q' = RemoveNode(q, isr.req) /\ fifo' = Tail(fifo) /\ isr.pc = "remove"
      BY <1>3 DEF Leave, IsrRemove
    <2>2. fifo # << >> /\ isr.req = Head(fifo)
      BY <2>1 DEF IInv, HandlerInv
    <2>3. Head(fifo) = fifo[1] /\ 1 \in DOMAIN fifo
      BY <1>1, <2>2, EmptySeq, LenProperties
    <2>4. Ring!RemoveAt(fifo, 1) = Tail(fifo)
      BY <1>1, <2>2, NullAssumption, Ring!RemoveAtHead
    <2> QED
      BY <2>1, <2>2, <2>3, <2>4, RingTerms DEF Ring!CallRemove
  <1>4. CASE UNCHANGED <<q, fifo>>
    BY <1>4 DEF Ring!vars
  <1>5. ASSUME NEW c \in Ctx, Call(c) \/ Disable(c) \/ Start(c) \/ Enable(c)
        PROVE  UNCHANGED <<q, fifo>>
    BY <1>5 DEF Call, Disable, DisableIrq, Start, StartIfHead, Enable, EnableIrq, dmaVars
  <1>6. ASSUME Channel \/ Enter \/ Return \/ StartNext \/ UNCHANGED vars
        PROVE  UNCHANGED <<q, fifo>>
    BY <1>6 DEF Channel, Beat, BusError, Enter, IsrEnter, Return, CallbackReturn,
                StartNext, IsrNext, vars, dmaVars
  <1>7. ASSUME NEW c \in Ctx, Insert(c) PROVE Ring!Next
    <2>1. arg[c] \in Node
      BY <1>7 DEF Insert, Go, IInv, ArgInv
    <2> QED
      BY <1>2, <1>7, <2>1 DEF Ring!Next
  <1>8. ASSUME Leave PROVE Ring!Next
    BY <1>3, <1>8 DEF Ring!Next
  <1> QED
    BY <1>4, <1>5, <1>6, <1>7, <1>8 DEF Next, Queue

\* For any requests, lengths and callbacks the driver uses the list as its
\* functions may be used: a request is only linked while it is off the list, and
\* what is unlinked is the head of the list (dma.c).
THEOREM QueueIsRing == NoSelfRequeue => (Spec => Ring!Spec)
  <1> SUFFICES ASSUME NoSelfRequeue PROVE Spec => Ring!Spec
    OBVIOUS
  <1>1. Spec => []IInv
    BY Invariance, DmaQueueAssumption
  <1>2. Init => Ring!Init
    BY DEF Init, DmaInit, EmptyList, Ring!Init, Ring!EmptyList
  <1>3. IInv /\ [Next]_vars => [Ring!Next]_(Ring!vars)
    BY RingStep
  <1> QED
    BY <1>1, <1>2, <1>3, PTL DEF Spec, Ring!Spec

\* A request that is off the queue holds no pointer into it, and walking the
\* queue from either end visits each request once and stops.
THEOREM QueueTraversal ==
  NoSelfRequeue => (Spec => [](Ring!FreeNodesUnlinked /\ Ring!TraversalEnds))
  <1> SUFFICES ASSUME NoSelfRequeue
               PROVE  Spec => [](Ring!FreeNodesUnlinked /\ Ring!TraversalEnds)
    OBVIOUS
  <1>1. Spec => Ring!Spec
    BY QueueIsRing
  <1>2. Ring!Spec => []Ring!FreeNodesUnlinked
    BY NullAssumption, Ring!ListUnlinked
  <1>3. Ring!Spec => [](Ring!TypeOK /\ Ring!TraversalEnds)
    BY NullAssumption, Ring!ListTraversal
  <1> QED
    BY <1>1, <1>2, <1>3, PTL
==============================================================================
