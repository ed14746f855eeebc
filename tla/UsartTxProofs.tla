---------------------------- MODULE UsartTxProofs ----------------------------
(***************************************************************************)
(* Proofs about UsartTx.  Two invariants: WeakInv, which the driver keeps  *)
(* whatever the program does, and SettledInv, which it keeps until a       *)
(* request is started while a byte of usart_send_byte is on the line: till *)
(* then the line is empty whenever a request is started, and the only      *)
(* interrupt a request ever gets is the one of the byte _idx stands for.   *)
(***************************************************************************)
EXTENDS UsartTx, TLAPS

Empty == shift = NoByte /\ tdr = NoByte

\* The line works through the stream: what it holds is what comes next.
LineInv ==
  /\ \A i \in DOMAIN wire : wire[i] = i - 1
  /\ shift # NoByte => shift = Len(wire)
  /\ tdr # NoByte => shift # NoByte /\ tdr = Len(wire) + 1

\* The byte is on its way and no interrupt is raised, or it is over and there is.
OnLine(byte) ==
  \/ shift = byte /\ tdr = NoByte /\ Len(wire) = byte /\ ~tc
  \/ Empty /\ Len(wire) = byte + 1 /\ tc

\* The request has handed over all bytes before its _idx, and that one.
Serving ==
  /\ req.len > 0 /\ tcie
  /\ OnLine(req.base + req.idx)
  /\ asked = req.base + req.idx + req.len

\* No request: everything asked for is over the line or on its way.
Quiet ==
  /\ req.len = 0 /\ ~tcie
  /\ asked = Len(wire) + (IF shift = NoByte THEN 0 ELSE 1) + (IF tdr = NoByte THEN 0 ELSE 1)

IdleInv ==
  pc["main"] = "idle" /\ pc["isr"] = "idle" => Quiet \/ Serving

StartInv(c) ==
  pc[c] \in {"clear", "tcie", "idx", "datar"} =>
    /\ Empty /\ req.len > 0
    /\ Len(wire) = req.base /\ asked = req.base + req.len
    /\ pc[c] # "clear" => ~tc
    /\ pc[c] = "clear" /\ c = "main" => ~tcie
    /\ pc[c] \in {"idx", "datar"} => tcie
    /\ pc[c] = "datar" => req.idx = 0

HandlerInv ==
  /\ pc["isr"] = "count" =>
       /\ Empty /\ tcie /\ req.len > 0
       /\ Len(wire) = req.base + req.idx + 1
       /\ asked = req.base + req.idx + req.len
  /\ pc["isr"] = "next" =>
       /\ Empty /\ tcie /\ ~tc /\ req.len > 0
       /\ Len(wire) = req.base + req.idx
       /\ asked = req.base + req.idx + req.len
  /\ pc["isr"] = "cb" => Empty /\ ~tc /\ req.len = 0 /\ Len(wire) = asked
  /\ pc["isr"] = "recheck" =>
       \/ Empty /\ ~tc /\ req.len = 0 /\ Len(wire) = asked
       \/ Serving

\* One of the two is inside, and the handler's steps are the handler's.
WhoInv ==
  /\ pc["main"] # "idle" => pc["isr"] = "idle"
  /\ pc["main"] \in {"idle", "clear", "tcie", "idx", "datar"}

SettledInv ==
  /\ TypeOK /\ LineInv /\ WhoInv /\ IdleInv
  /\ StartInv("main") /\ StartInv("isr") /\ HandlerInv

LEMMA InitHolds == ASSUME Init PROVE SettledInv
  <1>1. wire = << >> /\ Len(wire) = 0
    BY DEF Init
  <1>2. TypeOK
    <2>1. tc \in BOOLEAN /\ tcie \in BOOLEAN /\ over \in BOOLEAN
      BY DEF Init
    <2>2. tdr \in Byte /\ shift \in Byte /\ asked \in Nat /\ wire \in Seq(Nat)
      BY DEF Init, Byte
    <2>3. req \in [base : Nat, len : Nat, idx : Nat, cb : BOOLEAN]
      BY DEF Init
    <2>4. pc \in [{"main", "isr"} -> {"idle", "clear", "tcie", "idx", "datar",
                                     "count", "cb", "recheck", "next"}]
      BY DEF Init
    <2> QED
      BY <2>1, <2>2, <2>3, <2>4 DEF TypeOK
  <1> QED
    BY <1>1, <1>2 DEF Init, SettledInv, LineInv, WhoInv, IdleInv, StartInv,
       HandlerInv, Quiet

LEMMA SendByteKeeps ==
  ASSUME SettledInv, SendByte
  PROVE  SettledInv'
  <1>1. /\ pc["main"] = "idle" /\ pc["isr"] = "idle" /\ Quiet
        /\ tdr = NoByte
    BY DEF SettledInv, IdleInv, Serving, SendByte, At
  <1>2. TypeOK'
    <2>1. tc' \in BOOLEAN /\ tcie' \in BOOLEAN /\ over' \in BOOLEAN
      BY DEF SettledInv, TypeOK, SendByte, WriteDatar
    <2>2. tdr' \in Byte /\ shift' \in Byte /\ asked' \in Nat /\ wire' \in Seq(Nat)
      BY DEF SettledInv, TypeOK, Byte, SendByte, WriteDatar
    <2>3. req' \in [base : Nat, len : Nat, idx : Nat, cb : BOOLEAN]
      BY DEF SettledInv, TypeOK, SendByte, WriteDatar
    <2>4. pc' \in [{"main", "isr"} -> {"idle", "clear", "tcie", "idx", "datar",
                                     "count", "cb", "recheck", "next"}]
      BY DEF SettledInv, TypeOK, SendByte, WriteDatar
    <2> QED
      BY <2>1, <2>2, <2>3, <2>4 DEF TypeOK
  <1>3. LineInv' /\ Quiet'
    <2>1. CASE shift = NoByte
      BY <1>1, <2>1 DEF SettledInv, NoByte, LineInv, Quiet, SendByte, WriteDatar
    <2>2. CASE shift # NoByte
      BY <1>1, <2>2 DEF SettledInv, NoByte, LineInv, Quiet, SendByte, WriteDatar
    <2> QED
      BY <2>1, <2>2
  <1>4. pc' = pc
    BY DEF SendByte
  <1> QED
    BY <1>1, <1>2, <1>3, <1>4 DEF SettledInv, WhoInv, IdleInv, StartInv, HandlerInv

LEMMA RequestKeeps ==
  ASSUME NEW n \in Lens, NEW cb \in BOOLEAN, UsartTxAssumption, SettledInv, Request(n, cb), ~over'
  PROVE  SettledInv'
  <1>1. /\ pc["main"] = "idle" /\ pc["isr"] = "idle" /\ Quiet
        /\ Empty /\ n \in Nat /\ n > 0
    <2>1. pc["main"] = "idle" /\ pc["isr"] = "idle" /\ req.len = 0
      BY DEF Request, At
    <2>2. Quiet
      BY <2>1 DEF SettledInv, IdleInv, Serving
    <2>3. shift = NoByte
      BY DEF Request
    <2>4. Empty
      BY <2>3 DEF SettledInv, LineInv, Empty
    <2> QED
      BY <2>1, <2>2, <2>4 DEF UsartTxAssumption
  <1>2. TypeOK'
    <2>1. tc' \in BOOLEAN /\ tcie' \in BOOLEAN /\ over' \in BOOLEAN
      BY DEF SettledInv, TypeOK, Request, Goto, Fill
    <2>2. tdr' \in Byte /\ shift' \in Byte /\ asked' \in Nat /\ wire' \in Seq(Nat)
      BY <1>1 DEF SettledInv, TypeOK, Request, Fill
    <2>3. req' \in [base : Nat, len : Nat, idx : Nat, cb : BOOLEAN]
      BY <1>1 DEF SettledInv, TypeOK, Request, Goto, Fill
    <2>4. pc' \in [{"main", "isr"} -> {"idle", "clear", "tcie", "idx", "datar",
                                     "count", "cb", "recheck", "next"}]
      BY DEF SettledInv, TypeOK, Request, Goto, Fill
    <2> QED
      BY <2>1, <2>2, <2>3, <2>4 DEF TypeOK
  <1>3. /\ pc'["main"] = "clear" /\ pc'["isr"] = "idle"
        /\ req'.len = n /\ req'.base = asked /\ asked' = asked + n
    BY <1>1 DEF SettledInv, TypeOK, Request, Goto, Fill
  <1> QED
    BY <1>1, <1>2, <1>3 DEF SettledInv, LineInv, Empty, Quiet, WhoInv, IdleInv,
       StartInv, HandlerInv, Request

LEMMA ClearKeeps ==
  ASSUME NEW c \in {"main", "isr"}, SettledInv, Clear(c)
  PROVE  SettledInv'
  <1>1. TypeOK'
    BY DEF SettledInv, TypeOK, Clear, Goto
  <1> QED
    BY <1>1 DEF SettledInv, TypeOK, LineInv, WhoInv, IdleInv, StartInv,
       HandlerInv, Empty, Clear, At, Goto

LEMMA EnableTcKeeps ==
  ASSUME NEW c \in {"main", "isr"}, SettledInv, EnableTc(c)
  PROVE  SettledInv'
  <1>1. TypeOK'
    BY DEF SettledInv, TypeOK, EnableTc, Goto
  <1> QED
    BY <1>1 DEF SettledInv, LineInv, WhoInv, IdleInv, StartInv, HandlerInv,
       Empty, EnableTc, At, Goto

LEMMA ResetIdxKeeps ==
  ASSUME NEW c \in {"main", "isr"}, SettledInv, ResetIdx(c)
  PROVE  SettledInv'
  <1>1. TypeOK'
    BY DEF SettledInv, TypeOK, ResetIdx, Goto
  <1> QED
    BY <1>1 DEF SettledInv, TypeOK, LineInv, WhoInv, IdleInv, StartInv,
       HandlerInv, Empty, ResetIdx, At, Goto

LEMMA FirstByteKeeps ==
  ASSUME NEW c \in {"main", "isr"}, SettledInv, FirstByte(c)
  PROVE  SettledInv'
  <1>1. /\ pc[c] = "datar" /\ StartInv(c)
        /\ shift' = req.base /\ tdr' = NoByte
    BY DEF SettledInv, StartInv, Empty, FirstByte, At, WriteDatar
  <1>2. TypeOK'
    BY DEF SettledInv, TypeOK, Byte, FirstByte, Goto, WriteDatar
  <1>3. LineInv' /\ Serving'
    BY <1>1, <1>2 DEF SettledInv, LineInv, StartInv, Serving, OnLine, FirstByte
  <1>4. WhoInv' /\ StartInv("main")' /\ StartInv("isr")' /\ HandlerInv'
    BY <1>1, <1>3 DEF SettledInv, TypeOK, WhoInv, StartInv, HandlerInv, FirstByte, Goto
  <1> QED
    BY <1>2, <1>3, <1>4 DEF SettledInv, IdleInv

LEMMA IsrEnterKeeps ==
  ASSUME SettledInv, IsrEnter
  PROVE  SettledInv'
  <1>1. TypeOK'
    BY DEF SettledInv, TypeOK, IsrEnter, Goto
  <1> QED
    BY <1>1 DEF SettledInv, LineInv, WhoInv, IdleInv, StartInv, HandlerInv,
       Quiet, Serving, OnLine, Empty, IsrEnter, Goto

LEMMA CountByteKeeps ==
  ASSUME SettledInv, CountByte
  PROVE  SettledInv'
  <1>1. /\ req.len \in Nat /\ req.len > 0
        /\ req.idx \in Nat /\ req.base \in Nat /\ req.cb \in BOOLEAN
    BY DEF SettledInv, TypeOK, HandlerInv, CountByte, At
  <1>2. TypeOK'
    <2>1. tc' \in BOOLEAN /\ tcie' \in BOOLEAN /\ over' \in BOOLEAN
      BY DEF SettledInv, TypeOK, CountByte, Goto
    <2>2. tdr' \in Byte /\ shift' \in Byte /\ asked' \in Nat /\ wire' \in Seq(Nat)
      BY DEF SettledInv, TypeOK, CountByte
    <2>3. req' = [base |-> req.base, len |-> req.len - 1, idx |-> req.idx + 1, cb |-> req.cb]
      BY <1>1 DEF SettledInv, TypeOK, CountByte
    <2>4. pc' \in [{"main", "isr"} -> {"idle", "clear", "tcie", "idx", "datar",
                                     "count", "cb", "recheck", "next"}]
      BY DEF SettledInv, TypeOK, CountByte, Goto
    <2> QED
      BY <1>1, <2>1, <2>2, <2>3, <2>4 DEF TypeOK
  <1> QED
    BY <1>1, <1>2 DEF SettledInv, TypeOK, LineInv, WhoInv, IdleInv, StartInv,
       HandlerInv, Empty, CountByte, At, Goto

LEMMA CallbackKeeps ==
  ASSUME UsartTxAssumption, SettledInv, Callback
  PROVE  SettledInv'
  <1>1. /\ pc["isr"] = "cb" /\ pc["main"] = "idle"
        /\ Empty /\ ~tc /\ req.len = 0 /\ Len(wire) = asked
        /\ UNCHANGED <<tc, tcie, tdr, shift, wire>>
    BY DEF SettledInv, WhoInv, HandlerInv, Callback, At
  <1>2. CASE Goto("isr", "recheck") /\ UNCHANGED <<req, asked>>
    <2>1. pc'["isr"] = "recheck" /\ pc'["main"] = "idle"
      BY <1>1, <1>2 DEF SettledInv, TypeOK, Goto
    <2>2. over' \in BOOLEAN
      BY DEF SettledInv, TypeOK, Callback
    <2>3. TypeOK'
      BY <1>1, <1>2, <2>2 DEF SettledInv, TypeOK, Goto
    <2> QED
      BY <1>1, <1>2, <2>1, <2>3 DEF SettledInv, LineInv, Empty, WhoInv, IdleInv,
         StartInv, HandlerInv
  <1>3. CASE \E n \in Lens, cb \in BOOLEAN : Fill(n, cb) /\ Goto("isr", "clear")
    <2>1. PICK n \in Lens, cb \in BOOLEAN : Fill(n, cb) /\ Goto("isr", "clear")
      BY <1>3
    <2>2. n \in Nat /\ n > 0
      BY DEF UsartTxAssumption
    <2>3. /\ pc'["isr"] = "clear" /\ pc'["main"] = "idle"
          /\ req'.len = n /\ req'.base = asked /\ asked' = asked + n
      BY <1>1, <2>1 DEF SettledInv, TypeOK, Goto, Fill
    <2>4. req' \in [base : Nat, len : Nat, idx : Nat, cb : BOOLEAN]
      BY <2>1, <2>2 DEF SettledInv, TypeOK, Fill
    <2>5. asked' \in Nat /\ pc' \in [{"main", "isr"} -> {"idle", "clear", "tcie",
                               "idx", "datar", "count", "cb", "recheck", "next"}]
      BY <2>1, <2>2, <2>3 DEF SettledInv, TypeOK, Goto
    <2>6. over' \in BOOLEAN
      BY DEF SettledInv, TypeOK, Callback
    <2>7. TypeOK'
      BY <1>1, <2>4, <2>5, <2>6 DEF SettledInv, TypeOK
    <2> QED
      BY <1>1, <2>2, <2>3, <2>7 DEF SettledInv, LineInv, Empty, WhoInv, IdleInv,
         StartInv, HandlerInv
  <1> QED
    BY <1>2, <1>3 DEF Callback

LEMMA RecheckKeeps ==
  ASSUME SettledInv, Recheck
  PROVE  SettledInv'
  <1>1. /\ pc["isr"] = "recheck" /\ pc["main"] = "idle"
        /\ pc'["isr"] = "idle" /\ pc'["main"] = "idle"
        /\ UNCHANGED <<tc, tdr, shift, req, asked, wire>>
    BY DEF SettledInv, TypeOK, WhoInv, Recheck, At, Goto
  <1>2. TypeOK'
    BY DEF SettledInv, TypeOK, Recheck, Goto
  <1>3. CASE Empty /\ ~tc /\ req.len = 0 /\ Len(wire) = asked
    <2>1. tcie' = FALSE
      BY <1>3 DEF Recheck
    <2> QED
      BY <1>1, <1>2, <1>3, <2>1 DEF SettledInv, LineInv, Empty, Quiet, WhoInv,
         IdleInv, StartInv, HandlerInv
  <1>4. CASE Serving
    <2>1. req.len # 0
      BY <1>4 DEF SettledInv, TypeOK, Serving
    <2>2. tcie' = tcie
      BY <1>4, <2>1 DEF Serving, Recheck
    <2> QED
      BY <1>1, <1>2, <1>4, <2>2 DEF SettledInv, LineInv, Serving, OnLine, Empty,
         WhoInv, IdleInv, StartInv, HandlerInv
  <1> QED
    BY <1>1, <1>3, <1>4 DEF SettledInv, HandlerInv

LEMMA NextByteKeeps ==
  ASSUME SettledInv, NextByte
  PROVE  SettledInv'
  <1>1. /\ pc["isr"] = "next" /\ pc["main"] = "idle"
        /\ pc'["isr"] = "idle" /\ pc'["main"] = "idle"
        /\ shift' = req.base + req.idx /\ tdr' = NoByte
    BY DEF SettledInv, TypeOK, WhoInv, HandlerInv, Empty, NextByte, At, Goto, WriteDatar
  <1>2. TypeOK'
    BY DEF SettledInv, TypeOK, Byte, NextByte, Goto, WriteDatar
  <1>3. LineInv' /\ Serving'
    BY <1>1, <1>2 DEF SettledInv, LineInv, HandlerInv, Serving, OnLine, NextByte
  <1> QED
    BY <1>1, <1>2, <1>3 DEF SettledInv, WhoInv, IdleInv, StartInv, HandlerInv

LEMMA FrameEndKeeps ==
  ASSUME SettledInv, FrameEnd
  PROVE  SettledInv'
  <1>1. /\ shift \in Nat /\ shift = Len(wire) /\ wire \in Seq(Nat)
        /\ wire' = Append(wire, shift)
    BY DEF SettledInv, TypeOK, Byte, LineInv, FrameEnd
  <1>2. /\ Len(wire') = Len(wire) + 1 /\ wire' \in Seq(Nat)
        /\ \A i \in DOMAIN wire' : wire'[i] = i - 1
    BY <1>1 DEF SettledInv, LineInv
  <1>3. TypeOK'
    BY <1>1, <1>2 DEF SettledInv, TypeOK, Byte, NoByte, FrameEnd
  <1>4. LineInv' /\ (Serving => Serving') /\ (Quiet => Quiet')
    <2>1. LineInv'
      BY <1>1, <1>2 DEF SettledInv, NoByte, LineInv, FrameEnd
    <2>2. Serving => Serving'
      BY <1>1, <1>2 DEF SettledInv, TypeOK, NoByte, Serving, OnLine, Empty, FrameEnd
    <2>3. Quiet => Quiet'
      BY <1>1, <1>2 DEF SettledInv, TypeOK, NoByte, LineInv, Quiet, FrameEnd
    <2> QED
      BY <2>1, <2>2, <2>3
  <1>5. pc' = pc /\ ~Empty
    BY DEF FrameEnd, Empty
  <1> QED
    BY <1>3, <1>4, <1>5 DEF SettledInv, WhoInv, IdleInv, StartInv, HandlerInv

LEMMA StutterKeeps ==
  ASSUME SettledInv, UNCHANGED vars
  PROVE  SettledInv'
  BY DEF vars, SettledInv, TypeOK, LineInv, WhoInv, IdleInv, StartInv,
     HandlerInv,
         Quiet, Serving, OnLine, Empty

LEMMA NextKeepsSettled ==
  ASSUME UsartTxAssumption, SettledInv, [Next]_vars, ~over'
  PROVE  SettledInv'
  <1>1. ASSUME NEW c \in {"main", "isr"}, Start(c)
        PROVE  SettledInv'
    BY <1>1, ClearKeeps, EnableTcKeeps, ResetIdxKeeps, FirstByteKeeps DEF Start
  <1>2. CASE Handler
    BY <1>2, IsrEnterKeeps, CountByteKeeps, CallbackKeeps, RecheckKeeps, NextByteKeeps
       DEF Handler
  <1>3. CASE Done \/ UNCHANGED vars
    BY <1>3, StutterKeeps DEF Done
  <1> QED
    BY <1>1, <1>2, <1>3, SendByteKeeps, RequestKeeps, FrameEndKeeps DEF Next

\* A request started over a byte stays part of the history.
LEMMA OverStays ==
  ASSUME over, [Next]_vars
  PROVE  over'
  <1>1. ASSUME NEW c \in {"main", "isr"}, Start(c)
        PROVE  over'
    BY <1>1 DEF Start, Clear, EnableTc, ResetIdx, FirstByte
  <1>2. CASE Handler
    BY <1>2 DEF Handler, IsrEnter, CountByte, Callback, Recheck, NextByte
  <1>3. CASE \E n \in Lens, cb \in BOOLEAN : Request(n, cb)
    BY <1>3 DEF Request
  <1>4. CASE SendByte \/ FrameEnd \/ Done \/ UNCHANGED vars
    BY <1>4 DEF SendByte, FrameEnd, Done, vars
  <1> QED
    BY <1>1, <1>2, <1>3, <1>4 DEF Next

------------------------------------------------------------------------------
(***************************************************************************)
(* What holds of every program.                                            *)
(***************************************************************************)
\* Until TCIE is set the handler stays out; then it is set exactly while there
\* is something to send, but while the handler decides.
EnabledInv ==
  /\ pc["main"] \in {"clear", "tcie"} => pc["isr"] = "idle" /\ ~tcie /\ req.len > 0
  /\ pc["main"] \notin {"clear", "tcie"} /\ pc["isr"] = "idle" => (tcie <=> req.len > 0)
  /\ pc["isr"] # "idle" => tcie
  /\ pc["isr"] \in {"count", "next", "clear", "tcie", "idx", "datar"} => req.len > 0
  /\ pc["isr"] = "cb" => req.len = 0
  /\ pc["main"] \in {"idle", "clear", "tcie", "idx", "datar"}

\* Who has written a byte has given the line something to do.
BusyInv ==
  (pc["main"] = "idle" /\ pc["isr"] = "idle") \/ pc["isr"] = "recheck" =>
    req.len = 0 \/ shift # NoByte \/ tc

WeakInv == TypeOK /\ EnabledInv /\ BusyInv

LEMMA InitIsWeak == ASSUME Init PROVE WeakInv
  <1>1. TypeOK
    BY InitHolds DEF SettledInv
  <1> QED
    BY <1>1 DEF Init, WeakInv, EnabledInv, BusyInv

LEMMA Written ==
  ASSUME NEW byte \in Nat, tdr \in Byte, shift \in Byte, WriteDatar(byte)
  PROVE  shift' # NoByte /\ tdr' \in Byte /\ shift' \in Byte
  BY DEF WriteDatar, Byte, NoByte

LEMMA StartKeepsWeak ==
  ASSUME NEW c \in {"main", "isr"}, WeakInv, Start(c)
  PROVE  WeakInv'
  <1>1. CASE Clear(c)
    BY <1>1 DEF WeakInv, TypeOK, EnabledInv, BusyInv, Clear, At, Goto
  <1>2. CASE EnableTc(c)
    BY <1>2 DEF WeakInv, TypeOK, EnabledInv, BusyInv, EnableTc, At, Goto
  <1>3. CASE ResetIdx(c)
    <2>1. /\ req' \in [base : Nat, len : Nat, idx : Nat, cb : BOOLEAN]
          /\ req'.len = req.len
      BY <1>3 DEF WeakInv, TypeOK, ResetIdx
    <2> QED
      BY <1>3, <2>1 DEF WeakInv, TypeOK, EnabledInv, BusyInv, ResetIdx, At, Goto
  <1>4. CASE FirstByte(c)
    <2>1. shift' # NoByte /\ tdr' \in Byte /\ shift' \in Byte
      BY <1>4, Written DEF WeakInv, TypeOK, FirstByte
    <2> QED
      BY <1>4, <2>1 DEF WeakInv, TypeOK, EnabledInv, BusyInv, FirstByte, At, Goto
  <1> QED
    BY <1>1, <1>2, <1>3, <1>4 DEF Start

LEMMA HandlerKeepsWeak ==
  ASSUME UsartTxAssumption, WeakInv, Handler
  PROVE  WeakInv'
  <1>1. CASE IsrEnter
    BY <1>1 DEF WeakInv, TypeOK, EnabledInv, BusyInv, IsrEnter, Goto
  <1>2. CASE CountByte
    <2>1. pc["isr"] = "count" /\ tcie /\ req.len \in Nat /\ req.len > 0
      BY <1>2 DEF WeakInv, TypeOK, EnabledInv, CountByte, At
    <2>2. req' = [base |-> req.base, len |-> req.len - 1, idx |-> req.idx + 1, cb |-> req.cb]
      BY <1>2, <2>1 DEF WeakInv, TypeOK, CountByte
    <2>3. /\ req.base \in Nat /\ req.len - 1 \in Nat /\ req.idx + 1 \in Nat
          /\ req.cb \in BOOLEAN
      BY <2>1 DEF WeakInv, TypeOK
    <2>4. tc' \in BOOLEAN /\ tcie' \in BOOLEAN /\ over' \in BOOLEAN
      BY <1>2 DEF WeakInv, TypeOK, CountByte
    <2>5. pc' \in [{"main", "isr"} -> {"idle", "clear", "tcie", "idx", "datar",
                                     "count", "cb", "recheck", "next"}]
      BY <1>2 DEF WeakInv, TypeOK, CountByte, Goto
    <2>6. TypeOK'
      BY <1>2, <2>2, <2>3, <2>4, <2>5 DEF WeakInv, TypeOK, CountByte
    <2>7. /\ pc'["main"] = pc["main"]
          /\ \/ pc'["isr"] = "next" /\ req.len > 1
             \/ pc'["isr"] \in {"cb", "recheck"} /\ ~(req.len > 1)
      BY <1>2, <2>1 DEF WeakInv, TypeOK, CountByte, Goto
    <2>8. /\ req'.len = req.len - 1 /\ tcie'
          /\ pc'["isr"] = "next" => req'.len > 0
          /\ pc'["isr"] \in {"cb", "recheck"} => req'.len = 0
      BY <1>2, <2>1, <2>2, <2>7 DEF CountByte
    <2> QED
      BY <2>1, <2>6, <2>7, <2>8 DEF WeakInv, EnabledInv, BusyInv
  <1>3. CASE Callback
    <2>1. pc["isr"] = "cb" /\ tcie /\ req.len = 0
      BY <1>3 DEF WeakInv, EnabledInv, Callback, At
    <2>2. CASE Goto("isr", "recheck") /\ UNCHANGED <<req, asked>>
      BY <1>3, <2>1, <2>2 DEF WeakInv, TypeOK, EnabledInv, BusyInv, Callback, Goto
    <2>3. CASE \E n \in Lens, cb \in BOOLEAN : Fill(n, cb) /\ Goto("isr", "clear")
      <3>1. PICK n \in Lens, cb \in BOOLEAN : Fill(n, cb) /\ Goto("isr", "clear")
        BY <2>3
      <3>2. n \in Nat /\ n > 0
        BY DEF UsartTxAssumption
      <3>3. /\ req' \in [base : Nat, len : Nat, idx : Nat, cb : BOOLEAN]
            /\ req'.len = n
        BY <3>1, <3>2 DEF WeakInv, TypeOK, Fill
      <3>4. asked' \in Nat
        BY <3>1, <3>2 DEF WeakInv, TypeOK, Fill
      <3> QED
        BY <1>3, <2>1, <3>1, <3>2, <3>3, <3>4
           DEF WeakInv, TypeOK, EnabledInv, BusyInv, Callback, Goto
    <2> QED
      BY <1>3, <2>2, <2>3 DEF Callback
  <1>4. CASE Recheck
    <2>1. tcie /\ pc["isr"] = "recheck" /\ req.len \in Nat
      BY <1>4 DEF WeakInv, TypeOK, EnabledInv, Recheck, At
    <2>2. tcie' \in BOOLEAN /\ (tcie' <=> req.len > 0)
      <3>1. tcie' = (tcie /\ req.len # 0)
        BY <1>4 DEF Recheck
      <3>2. req.len # 0 <=> req.len > 0
        BY <2>1
      <3> QED
        BY <2>1, <3>1, <3>2, Zenon
    <2> QED
      BY <1>4, <2>1, <2>2 DEF WeakInv, TypeOK, EnabledInv, BusyInv, Recheck, At, Goto
  <1>5. CASE NextByte
    <2>1. req.base + req.idx \in Nat
      BY DEF WeakInv, TypeOK
    <2>2. shift' # NoByte /\ tdr' \in Byte /\ shift' \in Byte
      BY <1>5, <2>1, Written DEF WeakInv, TypeOK, NextByte
    <2> QED
      BY <1>5, <2>2 DEF WeakInv, TypeOK, EnabledInv, BusyInv, NextByte, At, Goto
  <1> QED
    BY <1>1, <1>2, <1>3, <1>4, <1>5 DEF Handler

LEMMA NextKeepsWeak ==
  ASSUME UsartTxAssumption, WeakInv, [Next]_vars
  PROVE  WeakInv'
  <1>1. CASE SendByte
    <2>1. shift' # NoByte /\ tdr' \in Byte /\ shift' \in Byte
      BY <1>1, Written DEF WeakInv, TypeOK, SendByte
    <2>2. tc' \in BOOLEAN /\ tcie' \in BOOLEAN /\ over' \in BOOLEAN
      BY <1>1 DEF WeakInv, TypeOK, SendByte
    <2>3. TypeOK'
      BY <1>1, <2>1, <2>2 DEF WeakInv, TypeOK, SendByte
    <2> QED
      BY <1>1, <2>1, <2>3 DEF WeakInv, EnabledInv, BusyInv, SendByte, At
  <1>2. ASSUME NEW n \in Lens, NEW cb \in BOOLEAN, Request(n, cb)
        PROVE  WeakInv'
    <2>1. n \in Nat /\ n > 0
      BY DEF UsartTxAssumption
    <2>2. /\ req' \in [base : Nat, len : Nat, idx : Nat, cb : BOOLEAN]
          /\ req'.len = n
      BY <1>2, <2>1 DEF WeakInv, TypeOK, Request, Fill
    <2>3. asked' \in Nat /\ over' \in BOOLEAN
      BY <1>2, <2>1 DEF WeakInv, TypeOK, Request, Fill
    <2>4. pc["main"] = "idle" /\ pc["isr"] = "idle" /\ ~tcie
      BY <1>2 DEF WeakInv, TypeOK, EnabledInv, Request, At
    <2> QED
      BY <1>2, <2>1, <2>2, <2>3, <2>4 DEF WeakInv, TypeOK, EnabledInv, BusyInv, Request, Goto
  <1>3. CASE FrameEnd
    <2>1. shift \in Nat /\ wire' \in Seq(Nat) /\ tdr' \in Byte /\ shift' \in Byte
      BY <1>3 DEF WeakInv, TypeOK, Byte, NoByte, FrameEnd
    <2>2. tc' \in BOOLEAN /\ (shift' # NoByte \/ tc')
      BY <1>3 DEF WeakInv, TypeOK, FrameEnd
    <2> QED
      BY <1>3, <2>1, <2>2 DEF WeakInv, TypeOK, EnabledInv, BusyInv, FrameEnd
  <1>4. CASE Done \/ UNCHANGED vars
    BY <1>4 DEF WeakInv, TypeOK, EnabledInv, BusyInv, Done, vars
  <1> QED
    BY <1>1, <1>2, <1>3, <1>4, StartKeepsWeak, HandlerKeepsWeak DEF Next

------------------------------------------------------------------------------
THEOREM Inductive == Spec => [](WeakInv /\ (over \/ SettledInv))
  <1>1. Init => WeakInv /\ SettledInv
    BY InitHolds, InitIsWeak
  <1>2. WeakInv /\ [Next]_vars => WeakInv'
    BY NextKeepsWeak, UsartTxAssumption
  <1>3. (over \/ SettledInv) /\ [Next]_vars => (over \/ SettledInv)'
    BY NextKeepsSettled, OverStays, UsartTxAssumption
  <1> QED
    BY <1>1, <1>2, <1>3, PTL DEF Spec

\* Every byte goes over the line once and in order, whoever starts the requests
\* and whatever their lengths, until one is started over a byte
\* (usart_tx_buffer_request_start and handle_int).
THEOREM BytesInOrder == Spec => []WireInOrder
  <1>1. over \/ SettledInv => WireInOrder
    BY DEF SettledInv, LineInv, WireInOrder
  <1> QED
    BY <1>1, Inductive, PTL

\* usart.h:147-151 promises the callback upon all bytes being sent.  Whatever a
\* program does, the callback is early only after it has started a request while
\* a byte of usart_send_byte was on the line; that it then is, is the run
\* usart_early.
THEOREM CallbackEarlyOnlyOverAByte == Spec => []EarlyOnlyOverAByte
  <1>1. over \/ SettledInv => EarlyOnlyOverAByte
    BY DEF SettledInv, HandlerInv, CallbackWhenSent, EarlyOnlyOverAByte
  <1> QED
    BY <1>1, Inductive, PTL

\* A running request always has the line busy or an interrupt to come, and the
\* interrupt never comes for none: what a request started from the callback
\* depends on (usart.c:187-189).  It holds of requests started over a byte too.
THEOREM RequestNeverStranded == Spec => []NeverStranded
  <1>1. ASSUME WeakInv, over \/ SettledInv
        PROVE  NeverStranded
    <2>1. SUFFICES ASSUME req.len > 0, pc["main"] = "idle", pc["isr"] = "idle"
                   PROVE  /\ tcie
                          /\ shift # NoByte \/ tc
                          /\ shift # NoByte => over \/ shift = req.base + req.idx
      BY DEF NeverStranded
    <2>2. tcie /\ (shift # NoByte \/ tc)
      BY <1>1, <2>1 DEF WeakInv, TypeOK, EnabledInv, BusyInv
    <2>3. SettledInv => Serving
      <3>1. SettledInv => Quiet \/ Serving
        BY <2>1 DEF SettledInv, IdleInv
      <3>2. req.len # 0
        BY <2>1
      <3>3. ~Quiet
        BY <3>2 DEF Quiet
      <3> QED
        BY <3>1, <3>3
    <2>4. Serving => shift = NoByte \/ shift = req.base + req.idx
      BY DEF Serving, OnLine, Empty
    <2> QED
      BY <1>1, <2>2, <2>3, <2>4
  <1> QED
    BY <1>1, Inductive, PTL

\* The state of the driver stays well typed, whatever the program does: the
\* length a handler counts down never passes zero (uint32_t arithmetic,
\* usart.c:181).
THEOREM UsartTyped == Spec => []TypeOK
  <1>1. WeakInv => TypeOK
    BY DEF WeakInv
  <1> QED
    BY <1>1, Inductive, PTL

\* The interrupt is never left on with nothing to send (usart.c:188).
THEOREM InterruptServed == Spec => []NoStrayInterrupt
  <1>1. WeakInv => NoStrayInterrupt
    BY DEF WeakInv, TypeOK, EnabledInv, NoStrayInterrupt
  <1> QED
    BY <1>1, Inductive, PTL
==============================================================================
