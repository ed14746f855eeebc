------------------------------- MODULE UsartTx -------------------------------
(***************************************************************************)
(* lib/src/usart.c: sending a buffer by interrupts.  The program starts a  *)
(* request, and the interrupt handler, called each time the line has gone  *)
(* idle ("transmission complete"), hands over the next byte or calls the   *)
(* callback, which may start the next request from inside the handler, as  *)
(* app/usart1-tx-interrupt does.  A byte is known by its position in the   *)
(* stream the program asks for.  The transmitter, one data register in     *)
(* front of one shift register, works on whatever the processor does.      *)
(***************************************************************************)
EXTENDS SequencesExt, Integers

CONSTANTS Lens,       \* the lengths of the requests
          MaxBytes    \* the program asks for no more bytes than these

ASSUME UsartTxAssumption ==
  /\ Lens \subseteq Nat \ {0}
  /\ MaxBytes \in Nat

VARIABLES
  tc, tcie,     \* STATR.TC and CTLR1.TCIE
  tdr, shift,   \* the byte in DATAR, and the byte on the line
  req,          \* the request: base, len, _idx, and whether it has a cb
  pc,           \* where the main loop and the handler stand
  asked,        \* history: bytes the program has asked for
  over,         \* history: a request was started while a byte sent with
                \* usart_send_byte was still on the line
  wire          \* history: bytes that went over the line

vars == <<tc, tcie, tdr, shift, req, pc, asked, over, wire>>

NoByte == -1

Init ==
  /\ tc = FALSE /\ tcie = FALSE
  /\ tdr = NoByte /\ shift = NoByte
  /\ req = [base |-> 0, len |-> 0, idx |-> 0, cb |-> FALSE]
  /\ pc = [c \in {"main", "isr"} |-> "idle"]
  /\ asked = 0
  /\ over = FALSE
  /\ wire = << >>

------------------------------------------------------------------------------
\* A byte written to DATAR goes on to an empty shift register at once.
WriteDatar(byte) ==
  IF shift = NoByte THEN shift' = byte /\ UNCHANGED tdr
                    ELSE tdr' = byte /\ UNCHANGED shift

FrameEnd ==
  /\ shift # NoByte
  /\ wire' = Append(wire, shift)
  /\ shift' = tdr
  /\ tdr' = NoByte
  /\ tc' = (tc \/ tdr = NoByte)
  /\ UNCHANGED <<tcie, req, pc, asked, over>>

------------------------------------------------------------------------------
\* The main loop waits while the handler runs.
At(c, l) == pc[c] = l /\ (c = "main" => pc["isr"] = "idle")
Goto(c, l) == pc' = [pc EXCEPT ![c] = l]

\* The caller fills in a request for n more bytes.
Fill(n, cb) ==
  /\ asked + n <= MaxBytes
  /\ req' = [req EXCEPT !.base = asked, !.len = n, !.cb = cb]
  /\ asked' = asked + n

\* usart_send_byte(id, value, true), while no request is running.
SendByte ==
  /\ At("main", "idle") /\ req.len = 0 /\ asked < MaxBytes
  /\ tdr = NoByte
  /\ WriteDatar(asked)
  /\ tc' = FALSE
  /\ asked' = asked + 1
  /\ UNCHANGED <<tcie, req, pc, wire, over>>

(***************************************************************************)
(* usart_tx_buffer_request_start, called by the main loop or by a callback.*)
(***************************************************************************)
Request(n, cb) ==
  /\ At("main", "idle") /\ req.len = 0
  /\ Fill(n, cb) /\ Goto("main", "clear")
  /\ over' = (over \/ shift # NoByte)
  /\ UNCHANGED <<tc, tcie, tdr, shift, wire>>

Clear(c) ==
  /\ At(c, "clear") /\ Goto(c, "tcie")
  /\ tc' = FALSE
  /\ UNCHANGED <<tcie, tdr, shift, req, asked, wire, over>>

EnableTc(c) ==
  /\ At(c, "tcie") /\ Goto(c, "idx")
  /\ tcie' = TRUE
  /\ UNCHANGED <<tc, tdr, shift, req, asked, wire, over>>

\* A mutant: _idx is left as the last request left it.
ResetIdxMissing(c) ==
  /\ At(c, "idx") /\ Goto(c, "datar")
  /\ UNCHANGED <<tc, tcie, tdr, shift, req, asked, wire, over>>

ResetIdx(c) ==
  /\ At(c, "idx") /\ Goto(c, "datar")
  /\ req' = [req EXCEPT !.idx = 0]
  /\ UNCHANGED <<tc, tcie, tdr, shift, asked, wire, over>>

FirstByte(c) ==
  /\ At(c, "datar") /\ Goto(c, IF c = "main" THEN "idle" ELSE "recheck")
  /\ WriteDatar(req.base)
  /\ UNCHANGED <<tc, tcie, req, asked, wire, over>>

Start(c) == Clear(c) \/ EnableTc(c) \/ ResetIdx(c) \/ FirstByte(c)

(***************************************************************************)
(* usart_tx_buffer_request_handle_int, the handler.                        *)
(***************************************************************************)
IsrEnter ==
  /\ tc /\ tcie /\ pc["isr"] = "idle"
  /\ Goto("isr", "count")
  /\ UNCHANGED <<tc, tcie, tdr, shift, req, asked, wire, over>>

\* Mutants of CountByte: the end is seen one byte early; or never.
CountByteEarly ==
  /\ At("isr", "count")
  /\ Goto("isr", IF req.len > 2 THEN "next" ELSE IF req.cb THEN "cb" ELSE "recheck")
  /\ req' = [req EXCEPT !.idx = @ + 1, !.len = IF @ > 2 THEN @ - 1 ELSE 0]
  /\ tc' = FALSE
  /\ UNCHANGED <<tcie, tdr, shift, asked, wire, over>>

CountByteNoEnd ==
  /\ At("isr", "count") /\ Goto("isr", "next")
  /\ req' = [req EXCEPT !.idx = @ + 1, !.len = @ - 1]
  /\ tc' = FALSE
  /\ UNCHANGED <<tcie, tdr, shift, asked, wire, over>>

CountByte ==
  /\ At("isr", "count")
  /\ Goto("isr", IF req.len > 1 THEN "next" ELSE IF req.cb THEN "cb" ELSE "recheck")
  /\ req' = [req EXCEPT !.idx = @ + 1, !.len = @ - 1]
  /\ tc' = FALSE
  /\ UNCHANGED <<tcie, tdr, shift, asked, wire, over>>

Callback ==
  /\ At("isr", "cb")
  /\ \/ Goto("isr", "recheck") /\ UNCHANGED <<req, asked>>
     \/ \E n \in Lens, cb \in BOOLEAN : Fill(n, cb) /\ Goto("isr", "clear")
  /\ UNCHANGED <<tc, tcie, tdr, shift, wire, over>>

\* Mutants of Recheck: the interrupt is turned off whatever the callback did;
\* it is left on.
RecheckMissing ==
  /\ At("isr", "recheck") /\ Goto("isr", "idle")
  /\ tcie' = FALSE
  /\ UNCHANGED <<tc, tdr, shift, req, asked, wire, over>>

RecheckLeavesOn ==
  /\ At("isr", "recheck") /\ Goto("isr", "idle")
  /\ UNCHANGED <<tc, tcie, tdr, shift, req, asked, wire, over>>

Recheck ==
  /\ At("isr", "recheck") /\ Goto("isr", "idle")
  /\ tcie' = (tcie /\ req.len # 0)
  /\ UNCHANGED <<tc, tdr, shift, req, asked, wire, over>>

NextByte ==
  /\ At("isr", "next") /\ Goto("isr", "idle")
  /\ WriteDatar(req.base + req.idx)
  /\ UNCHANGED <<tc, tcie, req, asked, wire, over>>

Handler == IsrEnter \/ CountByte \/ Callback \/ Recheck \/ NextByte

------------------------------------------------------------------------------
\* The program has asked for everything and all of it is sent.
Done ==
  /\ asked = MaxBytes /\ req.len = 0 /\ shift = NoByte
  /\ \A c \in {"main", "isr"} : pc[c] = "idle"
  /\ UNCHANGED vars

Next ==
  \/ SendByte
  \/ \E n \in Lens, cb \in BOOLEAN : Request(n, cb)
  \/ \E c \in {"main", "isr"} : Start(c)
  \/ Handler \/ FrameEnd \/ Done

(***************************************************************************)
(* A call goes on once begun, the handler runs when its interrupt is       *)
(* raised, and the line never stops; nothing makes the program send.       *)
(***************************************************************************)
Fairness ==
  /\ \A c \in {"main", "isr"} : WF_vars(Start(c))
  /\ WF_vars(Handler) /\ WF_vars(FrameEnd)

Spec == Init /\ [][Next]_vars /\ Fairness
------------------------------------------------------------------------------
Byte == Nat \union {NoByte}

TypeOK ==
  /\ tc \in BOOLEAN /\ tcie \in BOOLEAN
  /\ tdr \in Byte /\ shift \in Byte
  /\ req \in [base : Nat, len : Nat, idx : Nat, cb : BOOLEAN]
  /\ pc \in [{"main", "isr"} -> {"idle", "clear", "tcie", "idx", "datar",
                                 "count", "cb", "recheck", "next"}]
  /\ asked \in Nat /\ over \in BOOLEAN
  /\ wire \in Seq(Nat)

\* Every byte goes over the line once and in order, across requests that are
\* started by the main loop and requests that a callback started, until a
\* request is started over a byte.
WireInOrder == ~over => \A i \in DOMAIN wire : wire[i] = i - 1

\* The callback is called upon all bytes being sent, not when the last one is
\* handed over (usart.h:147-151).
CallbackWhenSent == pc["isr"] = "cb" => Len(wire) = asked

\* The only way in which it comes early: a transmission complete of a byte that
\* usart_send_byte left on the line is counted for the first byte of a request,
\* which start enables the interrupt for before it has written it (usart.c:171).
EarlyOnlyOverAByte == CallbackWhenSent \/ over

\* A request that is running is never stranded, however it was started: the line
\* is busy or the interrupt is pending, and it is enabled.  Until a request is
\* started over a byte, the byte on the line is the one _idx stands for.
NeverStranded ==
  req.len > 0 /\ (\A c \in {"main", "isr"} : pc[c] = "idle") =>
    /\ tcie
    /\ shift # NoByte \/ tc
    /\ shift # NoByte => over \/ shift = req.base + req.idx

\* The handler is called for a running request only, however it was started:
\* once the last one is over the interrupt is off, also when the callback has
\* started none.
NoStrayInterrupt == tcie /\ (\A c \in {"main", "isr"} : pc[c] = "idle") => req.len > 0

\* Every request comes to its end, and every byte asked for is sent in the end,
\* unless a request was started over a byte.
EachByteSent ==
  /\ req.len > 0 ~> req.len = 0
  /\ \A k \in 1 .. MaxBytes : asked >= k ~> Len(wire) >= k \/ over
==============================================================================
