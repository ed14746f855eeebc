---------------------------- MODULE Ds3231Proofs ----------------------------
(***************************************************************************)
(* For any bound on polling, any addresses and any number of registers:    *)
(* a connection that i2c_connect reports is held, and the time that        *)
(* ds3231_get_date_time tells is the time the clock shows.                 *)
(***************************************************************************)
EXTENDS Ds3231, TLAPS

------------------------------------------------------------------------------
(***************************************************************************)
(* The controller by itself.  A STOP is only requested while the bus is    *)
(* held, and the line is empty when no byte may be on it.                  *)
(***************************************************************************)
BusInv ==
  /\ bus.stop => bus.owner = "us" /\ ~bus.sb
  /\ bus.sb => bus.owner = "us"
  /\ bus.owner # "us" => bus.phase = "none"
  /\ bus.tx # << >> => bus.phase = "data" /\ bus.dir = "W" /\ ~bus.addr
  /\ bus.phase \in {"address", "refused"} => ~bus.addr
  /\ bus.phase = "data" => bus.target = Device
  /\ bus.phase = "address" => bus.rx = << >>
  /\ bus.phase = "data" /\ bus.addr => bus.rx = << >>
  /\ bus.dir = "W" /\ bus.phase \in {"address", "data"} => bus.rx = << >>

(***************************************************************************)
(* The call under way.                                                     *)
(***************************************************************************)
\* Between the request for a START and the address nothing else is going on.
Starting ==
  At("start") \/ At("sb") \/ At("datar") =>
    ~bus.stop /\ bus.phase = "none" /\ ~bus.addr

\* The address is on the line, or was answered or refused; the answer is to it.
Addressed ==
  /\ At("datar") => bus.owner = "us"
  /\ At("addr") =>
       /\ bus.owner = "us" /\ ~bus.stop /\ ~bus.sb
       /\ bus.target = drv.addr /\ bus.dir = drv.dir
       /\ bus.phase \in {"address", "data", "refused"}
       /\ bus.phase = "data" => bus.addr /\ dev.fresh = (bus.dir = "W")

\* The bus is held for a transfer with the device.
Held(dir) ==
  /\ bus.owner = "us" /\ ~bus.stop /\ ~bus.sb /\ ~bus.addr
  /\ bus.phase = "data" /\ bus.target = Device /\ bus.dir = dir

Succeeded == At("done") /\ drv.res >= 0
Connected ==
  Succeeded /\ job \in {"connect", "reconnect", "probe"} =>
    drv.addr = Device /\ Held(drv.dir)
Transferring ==
  /\ job = "point" => Held("W")
  /\ job = "fetch" => Held("R")

\* Whose bus it is while nobody holds it: a START that was requested is for the
\* call under way, but where an earlier one was given up.
Given ==
  ~left =>
    /\ bus.start => At("sb") /\ bus.owner # "us"
    /\ At("start") => bus.owner # "us"
    /\ (/\ bus.owner = "us"
        /\ \/ At("idle") \/ At("busy") \/ (At("done") /\ drv.res < 0)
           \/ job \in {"again", "second", "told"}) => bus.stop

\* The calls that each stage of the application makes.
Stages ==
  /\ job = "idle" <=> At("idle")
  /\ job \in {"connect", "reconnect", "probe"} =>
       drv.pc \in {"busy", "start", "sb", "datar", "addr", "done"}
  /\ job = "connect" => drv.addr = Device /\ drv.dir = "W"
  /\ job = "reconnect" => drv.addr = Device /\ drv.dir = "R"
  /\ job = "probe" => drv.dir = "W"
  /\ job = "point" => drv.pc \in {"write", "done"}
  /\ job = "fetch" => drv.pc \in {"read", "done"} /\ drv.want = REG_COUNT
  /\ job \in {"point", "again", "second", "fetch", "told"} /\ At("done") => drv.res >= 0
  /\ job \in {"again", "second", "told"} => At("done")
  /\ job = "again" => bus.owner = "us" /\ bus.stop
       /\ bus.phase = "data" /\ bus.dir = "W" /\ ~bus.addr

(***************************************************************************)
(* The pointer of the device: zero once the byte that sets it has left,    *)
(* then the number of the byte that is received next.                      *)
(***************************************************************************)
PointerComing ==
  /\ bus.phase # "address" /\ (bus.phase = "data" => bus.dir = "W")
  /\ \/ bus.phase = "data" /\ ~bus.addr /\ bus.tx = <<0>> /\ dev.fresh
     \/ bus.tx = << >> /\ dev.ptr = 0

PointerSet ==
  /\ job = "connect" /\ Succeeded => bus.tx = << >> /\ dev.fresh
  /\ job = "point" =>
       \/ At("write") /\ drv.data = <<0>> /\ bus.tx = << >> /\ dev.fresh
       \/ drv.data = << >> /\ PointerComing
  /\ job \in {"again", "second"} => PointerComing
  /\ job = "reconnect" /\ At("busy") => PointerComing
  /\ job = "reconnect" /\ drv.pc \in {"start", "sb", "datar", "addr"} => dev.ptr = 0

\* The register with number n of those that are sent again and again.
Wrap(n) == IF n < REG_COUNT THEN n ELSE n - REG_COUNT

\* Bytes received and not yet read follow the k bytes that were read.
Following(k) ==
  /\ \A i \in 1 .. Len(bus.rx) : bus.rx[i] = Wrap(k + i - 1)
  /\ dev.ptr = Wrap(k + Len(bus.rx))

InOrder ==
  /\ job = "reconnect" /\ Succeeded => Following(0)
  /\ job = "fetch" =>
       /\ \A i \in 1 .. Len(drv.data) : drv.data[i] = i - 1
       /\ Following(Len(drv.data))
       /\ At("done") => Len(drv.data) = REG_COUNT

ToldInv ==
  job = "told" =>
    /\ regs = [i \in 1..REG_COUNT |-> Register(time, i - 1)]
    /\ dt = Parsed(regs)

\* The line and the call, whatever is read, and then what is read.
ControlInv == BusInv /\ Starting /\ Addressed /\ Connected /\ Transferring /\ Given /\ Stages
DataInv == PointerSet /\ InOrder /\ ToldInv
IInv == TypeOK /\ ControlInv /\ DataInv

------------------------------------------------------------------------------
\* Values that the types allow.
LEMMA Limits ==
  /\ Device \in Addresses /\ 0 \in Pointer /\ MAX_LOOP \in 0 .. MAX_LOOP
  /\ REG_COUNT \in Nat \ {0} /\ 0 \in 0 .. REG_COUNT /\ REG_COUNT \in 0 .. REG_COUNT
BY I2cAssumption DEF Pointer

\* The byte that sets the pointer, and nothing.
LEMMA ShortSequences ==
  /\ << >> \in Seq(Pointer) /\ Len(<< >>) = 0
  /\ <<0>> \in Seq(Pointer) /\ Len(<<0>>) = 1 /\ Head(<<0>>) = 0 /\ Tail(<<0>>) = << >>
BY Limits

\* What Tail and Append do to a sequence.
LEMMA TailOf ==
  ASSUME NEW S, NEW s \in Seq(S), s # << >>
  PROVE  /\ Tail(s) \in Seq(S) /\ Len(Tail(s)) = Len(s) - 1 /\ Head(s) \in S /\ Head(s) = s[1]
         /\ Len(s) \in Nat \ {0}
         /\ \A i \in 1 .. Len(s) - 1 : Tail(s)[i] = s[i + 1]
BY SMT

LEMMA AppendTo ==
  ASSUME NEW S, NEW s \in Seq(S), NEW e \in S
  PROVE  /\ Append(s, e) \in Seq(S) /\ Len(Append(s, e)) = Len(s) + 1
         /\ Len(s) \in Nat /\ Append(s, e)[Len(s) + 1] = e
         /\ \A i \in 1 .. Len(s) : Append(s, e)[i] = s[i]
BY SMT

\* The pointer of the device goes round after the last register.
LEMMA NextPointer ==
  /\ \A p \in Pointer : /\ (p + 1) % REG_COUNT \in Pointer
                        /\ (p + 1) % REG_COUNT = IF p + 1 = REG_COUNT THEN 0 ELSE p + 1
  /\ \A n \in 0 .. REG_COUNT + 2 :
       /\ Wrap(n) \in Pointer
       /\ n < 2 * REG_COUNT - 1 => (Wrap(n) + 1) % REG_COUNT = Wrap(n + 1)
<1>1. ASSUME NEW p \in Pointer
      PROVE  /\ (p + 1) % REG_COUNT \in Pointer
             /\ (p + 1) % REG_COUNT = IF p + 1 = REG_COUNT THEN 0 ELSE p + 1
  BY I2cAssumption, SMT DEF Pointer
<1>2. ASSUME NEW n \in 0 .. REG_COUNT + 2
      PROVE  /\ Wrap(n) \in Pointer
             /\ n < 2 * REG_COUNT - 1 => (Wrap(n) + 1) % REG_COUNT = Wrap(n + 1)
  <2>1. REG_COUNT \in Nat /\ REG_COUNT >= 3 /\ n \in Nat
    BY I2cAssumption, Ds3231Assumption
  <2>2. Wrap(n) \in Pointer
    BY <2>1 DEF Wrap, Pointer
  <2>3. (Wrap(n) + 1) % REG_COUNT = IF Wrap(n) + 1 = REG_COUNT THEN 0 ELSE Wrap(n) + 1
    BY <1>1, <2>2
  <2> QED
    BY <2>1, <2>2, <2>3 DEF Wrap
<1> QED
  BY <1>1, <1>2

\* The registers of the clock are bytes.
LEMMA BcdByte == \A n \in 0 .. 59 : Bcd(n) \in 0 .. 89
BY SMT DEF Bcd

LEMMA RegisterByte ==
  ASSUME NEW t \in Times, NEW i \in Nat
  PROVE  Register(t, i) \in 0 .. 255
<1>1. /\ t.hour \in 0 .. 23 /\ t.min \in 0 .. 59 /\ t.sec \in 0 .. 59 /\ t.twelve \in BOOLEAN
  BY Ds3231Assumption
<1>2. HourRegister(t) \in 0 .. 255
  <2>1. ((t.hour + 11) % 12) + 1 \in 0 .. 59
    BY <1>1
  <2>2. Bcd(t.hour) \in 0 .. 89 /\ Bcd(((t.hour + 11) % 12) + 1) \in 0 .. 89
    BY <1>1, <2>1, BcdByte
  <2> QED
    BY <1>1, <2>2 DEF HourRegister
<1>3. CASE i = 0
  BY <1>1, <1>3, BcdByte DEF Register
<1>4. CASE i = 1
  BY <1>1, <1>4, BcdByte DEF Register
<1>5. CASE i = 2
  BY <1>2, <1>5 DEF Register
<1>6. CASE i \notin {0, 1, 2}
  BY <1>6 DEF Register
<1> QED
  BY <1>3, <1>4, <1>5, <1>6

------------------------------------------------------------------------------
(***************************************************************************)
(* The application's steps.  Each lemma says that the step keeps the       *)
(* invariant: the types, the line and the call, what is read.              *)
(***************************************************************************)
LEMMA RefreshKeeps ==
  ASSUME IInv, Refresh
  PROVE  IInv'
<1> USE DEF IInv, At, Refresh, Step, data, Ready, Connect
<1>1. TypeOK'
  <2>1. drv' \in DrvType /\ Len(drv'.data) <= REG_COUNT
    BY Limits DEF TypeOK, DrvType
  <2> QED
    BY <2>1 DEF TypeOK
<1>2. ControlInv'
  BY DEF TypeOK, ControlInv, BusInv, Starting, Addressed, Connected, Transferring, Given,
         Stages, Succeeded
<1>3. DataInv'
  BY DEF TypeOK, Succeeded, DataInv, PointerSet, InOrder, ToldInv
<1> QED
  BY <1>1, <1>2, <1>3 DEF IInv

LEMMA SetPointerKeeps ==
  ASSUME IInv, SetPointer
  PROVE  IInv'
<1> USE DEF IInv, At
<1>1. /\ At("done") /\ drv.res >= 0 /\ job = "connect"
      /\ drv' = [drv EXCEPT !.pc = "write", !.data = <<0>>]
      /\ UNCHANGED <<bus, dev, time, regs, dt, found, left>> /\ job' = "point"
  BY DEF TypeOK, SetPointer, Step, Returned, data, Write
<1>2. TypeOK'
  <2>1. drv' \in DrvType
    BY <1>1, Limits, ShortSequences DEF TypeOK, DrvType
  <2>2. Len(drv'.data) <= REG_COUNT
    BY <1>1, Limits, ShortSequences DEF TypeOK, DrvType
  <2> QED
    BY <1>1, <2>1, <2>2 DEF TypeOK
<1>3. ControlInv'
  BY <1>1
  DEF TypeOK, ControlInv, BusInv, Starting, Addressed, Connected, Transferring, Given,
      Stages, Held, Succeeded
<1>4. DataInv'
  BY <1>1 DEF TypeOK, Succeeded, DataInv, PointerSet, InOrder, ToldInv
<1> QED
  BY <1>2, <1>3, <1>4 DEF IInv

LEMMA EndPointKeeps ==
  ASSUME IInv, EndPoint
  PROVE  IInv'
<1> USE DEF IInv, At, EndPoint, Step, Returned, data, Disconnect
<1>1. TypeOK'
  <2>1. bus' \in BusType /\ Len(bus'.tx) <= 2 /\ Len(bus'.rx) <= 2
    BY DEF TypeOK, BusType
  <2> QED
    BY <2>1 DEF TypeOK
<1>2. ControlInv'
  BY DEF TypeOK, ControlInv, BusInv, Starting, Addressed, Connected, Transferring, Given,
         Stages, Held
<1>3. DataInv'
  BY DEF TypeOK, DataInv, PointerSet, PointerComing, InOrder, ToldInv
<1> QED
  BY <1>1, <1>2, <1>3 DEF IInv

LEMMA DisconnectAgainKeeps ==
  ASSUME IInv, DisconnectAgain
  PROVE  IInv'
<1> USE DEF IInv, At, DisconnectAgain, Step, data, Disconnect
<1>1. TypeOK'
  <2>1. bus' \in BusType /\ Len(bus'.tx) <= 2 /\ Len(bus'.rx) <= 2
    BY DEF TypeOK, BusType
  <2> QED
    BY <2>1 DEF TypeOK
<1>2. ControlInv'
  BY DEF TypeOK, ControlInv, BusInv, Starting, Addressed, Connected, Transferring, Given,
         Stages
<1>3. DataInv'
  BY DEF TypeOK, DataInv, PointerSet, PointerComing, InOrder, ToldInv
<1> QED
  BY <1>1, <1>2, <1>3 DEF IInv

LEMMA ReconnectKeeps ==
  ASSUME IInv, Reconnect
  PROVE  IInv'
<1> USE DEF IInv, At, Reconnect, Step, data, Ready, Connect
<1>1. TypeOK'
  <2>1. drv' \in DrvType /\ Len(drv'.data) <= REG_COUNT
    BY Limits DEF TypeOK, DrvType
  <2> QED
    BY <2>1 DEF TypeOK
<1>2. ControlInv'
  BY DEF TypeOK, ControlInv, BusInv, Starting, Addressed, Connected, Transferring, Given,
         Stages, Succeeded
<1>3. DataInv'
  BY DEF TypeOK, Succeeded, DataInv, PointerSet, PointerComing, InOrder, ToldInv
<1> QED
  BY <1>1, <1>2, <1>3 DEF IInv

LEMMA FetchKeeps ==
  ASSUME IInv, Fetch
  PROVE  IInv'
<1> USE DEF IInv, At
<1>1. /\ At("done") /\ drv.res >= 0 /\ job = "reconnect"
      /\ drv' = [drv EXCEPT !.pc = "read", !.data = << >>, !.want = REG_COUNT]
      /\ UNCHANGED <<bus, dev, time, regs, dt, found, left>> /\ job' = "fetch"
  BY DEF TypeOK, Fetch, Step, Returned, data, Read
<1>2. TypeOK'
  <2>1. drv' \in DrvType
    BY <1>1, Limits, ShortSequences DEF TypeOK, DrvType
  <2>2. Len(drv'.data) <= REG_COUNT
    BY <1>1, Limits, ShortSequences DEF TypeOK, DrvType
  <2> QED
    BY <1>1, <2>1, <2>2 DEF TypeOK
<1>3. ControlInv'
  BY <1>1
  DEF TypeOK, ControlInv, BusInv, Starting, Addressed, Connected, Transferring, Given,
      Stages, Held, Succeeded
<1>4. DataInv'
  BY <1>1 DEF TypeOK, Succeeded, DataInv, PointerSet, InOrder, Following, ToldInv
<1> QED
  BY <1>2, <1>3, <1>4 DEF IInv

LEMMA EndFetchKeeps ==
  ASSUME IInv, EndFetch
  PROVE  IInv'
<1> USE DEF IInv, At, EndFetch, Step, Returned, data, Disconnect
<1>1. TypeOK'
  <2>1. bus' \in BusType
    BY DEF TypeOK, BusType
  <2>2. \A i \in 1 .. REG_COUNT : drv.data[i] \in Nat
    BY DEF TypeOK, DataInv, InOrder
  <2>3. regs' \in [1 .. REG_COUNT -> 0 .. 255]
    BY <2>2, RegisterByte DEF TypeOK
  <2> QED
    BY <2>1, <2>3 DEF TypeOK, BusType
<1>2. ControlInv'
  BY DEF TypeOK, ControlInv, BusInv, Starting, Addressed, Connected, Transferring, Given,
         Stages, Held
<1>3. DataInv'
  BY DEF TypeOK, DataInv, PointerSet, InOrder, ToldInv
<1> QED
  BY <1>1, <1>2, <1>3 DEF IInv

LEMMA ToldKeeps ==
  ASSUME IInv, Told
  PROVE  IInv'
<1> USE DEF IInv, At, Told, Step, data, NoCall
<1>1. TypeOK'
  <2>1. drv' \in DrvType /\ Len(drv'.data) <= REG_COUNT
    BY Limits, ShortSequences DEF TypeOK, DrvType
  <2> QED
    BY <2>1 DEF TypeOK
<1>2. ControlInv'
  BY DEF TypeOK, ControlInv, BusInv, Starting, Addressed, Connected, Transferring, Given,
         Stages
<1>3. DataInv'
  BY DEF TypeOK, DataInv, PointerSet, InOrder, ToldInv
<1> QED
  BY <1>1, <1>2, <1>3 DEF IInv

LEMMA FailedKeeps ==
  ASSUME IInv, Failed
  PROVE  IInv'
<1> USE DEF IInv, At
<1>1. /\ At("done") /\ drv.res < 0 /\ job \in {"connect", "reconnect", "probe"}
      /\ drv' = NoCall /\ job' = "idle"
      /\ UNCHANGED <<bus, dev, time, regs, dt, found, left>>
  BY DEF Failed, Returned, data, TypeOK, DrvType, Error
<1> USE DEF NoCall
<1>2. TypeOK'
  <2>1. drv' \in DrvType /\ Len(drv'.data) <= REG_COUNT
    BY <1>1, Limits DEF TypeOK, DrvType
  <2> QED
    BY <1>1, <2>1 DEF TypeOK
<1>3. ControlInv'
  BY <1>1
  DEF TypeOK, ControlInv, BusInv, Starting, Addressed, Connected, Transferring, Given,
      Stages
<1>4. DataInv'
  BY <1>1 DEF TypeOK, DataInv, PointerSet, InOrder, ToldInv
<1> QED
  BY <1>2, <1>3, <1>4 DEF IInv

LEMMA PresentKeeps ==
  ASSUME IInv, Present
  PROVE  IInv'
<1> USE DEF IInv, At, Present, Step, Returned, data, Disconnect, NoCall
<1>1. TypeOK'
  <2>1. bus' \in BusType /\ Len(bus'.tx) <= 2 /\ Len(bus'.rx) <= 2
    BY DEF TypeOK, BusType
  <2>2. drv' \in DrvType /\ Len(drv'.data) <= REG_COUNT
    BY Limits DEF TypeOK, DrvType
  <2>3. found' \subseteq Addresses
    BY DEF TypeOK, DrvType
  <2> QED
    BY <2>1, <2>2, <2>3 DEF TypeOK
<1>2. ControlInv'
  BY DEF TypeOK, ControlInv, BusInv, Starting, Addressed, Connected, Transferring, Given,
         Stages, Held, Succeeded
<1>3. DataInv'
  BY DEF TypeOK, DataInv, PointerSet, InOrder, ToldInv
<1> QED
  BY <1>1, <1>2, <1>3 DEF IInv

LEMMA ProbeKeeps ==
  ASSUME IInv, NEW x \in Addresses, Probe(x)
  PROVE  IInv'
<1> USE DEF IInv, At, Probe, Step, data, Connect, Ready
<1>1. TypeOK'
  <2>1. drv' \in DrvType /\ Len(drv'.data) <= REG_COUNT
    BY Limits DEF TypeOK, DrvType
  <2> QED
    BY <2>1 DEF TypeOK
<1>2. ControlInv'
  BY DEF TypeOK, ControlInv, BusInv, Starting, Addressed, Connected, Transferring, Given,
         Stages, Succeeded
<1>3. DataInv'
  BY DEF TypeOK, DataInv, PointerSet, InOrder, ToldInv
<1> QED
  BY <1>1, <1>2, <1>3 DEF IInv

------------------------------------------------------------------------------
(***************************************************************************)
(* The driver's steps.                                                     *)
(***************************************************************************)
\* A flag that was polled and not seen: only ADDR may have been cleared.
LEMMA PolledInVain ==
  ASSUME IInv, At("busy") \/ At("sb") \/ (At("addr") /\ ~bus.addr), drv.cnt > 0,
         bus' = [bus EXCEPT !.addr = FALSE], drv' = [drv EXCEPT !.cnt = drv.cnt - 1],
         UNCHANGED <<dev, job, time, regs, dt, found, left>>
  PROVE  IInv'
<1> USE DEF IInv, At
<1>0. drv.cnt - 1 \in 0 .. MAX_LOOP
  <2>1. drv.cnt \in 0 .. MAX_LOOP /\ MAX_LOOP \in Nat
    BY I2cAssumption DEF TypeOK, DrvType
  <2> QED
    BY <2>1
<1>1. TypeOK'
  <2>1. bus' \in BusType /\ Len(bus'.tx) <= 2 /\ Len(bus'.rx) <= 2
    BY <1>0 DEF TypeOK, BusType
  <2>2. drv' \in DrvType /\ Len(drv'.data) <= REG_COUNT
    BY <1>0, Limits DEF TypeOK, DrvType
  <2> QED
    BY <1>0, <2>1, <2>2 DEF TypeOK
<1>2. ControlInv'
  BY <1>0
  DEF TypeOK, ControlInv, BusInv, Starting, Addressed, Connected, Transferring, Given,
      Stages, Succeeded
<1>3. DataInv'
  BY <1>0
  DEF TypeOK, ControlInv, Stages, Succeeded, DataInv, PointerSet, PointerComing, InOrder,
      ToldInv
<1> QED
  BY <1>1, <1>2, <1>3 DEF IInv

LEMMA PollBusyKeeps ==
  ASSUME IInv, InDriver, PollBusy
  PROVE  IInv'
<1> USE DEF IInv, At
<1>1. CASE bus.owner = "free"
  <2>1. /\ At("busy") /\ bus.owner = "free" /\ bus' = [bus EXCEPT !.addr = FALSE]
        /\ drv' = [drv EXCEPT !.pc = "start"]
        /\ UNCHANGED <<dev, job, time, regs, dt, found, left>>
    BY <1>1 DEF InDriver, PollBusy, Poll, Polled, data, TypeOK
  <2>2. TypeOK'
    <3>1. bus' \in BusType /\ Len(bus'.tx) <= 2 /\ Len(bus'.rx) <= 2
      BY <2>1 DEF TypeOK, BusType
    <3>2. drv' \in DrvType /\ Len(drv'.data) <= REG_COUNT
      BY <2>1, Limits DEF TypeOK, DrvType
    <3> QED
      BY <2>1, <3>1, <3>2 DEF TypeOK
  <2>3. ControlInv'
    BY <2>1
    DEF TypeOK, ControlInv, BusInv, Starting, Addressed, Connected, Transferring, Given,
        Stages, Succeeded
  <2>4. DataInv'
    BY <2>1
    DEF TypeOK, ControlInv, BusInv, Stages, Succeeded, DataInv, PointerSet, PointerComing,
        InOrder, ToldInv
  <2> QED
    BY <2>2, <2>3, <2>4 DEF IInv
<1>2. CASE ~(bus.owner = "free")
  BY <1>2, PolledInVain DEF InDriver, PollBusy, Poll, Polled, data, TypeOK
<1> QED
  BY <1>1, <1>2

LEMMA RequestStartKeeps ==
  ASSUME IInv, InDriver, RequestStart
  PROVE  IInv'
<1> USE DEF IInv, At, InDriver, RequestStart, data
<1>1. TypeOK'
  <2>1. bus' \in BusType /\ Len(bus'.tx) <= 2 /\ Len(bus'.rx) <= 2
    BY DEF TypeOK, BusType
  <2>2. drv' \in DrvType /\ Len(drv'.data) <= REG_COUNT
    BY Limits DEF TypeOK, DrvType
  <2> QED
    BY <2>1, <2>2 DEF TypeOK
<1>2. ControlInv'
  BY DEF TypeOK, ControlInv, BusInv, Starting, Addressed, Connected, Transferring, Given,
         Stages, Succeeded
<1>3. DataInv'
  BY DEF TypeOK, ControlInv, Stages, Succeeded, DataInv, PointerSet, InOrder, ToldInv
<1> QED
  BY <1>1, <1>2, <1>3 DEF IInv

LEMMA PollSbKeeps ==
  ASSUME IInv, InDriver, PollSb
  PROVE  IInv'
<1> USE DEF IInv, At
<1>1. CASE bus.sb /\ bus.owner = "us"
  <2>1. /\ At("sb") /\ bus.sb /\ bus.owner = "us" /\ bus' = [bus EXCEPT !.addr = FALSE]
        /\ drv' = [drv EXCEPT !.pc = "datar"]
        /\ UNCHANGED <<dev, job, time, regs, dt, found, left>>
    BY <1>1 DEF InDriver, PollSb, Poll, Polled, data, TypeOK, DrvType
  <2>2. TypeOK'
    <3>1. bus' \in BusType /\ Len(bus'.tx) <= 2 /\ Len(bus'.rx) <= 2
      BY <2>1 DEF TypeOK, BusType
    <3>2. drv' \in DrvType /\ Len(drv'.data) <= REG_COUNT
      BY <2>1, Limits DEF TypeOK, DrvType
    <3> QED
      BY <2>1, <3>1, <3>2 DEF TypeOK
  <2>3. ControlInv'
    BY <2>1
    DEF TypeOK, ControlInv, BusInv, Starting, Addressed, Connected, Transferring, Given,
        Stages, Succeeded
  <2>4. DataInv'
    BY <2>1 DEF TypeOK, ControlInv, Stages, Succeeded, DataInv, PointerSet, InOrder, ToldInv
  <2> QED
    BY <2>2, <2>3, <2>4 DEF IInv
<1>2. CASE ~(bus.sb /\ bus.owner = "us")
  BY <1>2, PolledInVain DEF InDriver, PollSb, Poll, Polled, data, TypeOK, DrvType
<1> QED
  BY <1>1, <1>2

LEMMA SendAddressKeeps ==
  ASSUME IInv, InDriver, SendAddress
  PROVE  IInv'
<1> USE DEF IInv, At
<1>1. /\ At("datar") /\ drv' = [drv EXCEPT !.pc = "addr", !.cnt = MAX_LOOP]
      /\ bus' = [bus EXCEPT !.sb = FALSE, !.rx = << >>, !.target = drv.addr, !.dir = drv.dir,
                           !.phase = "address"]
      /\ UNCHANGED <<dev, job, time, regs, dt, found, left>>
  BY DEF InDriver, SendAddress, data, TypeOK, ControlInv, Addressed
<1>2. TypeOK'
  <2>1. drv.addr \in Addresses /\ drv.dir \in {"W", "R"}
    BY DEF TypeOK, DrvType
  <2>2. bus' \in BusType
    BY <1>1, <2>1, ShortSequences DEF TypeOK, BusType
  <2>3. Len(bus'.tx) <= 2 /\ Len(bus'.rx) <= 2
    BY <1>1, ShortSequences DEF TypeOK, BusType
  <2>4. drv' \in DrvType /\ Len(drv'.data) <= REG_COUNT
    BY <1>1, Limits DEF TypeOK, DrvType
  <2> QED
    BY <1>1, <2>2, <2>3, <2>4 DEF TypeOK
<1>3. ControlInv'
  BY <1>1
  DEF TypeOK, ControlInv, BusInv, Starting, Addressed, Connected, Transferring, Given,
      Stages, Succeeded
<1>4. DataInv'
  BY <1>1 DEF TypeOK, ControlInv, Stages, Succeeded, DataInv, PointerSet, InOrder, ToldInv
<1> QED
  BY <1>2, <1>3, <1>4 DEF IInv

LEMMA PollAddrKeeps ==
  ASSUME IInv, InDriver, PollAddr
  PROVE  IInv'
<1> USE DEF IInv, At
<1>1. CASE bus.addr
  <2>1. /\ At("addr") /\ bus.addr /\ bus' = [bus EXCEPT !.addr = FALSE]
        /\ drv' = [drv EXCEPT !.pc = "done", !.res = 0]
        /\ UNCHANGED <<dev, job, time, regs, dt, found, left>>
    BY <1>1 DEF InDriver, PollAddr, Poll, Polled, Return, data, TypeOK
  <2>2. TypeOK'
    <3>1. bus' \in BusType /\ Len(bus'.tx) <= 2 /\ Len(bus'.rx) <= 2
      BY <2>1 DEF TypeOK, BusType
    <3>2. drv' \in DrvType /\ Len(drv'.data) <= REG_COUNT
      BY <2>1, Limits DEF TypeOK, DrvType
    <3> QED
      BY <2>1, <3>1, <3>2 DEF TypeOK
  <2>3. ControlInv'
    BY <2>1
    DEF TypeOK, ControlInv, BusInv, Starting, Addressed, Connected, Transferring, Given,
        Stages, Held
  <2>4. DataInv'
    <3>1. PointerSet'
      BY <2>1 DEF TypeOK, ControlInv, BusInv, Addressed, Stages, PointerSet
    <3>2. bus.rx = << >> /\ (job = "reconnect" => dev.ptr = 0)
      BY <2>1 DEF ControlInv, BusInv, Addressed, DataInv, PointerSet
    <3>3. Wrap(0 + Len(<< >>)) = 0 /\ 1 .. Len(<< >>) = {}
      BY Limits, ShortSequences DEF Wrap
    <3>4. InOrder'
      BY <2>1, <3>2, <3>3 DEF TypeOK, DrvType, ControlInv, Stages, InOrder, Following
    <3> QED
      BY <2>1, <3>1, <3>4 DEF DataInv, ToldInv
  <2> QED
    BY <2>2, <2>3, <2>4 DEF IInv
<1>2. CASE ~(bus.addr)
  BY <1>2, PolledInVain DEF InDriver, PollAddr, Poll, Polled, data, TypeOK
<1> QED
  BY <1>1, <1>2

LEMMA TimedOutKeeps ==
  ASSUME IInv, InDriver, TimedOut
  PROVE  IInv'
<1> USE DEF IInv, At
<1>1. CASE At("busy")
  <2>1. /\ At("busy") /\ drv' = [drv EXCEPT !.pc = "done", !.res = -1] /\ -1 \in {Error}
        /\ UNCHANGED <<bus, dev, job, time, regs, dt, found>> /\ left' = left
    BY <1>1 DEF InDriver, TimedOut, data, Return, Error, TypeOK
  <2>2. TypeOK'
    <3>1. drv' \in DrvType /\ Len(drv'.data) <= REG_COUNT
      BY <2>1, Limits DEF TypeOK, DrvType
    <3> QED
      BY <2>1, <3>1 DEF TypeOK
  <2>3. ControlInv'
    BY <2>1
    DEF TypeOK, ControlInv, BusInv, Starting, Addressed, Connected, Transferring, Given,
        Stages, Succeeded
  <2>4. DataInv'
    BY <2>1 DEF TypeOK, ControlInv, Stages, Succeeded, DataInv, PointerSet, InOrder, ToldInv
  <2> QED
    BY <2>2, <2>3, <2>4 DEF IInv
<1>2. CASE At("sb")
  <2>1. /\ At("sb") /\ drv' = [drv EXCEPT !.pc = "done", !.res = -1] /\ -1 \in {Error}
        /\ UNCHANGED <<bus, dev, job, time, regs, dt, found>> /\ left' = TRUE
    BY <1>2 DEF InDriver, TimedOut, data, Return, Error, TypeOK, DrvType
  <2>2. TypeOK'
    <3>1. drv' \in DrvType /\ Len(drv'.data) <= REG_COUNT
      BY <2>1, Limits DEF TypeOK, DrvType
    <3> QED
      BY <2>1, <3>1 DEF TypeOK
  <2>3. ControlInv'
    BY <2>1
    DEF TypeOK, ControlInv, BusInv, Starting, Addressed, Connected, Transferring, Given,
        Stages, Succeeded
  <2>4. DataInv'
    BY <2>1 DEF TypeOK, ControlInv, Stages, Succeeded, DataInv, PointerSet, InOrder, ToldInv
  <2> QED
    BY <2>2, <2>3, <2>4 DEF IInv
<1> QED
  BY <1>1, <1>2 DEF TimedOut

LEMMA NoAnswerKeeps ==
  ASSUME IInv, InDriver, NoAnswer
  PROVE  IInv'
<1> USE DEF IInv, At, InDriver, NoAnswer, data, Return, Error
<1>1. TypeOK'
  <2>1. bus' \in BusType /\ Len(bus'.tx) <= 2 /\ Len(bus'.rx) <= 2
    BY DEF TypeOK, BusType
  <2>2. drv' \in DrvType /\ Len(drv'.data) <= REG_COUNT
    BY Limits DEF TypeOK, DrvType
  <2> QED
    BY <2>1, <2>2 DEF TypeOK
<1>2. ControlInv'
  BY DEF TypeOK, ControlInv, BusInv, Starting, Addressed, Connected, Transferring, Given,
         Stages, Succeeded
<1>3. DataInv'
  BY DEF TypeOK, ControlInv, Stages, Succeeded, DataInv, PointerSet, InOrder, ToldInv
<1> QED
  BY <1>1, <1>2, <1>3 DEF IInv

LEMMA WriteByteKeeps ==
  ASSUME IInv, InDriver, WriteByte
  PROVE  IInv'
<1> USE DEF IInv, At
<1>1. CASE drv.data = << >>
  <2>1. /\ At("write") /\ drv.data = << >> /\ drv' = [drv EXCEPT !.pc = "done", !.res = 0]
        /\ UNCHANGED <<bus, dev, job, time, regs, dt, found, left>>
    BY <1>1 DEF InDriver, WriteByte, Return, data, TypeOK
  <2>2. TypeOK'
    <3>1. drv' \in DrvType /\ Len(drv'.data) <= REG_COUNT
      BY <2>1, Limits DEF TypeOK, DrvType
    <3> QED
      BY <2>1, <3>1 DEF TypeOK
  <2>3. ControlInv'
    BY <2>1
    DEF TypeOK, ControlInv, BusInv, Starting, Addressed, Connected, Transferring, Given,
        Stages, Held
  <2>4. DataInv'
    BY <2>1
    DEF TypeOK, ControlInv, Stages, DataInv, PointerSet, PointerComing, InOrder, ToldInv
  <2> QED
    BY <2>2, <2>3, <2>4 DEF IInv
<1>2. CASE drv.data # << >>
  <2>1. /\ At("write") /\ bus' = [bus EXCEPT !.tx = Append(bus.tx, Head(drv.data))]
        /\ drv' = [drv EXCEPT !.data = Tail(drv.data)]
        /\ UNCHANGED <<dev, job, time, regs, dt, found, left>>
    BY <1>2 DEF InDriver, WriteByte, data, TypeOK
  <2>2. job = "point" /\ drv.data = <<0>> /\ bus.tx = << >> /\ dev.fresh
    BY <1>2, <2>1 DEF ControlInv, Stages, DataInv, PointerSet, TypeOK
  <2>3. bus' = [bus EXCEPT !.tx = <<0>>] /\ drv' = [drv EXCEPT !.data = << >>]
    BY <2>1, <2>2, ShortSequences
  <2>4. TypeOK'
    <3>1. bus' \in BusType
      BY <2>3, ShortSequences DEF TypeOK, BusType
    <3>2. Len(bus'.tx) <= 2 /\ Len(bus'.rx) <= 2
      BY <2>3, ShortSequences DEF TypeOK, BusType
    <3>3. drv' \in DrvType
      BY <2>3, ShortSequences DEF TypeOK, DrvType
    <3>4. Len(drv'.data) <= REG_COUNT
      BY <2>3, ShortSequences, Limits DEF TypeOK, DrvType
    <3> QED
      BY <2>1, <3>1, <3>2, <3>3, <3>4 DEF TypeOK
  <2>5. ControlInv'
    BY <2>1, <2>2, <2>3
    DEF TypeOK, BusType, DrvType, ControlInv, BusInv, Starting, Addressed, Connected,
        Transferring, Given, Stages, Held
  <2>6. DataInv'
    BY <2>1, <2>2, <2>3
    DEF TypeOK, ControlInv, Transferring, Held, DataInv, PointerSet, PointerComing,
        InOrder, ToldInv
  <2> QED
    BY <2>4, <2>5, <2>6 DEF IInv
<1> QED
  BY <1>1, <1>2

LEMMA ReadByteKeeps ==
  ASSUME IInv, InDriver, ReadByte
  PROVE  IInv'
<1> USE DEF IInv, At
<1>1. CASE Len(drv.data) = drv.want
  <2>1. /\ At("read") /\ job = "fetch" /\ Len(drv.data) = REG_COUNT
        /\ drv' = [drv EXCEPT !.pc = "done", !.res = REG_COUNT]
        /\ UNCHANGED <<bus, dev, job, time, regs, dt, found, left>>
    BY <1>1 DEF InDriver, ReadByte, Return, data, ControlInv, Stages, TypeOK
  <2>2. TypeOK'
    <3>1. drv' \in DrvType /\ Len(drv'.data) <= REG_COUNT
      BY <2>1, Limits DEF TypeOK, DrvType
    <3> QED
      BY <2>1, <3>1 DEF TypeOK
  <2>3. ControlInv'
    BY <2>1
    DEF TypeOK, ControlInv, BusInv, Starting, Addressed, Connected, Transferring, Given,
        Stages, Held
  <2>4. DataInv'
    BY <2>1 DEF TypeOK, DrvType, DataInv, PointerSet, InOrder, Following, ToldInv
  <2> QED
    BY <2>2, <2>3, <2>4 DEF IInv
<1>2. CASE Len(drv.data) # drv.want
  <2>1. /\ At("read") /\ job = "fetch" /\ bus.rx # << >> /\ Len(drv.data) # REG_COUNT
        /\ bus' = [bus EXCEPT !.rx = Tail(bus.rx)]
        /\ drv' = [drv EXCEPT !.data = Append(drv.data, Head(bus.rx))]
        /\ UNCHANGED <<dev, job, time, regs, dt, found, left>>
    BY <1>2 DEF InDriver, ReadByte, RxNE, data, ControlInv, Stages, TypeOK
  <2> DEFINE k == Len(drv.data)
             n == Len(bus.rx)
  <2>2. /\ Tail(bus.rx) \in Seq(Pointer) /\ Len(Tail(bus.rx)) = n - 1
        /\ n \in Nat \ {0} /\ Head(bus.rx) \in Pointer /\ Head(bus.rx) = bus.rx[1]
        /\ \A i \in 1 .. n - 1 : Tail(bus.rx)[i] = bus.rx[i + 1]
    BY <2>1, TailOf DEF TypeOK, BusType
  <2>3. /\ Append(drv.data, Head(bus.rx)) \in Seq(Pointer)
        /\ Len(Append(drv.data, Head(bus.rx))) = k + 1 /\ k \in Nat
        /\ Append(drv.data, Head(bus.rx))[k + 1] = Head(bus.rx)
        /\ \A i \in 1 .. k : Append(drv.data, Head(bus.rx))[i] = drv.data[i]
    BY <2>2, AppendTo DEF TypeOK, DrvType
  <2>4. k + 1 <= REG_COUNT
    BY <2>1, <2>3, Limits DEF TypeOK
  <2>5. TypeOK'
    <3>1. bus' \in BusType
      BY <2>1, <2>2 DEF TypeOK, BusType
    <3>2. Len(bus'.tx) <= 2 /\ Len(bus'.rx) <= 2
      BY <2>1, <2>2 DEF TypeOK, BusType
    <3>3. drv' \in DrvType
      BY <2>1, <2>3 DEF TypeOK, DrvType
    <3>4. Len(drv'.data) <= REG_COUNT
      BY <2>1, <2>3, <2>4 DEF TypeOK, DrvType
    <3> QED
      BY <2>1, <3>1, <3>2, <3>3, <3>4 DEF TypeOK
  <2>6. ControlInv'
    BY <2>1, <2>2
    DEF TypeOK, ControlInv, BusInv, Starting, Addressed, Connected, Transferring, Given,
        Stages, Held
  <2>7. DataInv'
    <3>1. /\ bus'.rx = Tail(bus.rx) /\ drv'.data = Append(drv.data, Head(bus.rx))
          /\ drv'.pc = "read" /\ job' = "fetch" /\ dev' = dev
      BY <2>1 DEF TypeOK
    <3>2. /\ \A i \in 1 .. k : drv.data[i] = i - 1
          /\ \A i \in 1 .. n : bus.rx[i] = Wrap(k + i - 1)
          /\ dev.ptr = Wrap(k + n)
      BY <2>1 DEF DataInv, InOrder, Following
    <3>3. Head(bus.rx) = k
      BY <2>2, <2>3, <2>4, <3>2, Limits DEF Wrap
    <3>4. \A i \in 1 .. k + 1 : drv'.data[i] = i - 1
      BY <2>3, <3>1, <3>2, <3>3
    <3>5. \A i \in 1 .. n - 1 : bus'.rx[i] = Wrap((k + 1) + i - 1)
      <4> TAKE i \in 1 .. n - 1
      <4>1. i \in Int /\ n \in Int /\ k \in Int
        BY <2>2, <2>3
      <4>2. bus'.rx[i] = bus.rx[i + 1] /\ i + 1 \in 1 .. n
        BY <2>2, <3>1
      <4>3. bus.rx[i + 1] = Wrap(k + (i + 1) - 1)
        BY <3>2, <4>2
      <4>4. k + (i + 1) - 1 = (k + 1) + i - 1
        BY <4>1
      <4> QED
        BY <4>2, <4>3, <4>4
    <3>6. dev'.ptr = Wrap((k + 1) + (n - 1))
      <4>1. \A a, b \in Int : (a + 1) + (b - 1) = a + b
        OBVIOUS
      <4>2. k \in Int /\ n \in Int
        BY <2>2, <2>3
      <4>3. (k + 1) + (n - 1) = k + n
        BY <4>1, <4>2, Zenon
      <4> QED
        BY <3>1, <3>2, <4>3
    <3>7. InOrder'
      BY <2>2, <2>3, <3>1, <3>4, <3>5, <3>6 DEF InOrder, Following
    <3> QED
      BY <3>1, <3>7, <2>1 DEF DataInv, PointerSet, ToldInv
  <2> QED
    BY <2>5, <2>6, <2>7 DEF IInv
<1> QED
  BY <1>1, <1>2

------------------------------------------------------------------------------
(***************************************************************************)
(* The controller's steps and the other master's.  With BackToBack none    *)
(* falls between the two i2c_disconnect.                                   *)
(***************************************************************************)
LEMMA StartSentKeeps ==
  ASSUME IInv, BackToBack, OnBus, StartSent, UNCHANGED drv
  PROVE  IInv'
<1> USE DEF IInv, At, OnBus, StartSent, data
<1>1. TypeOK'
  <2>1. bus' \in BusType /\ Len(bus'.tx) <= 2 /\ Len(bus'.rx) <= 2
    BY DEF TypeOK, BusType
  <2> QED
    BY <2>1 DEF TypeOK
<1>2. ControlInv'
  BY DEF TypeOK, ControlInv, BusInv, Starting, Addressed, Connected, Transferring, Given,
         Stages, Held, Succeeded
<1>3. DataInv'
  BY DEF TypeOK, ControlInv, BusInv, Connected, Transferring, Held, Succeeded, DataInv,
         PointerSet, PointerComing, InOrder, ToldInv
<1> QED
  BY <1>1, <1>2, <1>3 DEF IInv

LEMMA AddressSentKeeps ==
  ASSUME IInv, BackToBack, OnBus, AddressSent, UNCHANGED drv
  PROVE  IInv'
<1> USE DEF IInv, At
<1>1. CASE bus.target = Device
  <2>1. /\ bus.phase = "address" /\ bus.target = Device
        /\ bus' = [bus EXCEPT !.phase = "data", !.addr = TRUE]
        /\ dev' = [dev EXCEPT !.fresh = (bus.dir = "W")]
        /\ UNCHANGED <<drv, job, time, regs, dt, found, left>>
    BY <1>1 DEF OnBus, AddressSent, data
  <2>2. TypeOK'
    <3>1. bus' \in BusType /\ Len(bus'.tx) <= 2 /\ Len(bus'.rx) <= 2
      BY <2>1 DEF TypeOK, BusType
    <3>3. dev' \in [ptr : Pointer, fresh : BOOLEAN]
      BY <2>1, Limits DEF TypeOK
    <3> QED
      BY <2>1, <3>1, <3>3 DEF TypeOK
  <2>3. ControlInv'
    BY <2>1
    DEF TypeOK, ControlInv, BusInv, Starting, Addressed, Connected, Transferring, Given,
        Stages, Held, Succeeded
  <2>4. DataInv'
    <3>1. bus'.phase = "data" /\ bus'.addr /\ UNCHANGED <<bus.tx, bus.rx, bus.dir, dev.ptr>>
      BY <2>1 DEF TypeOK, BusType
    <3>2. bus.tx = << >> /\ bus.dir \in {"W", "R"}
      BY <2>1 DEF TypeOK, BusType, ControlInv, BusInv
    <3>3. job \notin {"point", "again", "fetch"}
      BY <2>1 DEF ControlInv, Transferring, Stages, Held
    <3>4. job \in {"connect", "reconnect"} => ~Succeeded
      BY <2>1 DEF ControlInv, Connected, Held
    <3> QED
      BY <2>1, <3>1, <3>2, <3>3, <3>4
      DEF DataInv, PointerSet, PointerComing, InOrder, ToldInv, Succeeded
  <2> QED
    BY <2>2, <2>3, <2>4 DEF IInv
<1>2. CASE bus.target # Device
  <2>1. /\ bus.phase = "address" /\ bus.target # Device
        /\ bus' = [bus EXCEPT !.phase = "refused"]
        /\ UNCHANGED <<dev, drv, job, time, regs, dt, found, left>>
    BY <1>2 DEF OnBus, AddressSent, data
  <2>2. TypeOK'
    <3>1. bus' \in BusType /\ Len(bus'.tx) <= 2 /\ Len(bus'.rx) <= 2
      BY <2>1 DEF TypeOK, BusType
    <3> QED
      BY <2>1, <3>1 DEF TypeOK
  <2>3. ControlInv'
    BY <2>1
    DEF TypeOK, ControlInv, BusInv, Starting, Addressed, Connected, Transferring, Given,
        Stages, Held, Succeeded
  <2>4. DataInv'
    BY <2>1
    DEF TypeOK, ControlInv, Connected, Transferring, Held, Succeeded, DataInv, PointerSet,
        PointerComing, InOrder, ToldInv
  <2> QED
    BY <2>2, <2>3, <2>4 DEF IInv
<1> QED
  BY <1>1, <1>2

LEMMA ByteSentKeeps ==
  ASSUME IInv, BackToBack, OnBus, ByteSent, UNCHANGED drv
  PROVE  IInv'
<1> USE DEF IInv, At
<1>1. /\ bus.phase = "data" /\ bus.tx # << >>
      /\ bus' = [bus EXCEPT !.tx = Tail(bus.tx)]
      /\ dev' = [ptr |-> IF dev.fresh THEN Head(bus.tx) ELSE (dev.ptr + 1) % REG_COUNT,
                  fresh |-> FALSE]
      /\ UNCHANGED <<drv, job, time, regs, dt, found, left>>
  BY DEF OnBus, ByteSent, data
<1>2. /\ Tail(bus.tx) \in Seq(Pointer) /\ Len(Tail(bus.tx)) = Len(bus.tx) - 1
      /\ Head(bus.tx) \in Pointer
  BY <1>1, TailOf DEF TypeOK, BusType
<1>3. bus.dir = "W" /\ ~bus.addr
  BY <1>1 DEF ControlInv, BusInv
<1>4. TypeOK'
  <2>1. bus' \in BusType
    BY <1>1, <1>2 DEF TypeOK, BusType
  <2>2. Len(bus'.tx) <= 2 /\ Len(bus'.rx) <= 2
    BY <1>1, <1>2 DEF TypeOK, BusType
  <2>3. (dev.ptr + 1) % REG_COUNT \in Pointer
    BY NextPointer DEF TypeOK
  <2>4. dev' \in [ptr : Pointer, fresh : BOOLEAN]
    BY <1>1, <1>2, <2>3 DEF TypeOK
  <2> QED
    BY <1>1, <2>1, <2>2, <2>4 DEF TypeOK
<1>5. ControlInv'
  BY <1>1, <1>2, <1>3
  DEF TypeOK, BusType, ControlInv, BusInv, Starting, Addressed, Connected, Transferring,
      Given, Stages, Held, Succeeded
<1>6. DataInv'
  <2>1. bus'.phase = bus.phase /\ bus'.dir = bus.dir /\ bus'.tx = Tail(bus.tx)
    BY <1>1 DEF TypeOK, BusType
  <2>2. ASSUME PointerComing
        PROVE  PointerComing'
    <3>1. bus.tx = <<0>> /\ dev.fresh
      BY <1>1, <2>2 DEF PointerComing
    <3>2. bus'.tx = << >> /\ dev'.ptr = 0
      BY <1>1, <2>1, <3>1, ShortSequences
    <3> QED
      BY <2>1, <2>2, <3>2 DEF PointerComing
  <2>3. drv.data = <<0>> => drv.data # << >>
    BY ShortSequences
  <2>4. PointerSet'
    BY <1>1, <1>3, <2>2, <2>3
    DEF ControlInv, BusInv, Addressed, Starting, Connected, Held, Stages, Succeeded,
        DataInv, PointerSet
  <2>5. InOrder'
    BY <1>1, <1>3 DEF ControlInv, Connected, Transferring, Held, Stages, Succeeded, InOrder
  <2> QED
    BY <1>1, <2>4, <2>5 DEF DataInv, ToldInv
<1> QED
  BY <1>4, <1>5, <1>6 DEF IInv

LEMMA ByteReceivedKeeps ==
  ASSUME IInv, BackToBack, OnBus, ByteReceived, UNCHANGED drv
  PROVE  IInv'
<1> USE DEF IInv, At
<1>1. /\ bus.phase = "data" /\ bus.dir = "R" /\ ~bus.addr /\ Len(bus.rx) < 2
      /\ bus' = [bus EXCEPT !.rx = Append(bus.rx, dev.ptr)]
      /\ dev' = [dev EXCEPT !.ptr = (dev.ptr + 1) % REG_COUNT]
      /\ UNCHANGED <<drv, job, time, regs, dt, found, left>>
  BY DEF OnBus, ByteReceived, data
<1> DEFINE n == Len(bus.rx)
<1>2. /\ Append(bus.rx, dev.ptr) \in Seq(Pointer) /\ Len(Append(bus.rx, dev.ptr)) = n + 1
      /\ n \in Nat /\ Append(bus.rx, dev.ptr)[n + 1] = dev.ptr
      /\ \A i \in 1 .. n : Append(bus.rx, dev.ptr)[i] = bus.rx[i]
  BY AppendTo DEF TypeOK, BusType
<1>3. (dev.ptr + 1) % REG_COUNT \in Pointer
  BY NextPointer DEF TypeOK
<1>4. TypeOK'
  <2>1. bus' \in BusType
    BY <1>1, <1>2 DEF TypeOK, BusType
  <2>2. Len(bus'.tx) <= 2 /\ Len(bus'.rx) <= 2
    BY <1>1, <1>2 DEF TypeOK, BusType
  <2>3. dev' \in [ptr : Pointer, fresh : BOOLEAN]
    BY <1>1, <1>3 DEF TypeOK
  <2> QED
    BY <1>1, <2>1, <2>2, <2>3 DEF TypeOK
<1>5. ControlInv'
  BY <1>1, <1>2
  DEF TypeOK, ControlInv, BusInv, Starting, Addressed, Connected, Transferring, Given,
      Stages, Held, Succeeded
<1>6. DataInv'
  <2>1. /\ bus'.phase = "data" /\ bus'.dir = "R" /\ bus'.rx = Append(bus.rx, dev.ptr)
        /\ dev'.ptr = (dev.ptr + 1) % REG_COUNT
    BY <1>1 DEF TypeOK, BusType
  <2>2. PointerSet'
    BY <1>1
    DEF ControlInv, Starting, Addressed, Connected, Transferring, Held, Stages, Succeeded,
                DataInv, PointerSet, PointerComing
  <2>3. ASSUME NEW k \in 0 .. REG_COUNT, Following(k)
        PROVE  Following(k)'
    <3>1. dev.ptr = Wrap(k + n) /\ k + n \in 0 .. REG_COUNT + 2 /\ k + n < 2 * REG_COUNT - 1
      BY <1>1, <1>2, <2>3, Limits, Ds3231Assumption DEF Following
    <3>2. dev'.ptr = Wrap(k + n + 1)
      BY <2>1, <3>1, NextPointer
    <3>3. \A i \in 1 .. n + 1 : bus'.rx[i] = Wrap(k + i - 1)
      <4> TAKE i \in 1 .. n + 1
      <4>1. CASE i = n + 1
        BY <1>2, <2>1, <3>1, <4>1
      <4>2. CASE i \in 1 .. n
        BY <1>2, <2>1, <2>3, <4>2 DEF Following
      <4> QED
        BY <1>2, <4>1, <4>2
    <3>4. k + n + 1 = k + (n + 1)
      BY <1>2
    <3> QED
      BY <1>2, <2>1, <3>2, <3>3, <3>4 DEF Following
  <2>4. Len(drv.data) \in 0 .. REG_COUNT /\ 0 \in 0 .. REG_COUNT
    BY Limits DEF TypeOK, DrvType
  <2>5. InOrder'
    BY <1>1, <2>3, <2>4 DEF DataInv, InOrder, Succeeded
  <2> QED
    BY <1>1, <2>2, <2>5 DEF DataInv, ToldInv
<1> QED
  BY <1>4, <1>5, <1>6 DEF IInv

LEMMA StopSentKeeps ==
  ASSUME IInv, BackToBack, OnBus, StopSent, UNCHANGED drv
  PROVE  IInv'
<1> USE DEF IInv, At, OnBus, StopSent, data
<1>1. TypeOK'
  <2>1. bus' \in BusType /\ Len(bus'.tx) <= 2 /\ Len(bus'.rx) <= 2
    BY DEF TypeOK, BusType
  <2> QED
    BY <2>1 DEF TypeOK
<1>2. ControlInv'
  BY DEF TypeOK, ControlInv, BusInv, Starting, Addressed, Connected, Transferring, Given,
         Stages, Held, Succeeded
<1>3. DataInv'
  BY DEF TypeOK, ControlInv, Connected, Transferring, Held, Succeeded, DataInv,
         PointerSet, PointerComing, InOrder, ToldInv
<1> QED
  BY <1>1, <1>2, <1>3 DEF IInv

LEMMA OtherKeeps ==
  ASSUME IInv, OtherMaster, UNCHANGED <<job, data, left>>
  PROVE  IInv'
<1> USE DEF IInv, At
<1>1. CASE bus.owner = "free"
  <2>1. /\ bus.owner = "free" /\ bus' = [bus EXCEPT !.owner = "other"]
        /\ UNCHANGED <<dev, drv, job, time, regs, dt, found, left>>
    BY <1>1 DEF OtherMaster, data
  <2>2. TypeOK'
    <3>1. bus' \in BusType /\ Len(bus'.tx) <= 2 /\ Len(bus'.rx) <= 2
      BY <2>1 DEF TypeOK, BusType
    <3> QED
      BY <2>1, <3>1 DEF TypeOK
  <2>3. ControlInv'
    BY <2>1
    DEF TypeOK, ControlInv, BusInv, Starting, Addressed, Connected, Transferring, Given,
        Stages, Held, Succeeded
  <2>4. DataInv'
    BY <2>1
    DEF TypeOK, ControlInv, Connected, Transferring, Held, Succeeded, DataInv, PointerSet,
        PointerComing, InOrder, ToldInv
  <2> QED
    BY <2>2, <2>3, <2>4 DEF IInv
<1>2. CASE bus.owner = "other"
  <2>1. /\ bus.owner = "other" /\ bus' = [bus EXCEPT !.owner = "free", !.stop = FALSE]
        /\ UNCHANGED <<dev, drv, job, time, regs, dt, found, left>>
    BY <1>2 DEF OtherMaster, data
  <2>2. TypeOK'
    <3>1. bus' \in BusType /\ Len(bus'.tx) <= 2 /\ Len(bus'.rx) <= 2
      BY <2>1 DEF TypeOK, BusType
    <3> QED
      BY <2>1, <3>1 DEF TypeOK
  <2>3. ControlInv'
    BY <2>1
    DEF TypeOK, ControlInv, BusInv, Starting, Addressed, Connected, Transferring, Given,
        Stages, Held, Succeeded
  <2>4. DataInv'
    BY <2>1
    DEF TypeOK, ControlInv, Connected, Transferring, Held, Succeeded, DataInv, PointerSet,
        PointerComing, InOrder, ToldInv
  <2> QED
    BY <2>2, <2>3, <2>4 DEF IInv
<1> QED
  BY <1>1, <1>2 DEF OtherMaster

------------------------------------------------------------------------------
\* The invariant holds at the start, and every step keeps it.
LEMMA InitInv == Init => IInv
<1> SUFFICES ASSUME Init PROVE IInv
  OBVIOUS
<1> USE DEF Init, BusInit, Free, NoCall, At
<1>1. TypeOK
  <2>1. bus \in BusType /\ Len(bus.tx) <= 2 /\ Len(bus.rx) <= 2
    BY Limits, ShortSequences DEF BusType
  <2>2. drv \in DrvType /\ Len(drv.data) <= REG_COUNT
    BY Limits, ShortSequences DEF DrvType
  <2>3. dev \in [ptr : Pointer, fresh : BOOLEAN]
    BY Limits
  <2>4. regs \in [1 .. REG_COUNT -> 0 .. 255]
    OBVIOUS
  <2> QED
    BY <2>1, <2>2, <2>3, <2>4 DEF TypeOK
<1>2. ControlInv
  BY DEF ControlInv, BusInv, Starting, Addressed, Connected, Transferring, Given, Stages
<1>3. DataInv
  BY DEF DataInv, PointerSet, InOrder, ToldInv
<1> QED
  BY <1>1, <1>2, <1>3 DEF IInv

LEMMA NextInv ==
  ASSUME IInv, BackToBack, [Next]_vars
  PROVE  IInv'
<1>1. CASE Refresh
  BY <1>1, RefreshKeeps
<1>2. ASSUME NEW x \in Addresses, Probe(x)
      PROVE  IInv'
  BY <1>2, ProbeKeeps
<1>3. CASE Application
  BY <1>3, SetPointerKeeps, EndPointKeeps, DisconnectAgainKeeps, ReconnectKeeps, FetchKeeps,
     EndFetchKeeps, ToldKeeps, FailedKeeps, PresentKeeps DEF Application
<1>4. CASE InDriver
  BY <1>4, PollBusyKeeps, RequestStartKeeps, PollSbKeeps, SendAddressKeeps, PollAddrKeeps,
     TimedOutKeeps, NoAnswerKeeps, WriteByteKeeps, ReadByteKeeps DEF InDriver, Driver
<1>5. CASE OnBus
  BY <1>5, StartSentKeeps, AddressSentKeeps, ByteSentKeeps, ByteReceivedKeeps, StopSentKeeps
  DEF OnBus, Controller
<1>6. CASE OtherMaster /\ UNCHANGED <<job, data, left>>
  BY <1>6, OtherKeeps
<1>7. CASE UNCHANGED vars
  <2>1. UNCHANGED <<bus, dev, drv, time, job, regs, dt, found, left>>
    BY <1>7 DEF vars
  <2>2. TypeOK'
    BY <2>1 DEF IInv, TypeOK
  <2>3. ControlInv'
    BY <2>1
    DEF IInv, ControlInv, BusInv, Starting, Addressed, Connected, Transferring, Given,
        Stages, Held, Succeeded, At
  <2>4. DataInv'
    BY <2>1
    DEF IInv, DataInv, PointerSet, PointerComing, InOrder, Following, ToldInv, Succeeded,
        At
  <2> QED
    BY <2>2, <2>3, <2>4 DEF IInv
<1> QED
  BY <1>1, <1>2, <1>3, <1>4, <1>5, <1>6, <1>7 DEF Next

\* ds3231_get_date_time reads back what the clock's registers stand for.
LEMMA DigitsRead ==
  /\ \A n \in 0 .. 59 : parse_seconds(Bcd(n)) = n /\ parse_minutes(Bcd(n)) = n
  /\ \A n \in 0 .. 23 : parse_hours(Bcd(n)) = n
<1>1. ASSUME NEW n \in 0 .. 59
      PROVE  parse_seconds(Bcd(n)) = n /\ parse_minutes(Bcd(n)) = n
  BY SMT DEF Bcd, parse_seconds, parse_minutes
<1>2. ASSUME NEW n \in 0 .. 23
      PROVE  parse_hours(Bcd(n)) = n
  BY SMT DEF Bcd, parse_hours
<1> QED
  BY <1>1, <1>2

\* Each parser undoes the coding of its register, but for misread hours.
LEMMA ReadsTheClock ==
  ASSUME NEW t \in Times
  PROVE  /\ parse_seconds(Register(t, 0)) = t.sec /\ parse_minutes(Register(t, 1)) = t.min
         /\ ~t.twelve \/ t.hour \in 13 .. 23 => parse_hours(Register(t, 2)) = t.hour
<1>1. /\ t.hour \in 0 .. 23 /\ t.min \in 0 .. 59 /\ t.sec \in 0 .. 59 /\ t.twelve \in BOOLEAN
  BY Ds3231Assumption
<1>2. /\ Register(t, 0) = Bcd(t.sec) /\ Register(t, 1) = Bcd(t.min)
      /\ Register(t, 2) = HourRegister(t)
  BY DEF Register
<1>3. ASSUME ~t.twelve
      PROVE  parse_hours(HourRegister(t)) = t.hour
  BY <1>1, <1>3, DigitsRead DEF HourRegister
<1>4. ASSUME t.twelve, t.hour \in 13 .. 23
      PROVE  parse_hours(HourRegister(t)) = t.hour
  <2>1. ((t.hour + 11) % 12) + 1 = t.hour - 12
    BY <1>4
  <2>2. HourRegister(t) = 96 + Bcd(t.hour - 12)
    BY <1>4, <2>1 DEF HourRegister
  <2> QED
    BY <1>4, <2>2 DEF parse_hours, Bcd
<1> QED
  BY <1>1, <1>2, <1>3, <1>4, DigitsRead

LEMMA InvariantHolds == ASSUME BackToBack PROVE Spec => []IInv
<1>1. IInv /\ [Next]_vars => IInv'
  BY NextInv
<1> QED
  BY InitInv, <1>1, PTL DEF Spec

\* Whatever is polled how often and whoever else takes the bus, the driver's
\* and the controller's state is well typed, and no more than two bytes wait.
THEOREM BusTyped == ASSUME BackToBack PROVE Spec => []TypeOK
<1>1. IInv => TypeOK
  BY DEF IInv
<1> QED
  BY <1>1, InvariantHolds, PTL

\* For any limit on polling i2c_connect returns zero only if the device asked
\* for has answered this connection and the bus is held for it.
THEOREM ConnectedIsHeld == ASSUME BackToBack PROVE Spec => []HeldIfConnected
<1>1. IInv => HeldIfConnected
  BY DEF IInv, TypeOK, ControlInv, Connected, Given, Stages, Held, Succeeded,
         HeldIfConnected
<1> QED
  BY <1>1, InvariantHolds, PTL

\* For any number of registers, any times and any failures before, the time
\* that is told is what the clock shows, but for hours in twelve hour mode.
THEOREM ClockIsTold == ASSUME BackToBack PROVE Spec => []TimeTold
<1>1. IInv => TimeTold
  <2> SUFFICES ASSUME IInv, job = "told" PROVE TimeTold
    BY DEF TimeTold
  <2>1. /\ time \in Times /\ dt = Parsed(regs)
        /\ regs = [i \in 1 .. REG_COUNT |-> Register(time, i - 1)]
    BY DEF IInv, TypeOK, DataInv, ToldInv
  <2>2. 1 \in 1 .. REG_COUNT /\ 2 \in 1 .. REG_COUNT /\ 3 \in 1 .. REG_COUNT
    BY Limits, Ds3231Assumption
  <2>3. /\ regs[1] = Register(time, 0) /\ regs[2] = Register(time, 1)
        /\ regs[3] = Register(time, 2)
    BY <2>1, <2>2
  <2> QED
    BY <2>1, <2>3, ReadsTheClock DEF Parsed, TimeTold, MisreadHour
<1> QED
  BY <1>1, InvariantHolds, PTL
=============================================================================
