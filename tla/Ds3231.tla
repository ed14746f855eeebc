-------------------------------- MODULE Ds3231 -------------------------------
(***************************************************************************)
(* app/i2c-ds3231: a real time clock read over I2C, again and again, and   *)
(* app/i2c-scan: a connection tried at every address.                      *)
(***************************************************************************)
EXTENDS I2c

CONSTANTS Times,       \* what the clock may show: hour, min, sec, twelve
          BackToBack   \* no STOP goes out between the two i2c_disconnect
                       \* of ds3231.c:55 and 59

ASSUME Ds3231Assumption ==
  /\ Times \subseteq [hour : 0..23, min : 0..59, sec : 0..59, twelve : BOOLEAN]
  /\ BackToBack \in BOOLEAN
  /\ REG_COUNT >= 3

VARIABLES
  time,   \* what the clock shows, which does not change
  job,    \* where the application stands
  regs,   \* regs_ of struct DS3231
  dt,     \* what ds3231_get_date_time last told
  found,  \* device_present: the addresses that answered
  left    \* history: a START was requested and its wait given up

vars == <<bus, dev, drv, time, job, regs, dt, found, left>>

NoTime == [hour |-> 0, min |-> 0, sec |-> 0]

Init ==
  /\ BusInit
  /\ time \in Times
  /\ job = "idle" /\ regs = [i \in 1..REG_COUNT |-> 0] /\ dt = NoTime
  /\ found = {} /\ left = FALSE

------------------------------------------------------------------------------
(***************************************************************************)
(* The registers of the clock, two decimal digits in a byte; bit 6 of the  *)
(* hours tells twelve hour mode, in which bit 5 tells afternoon.           *)
(***************************************************************************)
Bcd(n) == 16 * (n \div 10) + (n % 10)
HourRegister(t) ==
  IF ~t.twelve THEN Bcd(t.hour)
  ELSE 64 + (IF t.hour >= 12 THEN 32 ELSE 0) + Bcd(((t.hour + 11) % 12) + 1)
Register(t, i) == CASE i = 0 -> Bcd(t.sec) [] i = 1 -> Bcd(t.min) [] i = 2 -> HourRegister(t)
                    [] OTHER -> 0

parse_seconds(b) == ((b \div 16) % 8) * 10 + (b % 16)
parse_minutes(b) == ((b \div 16) % 8) * 10 + (b % 16)
\* A mutant: the tens of the hours have one bit in either mode.
ParseHoursOneBit(b) == ((b \div 16) % 2) * 10 + (b % 16) + (IF (b \div 64) % 2 = 0 THEN 0 ELSE 12)
parse_hours(b) ==
  IF (b \div 64) % 2 = 0 THEN ((b \div 16) % 4) * 10 + (b % 16)
  ELSE ((b \div 16) % 2) * 10 + (b % 16) + 12

Parsed(r) == [sec |-> parse_seconds(r[1]), min |-> parse_minutes(r[2]),
              hour |-> parse_hours(r[3])]

------------------------------------------------------------------------------
(***************************************************************************)
(* ds3231_get_date_time with its refresh: the register pointer is written, *)
(* then all registers are read.                                            *)
(***************************************************************************)
Step(from, to) == job = from /\ job' = to
Returned(ok) == At("done") /\ (drv.res >= 0) = ok
data == <<time, regs, dt, found>>

Refresh ==
  /\ Step("idle", "connect")
  /\ Connect(Device, "W")
  /\ UNCHANGED <<bus, dev, data, left>>

SetPointer ==
  /\ Returned(TRUE) /\ Step("connect", "point")
  /\ Write(<<0>>)
  /\ UNCHANGED <<bus, dev, data, left>>

EndPoint ==
  /\ Returned(TRUE) /\ Step("point", "again")
  /\ Disconnect
  /\ UNCHANGED <<dev, drv, data, left>>

DisconnectAgain ==
  /\ Step("again", "second")
  /\ Disconnect
  /\ UNCHANGED <<dev, drv, data, left>>

Reconnect ==
  /\ Step("second", "reconnect")
  /\ Connect(Device, "R")
  /\ UNCHANGED <<bus, dev, data, left>>

Fetch ==
  /\ Returned(TRUE) /\ Step("reconnect", "fetch")
  /\ Read(REG_COUNT)
  /\ UNCHANGED <<bus, dev, data, left>>

EndFetch ==
  /\ Returned(TRUE) /\ Step("fetch", "told")
  /\ Disconnect
  /\ regs' = [i \in 1..REG_COUNT |-> Register(time, drv.data[i])]
  /\ dt' = Parsed(regs')
  /\ UNCHANGED <<dev, drv, time, found, left>>

Told ==
  /\ Step("told", "idle")
  /\ drv' = NoCall
  /\ UNCHANGED <<bus, dev, data, left>>

\* A connection that fails ends the call, or the try.
Failed ==
  /\ Returned(FALSE) /\ job \in {"connect", "reconnect", "probe"} /\ job' = "idle"
  /\ drv' = NoCall
  /\ UNCHANGED <<bus, dev, data, left>>

\* i2c-scan's loop over the addresses.
Probe(addr) ==
  /\ Step("idle", "probe")
  /\ Connect(addr, "W")
  /\ UNCHANGED <<bus, dev, data, left>>

Present ==
  /\ Returned(TRUE) /\ Step("probe", "idle")
  /\ found' = found \union {drv.addr}
  /\ Disconnect
  /\ drv' = NoCall
  /\ UNCHANGED <<dev, time, regs, dt, left>>

Application == SetPointer \/ EndPoint \/ DisconnectAgain \/ Reconnect \/ Fetch \/ EndFetch
               \/ Told \/ Failed \/ Present

InDriver ==
  /\ Driver
  /\ left' = (left \/ (At("sb") /\ drv'.pc = "done"))
  /\ UNCHANGED <<job, data>>

OnBus ==
  /\ BackToBack => job # "again"
  /\ Controller
  /\ UNCHANGED <<job, data, left>>

Next == \/ Refresh \/ \E addr \in Addresses : Probe(addr)
        \/ Application \/ InDriver \/ OnBus
        \/ OtherMaster /\ UNCHANGED <<job, data, left>>

(***************************************************************************)
(* A call goes on once begun and the controller works; the application     *)
(* need not call, and the other master need not give the bus back.         *)
(***************************************************************************)
Spec == Init /\ [][Next]_vars /\ WF_vars(Application) /\ WF_vars(InDriver) /\ WF_vars(OnBus)
------------------------------------------------------------------------------
Pointer == 0 .. REG_COUNT - 1
BusType ==
  [owner : {"free", "us", "other"}, start : BOOLEAN, stop : BOOLEAN, sb : BOOLEAN,
   addr : BOOLEAN, phase : {"none", "address", "data", "refused"}, target : Addresses,
   dir : {"W", "R"}, tx : Seq(Pointer), rx : Seq(Pointer)]
DrvType ==
  [pc : {"idle", "busy", "start", "sb", "datar", "addr", "write", "read", "done"},
   cnt : 0 .. MAX_LOOP, addr : Addresses, dir : {"W", "R"}, data : Seq(Pointer),
   want : 0 .. REG_COUNT, res : {Error} \union 0 .. REG_COUNT]

TypeOK ==
  /\ bus \in BusType /\ Len(bus.tx) <= 2 /\ Len(bus.rx) <= 2
  /\ dev \in [ptr : Pointer, fresh : BOOLEAN]
  /\ drv \in DrvType /\ Len(drv.data) <= REG_COUNT
  /\ time \in Times /\ left \in BOOLEAN
  /\ job \in {"idle", "connect", "point", "again", "second", "reconnect", "fetch", "told",
              "probe"}
  /\ found \subseteq Addresses /\ regs \in [1..REG_COUNT -> 0..255]

\* ds3231_get_date_time tells the time the clock shows, whatever transfers
\* failed or were left half way before: all registers come from one transfer
\* and from the first on.  The exception is parse_hours, which in twelve hour
\* mode adds twelve to every hour and not to those from one to eleven in the
\* afternoon only.
MisreadHour == time.twelve /\ ~(time.hour \in 13..23)
TimeTold ==
  job = "told" =>
    /\ regs = [i \in 1..REG_COUNT |-> Register(time, i - 1)]
    /\ dt.sec = time.sec /\ dt.min = time.min
    /\ dt.hour = time.hour \/ MisreadHour

\* i2c_connect returns zero only if the device at that address has just
\* answered, for the direction asked for, and the bus is held: an answer that
\* came too late for one connection is not taken for that to another.  Between
\* the calls of the application the bus is not held, or a STOP is on its way,
\* but where the wait for a START was given up: it is sent all the same, and
\* every connection after it finds the bus busy (i2c.c:149).
HeldIfConnected ==
  /\ At("done") /\ drv.res = 0 /\ job \in {"connect", "reconnect", "probe"} =>
       /\ drv.addr = Device
       /\ bus.owner = "us" /\ bus.target = drv.addr /\ bus.dir = drv.dir /\ ~bus.stop
  /\ job = "idle" /\ bus.owner = "us" => bus.stop \/ left

\* Every call returns, although i2c_read and i2c_write wait without a limit
\* and the other master may keep the bus for good.  This rests on two things:
\* that the other master only takes a bus that is free (OtherMaster), so that no
\* arbitration is lost in the middle of a transfer, and BackToBack: a STOP left
\* over from one connection would end the next under the driver's hands.
CallsReturn == job # "idle" ~> job = "idle"

\* ds3231.c:18 says: always return time in 24hr format.
Always24Hours == job = "told" => dt.hour \in 0..23
==============================================================================
