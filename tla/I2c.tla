--------------------------------- MODULE I2c ---------------------------------
(***************************************************************************)
(* lib/src/i2c.c: polled master transfers, one register access or one poll *)
(* at a time, on a controller that works on whatever the driver does, a    *)
(* bus that another master may hold, and one device with a register        *)
(* pointer.  The reads of STAR1 and STAR2 in check_status_flags are one    *)
(* step; AF, which nothing reads, is left out.                             *)
(***************************************************************************)
EXTENDS Integers, SequencesExt

CONSTANTS Device,      \* the address of the device
          Addresses,   \* the addresses that are tried
          MAX_LOOP,    \* how often a flag is polled
          REG_COUNT    \* registers of the device (DS3231_REG_COUNT)

ASSUME I2cAssumption ==
  /\ Device \in Addresses
  /\ {MAX_LOOP, REG_COUNT} \subseteq Nat \ {0}

VARIABLES
  bus,    \* the controller and the bus it drives
  dev,    \* the device: its pointer, and whether the next byte sets it
  drv     \* the call under way: where it is, its arguments and its result

Free == [owner |-> "free", start |-> FALSE, stop |-> FALSE, sb |-> FALSE, addr |-> FALSE,
         phase |-> "none", target |-> Device, dir |-> "W", tx |-> << >>, rx |-> << >>]
NoCall == [pc |-> "idle", cnt |-> 0, addr |-> Device, dir |-> "W", data |-> << >>,
           want |-> 0, res |-> 0]

BusInit == bus = Free /\ dev = [ptr |-> 0, fresh |-> FALSE] /\ drv = NoCall

------------------------------------------------------------------------------
(***************************************************************************)
(* The controller.  TxE: DATAR is empty (tx: the byte on the line, then    *)
(* DATAR); RxNE: it holds a byte (rx: DATAR, then the shift register).     *)
(***************************************************************************)
TxE == bus.phase = "data" /\ bus.dir = "W" /\ ~bus.addr /\ Len(bus.tx) < 2
RxNE == bus.rx # << >>

StartSent ==
  /\ bus.start /\ bus.owner = "free"
  /\ bus' = [bus EXCEPT !.owner = "us", !.start = FALSE, !.sb = TRUE, !.phase = "none"]
  /\ UNCHANGED dev

\* The clock is held until ADDR is cleared by reading STAR1 and STAR2.
AddressSent ==
  /\ bus.phase = "address"
  /\ IF bus.target = Device
     THEN /\ bus' = [bus EXCEPT !.phase = "data", !.addr = TRUE]
          /\ dev' = [dev EXCEPT !.fresh = (bus.dir = "W")]
     ELSE bus' = [bus EXCEPT !.phase = "refused"] /\ UNCHANGED dev

ByteSent ==
  /\ bus.phase = "data" /\ bus.tx # << >>
  /\ bus' = [bus EXCEPT !.tx = Tail(@)]
  /\ dev' = [ptr |-> IF dev.fresh THEN Head(bus.tx) ELSE (dev.ptr + 1) % REG_COUNT,
             fresh |-> FALSE]

ByteReceived ==
  /\ bus.phase = "data" /\ bus.dir = "R" /\ ~bus.addr /\ Len(bus.rx) < 2
  /\ bus' = [bus EXCEPT !.rx = Append(@, dev.ptr)]
  /\ dev' = [dev EXCEPT !.ptr = (@ + 1) % REG_COUNT]

\* STOP follows the byte on the line; without one it follows the next START.
StopSent ==
  /\ bus.stop /\ bus.owner = "us" /\ bus.phase # "address" /\ bus.tx = << >>
  /\ bus' = [bus EXCEPT !.owner = "free", !.stop = FALSE, !.phase = "none"]
  /\ UNCHANGED dev

Controller == (StartSent \/ AddressSent \/ ByteSent \/ ByteReceived \/ StopSent)
              /\ UNCHANGED drv

OtherMaster ==
  /\ \/ bus.owner = "free" /\ bus' = [bus EXCEPT !.owner = "other"]
     \/ bus.owner = "other" /\ bus' = [bus EXCEPT !.owner = "free", !.stop = FALSE]
  /\ UNCHANGED <<dev, drv>>

------------------------------------------------------------------------------
(***************************************************************************)
(* i2c_connect.                                                            *)
(***************************************************************************)
At(l) == drv.pc = l
Ready == At("idle") \/ At("done")
Return(res) == drv' = [drv EXCEPT !.pc = "done", !.res = res]
Error == -1

Connect(addr, dir) ==
  /\ Ready
  /\ drv' = [drv EXCEPT !.pc = "busy", !.cnt = MAX_LOOP, !.addr = addr, !.dir = dir]

\* A mutant of reading the status: STAR2 is not read.
PolledStar1 == bus
\* Reading STAR1 and then STAR2 clears ADDR.
Polled == [bus EXCEPT !.addr = FALSE]

\* A mutant: the flag is polled once more after the last time.
PollOnceMore(at, seen, next) ==
  /\ At(at) /\ drv.cnt >= 0
  /\ bus' = Polled
  /\ IF seen THEN next ELSE drv' = [drv EXCEPT !.cnt = @ - 1]
  /\ UNCHANGED dev

Poll(at, seen, next) ==
  /\ At(at) /\ drv.cnt > 0
  /\ bus' = Polled
  /\ IF seen THEN next ELSE drv' = [drv EXCEPT !.cnt = @ - 1]
  /\ UNCHANGED dev

PollBusy == Poll("busy", bus.owner = "free", drv' = [drv EXCEPT !.pc = "start"])
PollSb == Poll("sb", bus.sb /\ bus.owner = "us", drv' = [drv EXCEPT !.pc = "datar"])
PollAddr == Poll("addr", bus.addr, Return(0))

RequestStart ==
  /\ At("start")
  /\ bus' = [bus EXCEPT !.start = TRUE]
  /\ drv' = [drv EXCEPT !.pc = "sb", !.cnt = MAX_LOOP]
  /\ UNCHANGED dev

\* Writing DATAR clears SB and RxNE.
SendAddress ==
  /\ At("datar")
  /\ bus' = [bus EXCEPT !.sb = FALSE, !.rx = << >>, !.target = drv.addr, !.dir = drv.dir,
                        !.phase = IF bus.owner = "us" THEN "address" ELSE "none"]
  /\ drv' = [drv EXCEPT !.pc = "addr", !.cnt = MAX_LOOP]
  /\ UNCHANGED dev

\* Waiting for BUSY or for SB ends without a STOP, and without taking the
\* request for a START back.
TimedOut ==
  /\ At("busy") \/ At("sb")
  /\ drv.cnt = 0
  /\ Return(Error)
  /\ UNCHANGED <<bus, dev>>

\* A mutant: the bus is not given back.
NoAnswerNoStop ==
  /\ At("addr") /\ drv.cnt = 0
  /\ Return(Error)
  /\ UNCHANGED <<bus, dev>>

NoAnswer ==
  /\ At("addr") /\ drv.cnt = 0
  /\ bus' = [bus EXCEPT !.stop = TRUE]
  /\ Return(Error)
  /\ UNCHANGED dev

------------------------------------------------------------------------------
(***************************************************************************)
(* i2c_write, i2c_read and i2c_disconnect.  The two waits have no limit.   *)
(***************************************************************************)
Write(bytes) == Ready /\ drv' = [drv EXCEPT !.pc = "write", !.data = bytes]
Read(len) == Ready /\ drv' = [drv EXCEPT !.pc = "read", !.data = << >>, !.want = len]

WriteByte ==
  /\ At("write")
  /\ IF drv.data = << >> THEN Return(0) /\ UNCHANGED bus
     ELSE /\ TxE
          /\ bus' = [bus EXCEPT !.tx = Append(@, Head(drv.data))]
          /\ drv' = [drv EXCEPT !.data = Tail(@)]
  /\ UNCHANGED dev

ReadByte ==
  /\ At("read")
  /\ IF Len(drv.data) = drv.want THEN Return(drv.want) /\ UNCHANGED bus
     ELSE /\ RxNE
          /\ bus' = [bus EXCEPT !.rx = Tail(@)]
          /\ drv' = [drv EXCEPT !.data = Append(@, Head(bus.rx))]
  /\ UNCHANGED dev

Disconnect == bus' = [bus EXCEPT !.stop = TRUE]

Driver == PollBusy \/ RequestStart \/ PollSb \/ SendAddress \/ PollAddr \/ TimedOut
          \/ NoAnswer \/ WriteByte \/ ReadByte
==============================================================================
