-------------------------------- MODULE Board --------------------------------
(***************************************************************************)
(* A board from reset to a running application: reset.S, init_system,      *)
(* core_init and rcc_init, with the oscillators getting ready in their own *)
(* time, then the set-up calls main makes, in any order and again, with an *)
(* interrupt handler that drives a pin in between.  A reset may come at    *)
(* any moment; it clears the registers and leaves the RAM as it is.        *)
(***************************************************************************)
EXTENDS Rates

CONSTANTS Boards,      \* the boards
          Bauds, BusSpeeds, CanSpeeds, PwmFreqs, Duties, Delays,   \* arguments
          MainPin, IsrPin,    \* pins of port A, set by main and by the handler
          Quiet        \* the handler leaves its pin alone while main sets a
                       \* pin's pull resistor (gpio.c:91-99)

\* The PLL multiplies a crystal at least by three (on the v307 the code of the
\* factor two is that of eighteen).
ASSUME BoardAssumption ==
  /\ Boards \subseteq Board
  /\ \A b \in Boards : b.hse % 8 = 0 /\ 3 * b.hse <= MAX_SYSCLK
  /\ Quiet \in BOOLEAN

\* What a field holds that has n values.
Below(n) == {i \in Nat : i < n}

\* The clocks that the drivers of board b reckon with once rcc_init is through.
Settled(b) ==
  LET input == IF b.hse # 0 THEN b.hse ELSE InputAtStart(b)
      cfgr == [sw |-> 2, hpre |-> 0, ppre1 |-> 5, ppre2 |-> 0,
               pllsrc |-> IF b.hse # 0 THEN 1 ELSE 0, pllmul |-> PllMul(b, input)]
  IN [id \in ClockIds |-> rcc_get_clk_freq(b, cfgr, input, id)]

\* The drivers check no rate: these are the ones whose divisors their registers
\* hold.  25 * pclk is computed in 32 bits (usart.c:128); the mantissa of BRR
\* has twelve, FREQ six, CCR twelve (the code writes four where standard mode
\* asks for less), BRP ten and ATRLR sixteen.
ASSUME RatesFit ==
  /\ Bauds \union BusSpeeds \union CanSpeeds \union PwmFreqs \subseteq Nat \ {0}
  /\ Duties \union Delays \subseteq Nat
  /\ \A b \in Boards :
       LET c == Settled(b) IN
       /\ c.PCLK2 < 171799 /\ c.PCLK1 < 64000
       /\ \A baud \in Bauds : Hundredths(c.PCLK2, baud) < 409600
       /\ \A speed \in BusSpeeds, duty_cycle \in {"2", "16_9"} :
            LET ccr == (1000 * c.PCLK1) \div (speed * PerStep(speed, duty_cycle))
            IN ccr < 4096 /\ (Fast(speed) \/ 3 <= ccr)
       /\ \A speed \in CanSpeeds : Btr(c.PCLK1, speed) - 1 \in Below(1024)
       /\ \A freq \in PwmFreqs : Atrlr(c.TIM2, freq) < 65536

VARIABLES
  board,
  pc,      \* where reset.S, rcc_init or main stands
  ram,     \* rcc_pll_input_clk (.data) and _us_tick_count (.bss)
  hw,      \* the registers
  dr,      \* a local of gpio_pin_init
  asked    \* history: what main and the handler have asked for since reset

vars == <<board, pc, ram, hw, dr, asked>>

Pin == {MainPin, IsrPin}
Garbage == 1
NoDuty == -1            \* none asked for
Lowest == 7
DmaIrq == 30
Irqs == {30, 31}        \* two interrupts with their priorities in one register

ResetValues ==
  [hse |-> "off", pll |-> "off",                              \* RCC CTLR
   cfgr |-> [sw |-> 0, hpre |-> 0, ppre1 |-> 0, ppre2 |-> 0, pllsrc |-> 0, pllmul |-> 0],
   en |-> {}, rst |-> [k \in Block |-> {}],                   \* RCC, peripherals
   prio |-> [i \in Irqs |-> 0],                               \* PFIC
   brr |-> 0,                                                 \* USART1
   freq |-> 0, ckcfgr |-> 0, rtr |-> 0,                       \* I2C1
   brp |-> 0, silm |-> FALSE,                                 \* CAN1
   tim |-> [atrlr |-> 0, ch1cvr |-> 0, cc1e |-> FALSE],       \* TIM2
   cmp |-> 0,                                                 \* SysTick
   mode |-> [p \in Pin |-> 4], outdr |-> [p \in Pin |-> 0]]   \* GPIO A

NothingAsked ==
  [baud |-> 0, bus |-> 0, duty_cycle |-> "2", can |-> 0, silent |-> FALSE, pwm |-> 0,
   duty |-> NoDuty, duty_at |-> 0,     \* the PWM frequency when duty was asked for
   caught |-> FALSE,                   \* a peripheral of the timer's block was reset
   delay |-> 0, prio |-> Lowest,
   mode |-> [p \in Pin |-> 4], out |-> [p \in Pin |-> 0]]

Init ==
  /\ board \in Boards
  /\ pc = "data"
  /\ ram = [pll_input |-> Garbage, us_ticks |-> Garbage]
  /\ hw = ResetValues
  /\ dr = hw.outdr
  /\ asked = NothingAsked

Reset ==
  /\ pc' = "data" /\ hw' = ResetValues /\ dr' = hw'.outdr /\ asked' = NothingAsked
  /\ UNCHANGED <<board, ram>>

------------------------------------------------------------------------------
(***************************************************************************)
(* reset.S and rcc_init.                                                   *)
(***************************************************************************)
Goto(from, to) == pc = from /\ pc' = to

CopyData ==
  /\ Goto("data", "bss")
  /\ ram' = [ram EXCEPT !.pll_input = InputAtStart(board)]
  /\ UNCHANGED <<board, hw, dr, asked>>

ClearBss ==
  /\ Goto("bss", "core")
  /\ ram' = [ram EXCEPT !.us_ticks = 0]
  /\ UNCHANGED <<board, hw, dr, asked>>

CoreInit ==
  /\ Goto("core", IF board.hse # 0 THEN "hse" ELSE "pll")
  /\ hw' = [hw EXCEPT !.prio = [i \in Irqs |-> Lowest]]
  /\ UNCHANGED <<board, ram, dr, asked>>

HseOn ==
  /\ Goto("hse", "hserdy")
  /\ hw' = [hw EXCEPT !.hse = "starting"]
  /\ UNCHANGED <<board, ram, dr, asked>>

TakeHse ==
  /\ Goto("hserdy", "pll") /\ hw.hse = "ready"
  /\ hw' = [hw EXCEPT !.cfgr.pllsrc = 1]
  /\ ram' = [ram EXCEPT !.pll_input = board.hse]
  /\ UNCHANGED <<board, dr, asked>>

ConfigurePll ==
  /\ Goto("pll", "pllrdy")
  /\ hw' = [hw EXCEPT !.cfgr.pllmul = PllMul(board, ram.pll_input),
                      !.cfgr.hpre = 0, !.cfgr.ppre1 = 5, !.cfgr.ppre2 = 0,
                      !.pll = "starting"]
  /\ UNCHANGED <<board, ram, dr, asked>>

Switch ==
  /\ Goto("pllrdy", "sws") /\ hw.pll = "ready"
  /\ hw' = [hw EXCEPT !.cfgr.sw = 2]
  /\ UNCHANGED <<board, ram, dr, asked>>

\* SWS follows SW; reset.S then turns interrupts on and enters main.
EnterMain ==
  Goto("sws", "main") /\ UNCHANGED <<board, ram, hw, dr, asked>>

OscillatorReady ==
  /\ \/ hw.hse = "starting" /\ hw' = [hw EXCEPT !.hse = "ready"]
     \/ hw.pll = "starting" /\ hw' = [hw EXCEPT !.pll = "ready"]
  /\ UNCHANGED <<board, pc, ram, dr, asked>>

Boot == CopyData \/ ClearBss \/ CoreInit \/ HseOn \/ TakeHse \/ ConfigurePll
        \/ Switch \/ EnterMain \/ OscillatorReady

------------------------------------------------------------------------------
(***************************************************************************)
(* The set-up calls of main.  A device is written to once its clock is on, *)
(* as every application does.                                              *)
(***************************************************************************)
Frequency(id) == rcc_get_clk_freq(board, hw.cfgr, ram.pll_input, id)
InMain == pc = "main" /\ UNCHANGED <<board, pc, dr>>
Usable(id) == InMain /\ Clocked(hw.en, id)

EnableClock(id) ==
  /\ InMain
  /\ hw' = [hw EXCEPT !.en = rcc_set_peripheral_clk(@, id, TRUE)]
  /\ UNCHANGED <<ram, asked>>

\* What a timer holds that may be held in reset.
Held(rst, tim) == IF HeldInReset(rst, "TIM2") THEN ResetValues.tim ELSE tim
AfterReset(id, regs) ==
  LET rst == rcc_reset_peripherial(regs.rst, id)
  IN [regs EXCEPT !.rst = rst, !.tim = Held(rst, @)]

usart_cfg(baud) ==
  /\ Usable("USART1")
  /\ hw' = [hw EXCEPT !.brr = Brr(Frequency("PCLK2"), baud)]
  /\ asked' = [asked EXCEPT !.baud = baud]
  /\ UNCHANGED ram

i2c_cfg(speed, duty_cycle) ==
  /\ Usable("I2C1")
  /\ LET pclk1 == Frequency("PCLK1") IN
       hw' = [AfterReset("I2C1", hw) EXCEPT !.freq = I2cFreq(pclk1), !.rtr = Rtr(pclk1, speed),
                                            !.ckcfgr = Ckcfgr(pclk1, speed, duty_cycle)]
  /\ asked' = [asked EXCEPT !.bus = speed, !.duty_cycle = duty_cycle, !.caught = TRUE]
  /\ UNCHANGED ram

\* SILM is only ever set: the controller is not reset in between.
can_init(speed, silent) ==
  /\ InMain
  /\ hw' = [AfterReset("CAN1", hw) EXCEPT
              !.en = rcc_set_peripheral_clk(@, "CAN1", TRUE),
              !.brp = Btr(Frequency("PCLK1"), speed) - 1, !.silm = @ \/ silent]
  /\ asked' = [asked EXCEPT !.can = speed, !.silent = @ \/ silent, !.caught = TRUE]
  /\ UNCHANGED ram

can_deinit ==
  /\ InMain /\ asked.can # 0
  /\ hw' = [AfterReset("CAN1", hw) EXCEPT !.en = rcc_set_peripheral_clk(@, "CAN1", FALSE)]
  /\ asked' = [asked EXCEPT !.can = 0, !.caught = TRUE]
  /\ UNCHANGED ram

\* The channel is left as it was.
gptm_config_for_pwm(freq) ==
  /\ Usable("TIM2")
  /\ hw' = [hw EXCEPT !.tim = Held(hw.rst, [@ EXCEPT !.atrlr = Atrlr(Frequency("TIM2"), freq)])]
  /\ asked' = [asked EXCEPT !.pwm = freq]
  /\ UNCHANGED ram

\* The channel is disabled when its share of the period comes to nothing.
WithDuty(tim, chcvr) ==
  [tim EXCEPT !.ch1cvr = IF chcvr # 0 THEN chcvr ELSE @, !.cc1e = chcvr # 0]

gptm_set_pwm_duty(duty) ==
  /\ Usable("TIM2") /\ asked.pwm # 0
  /\ hw' = [hw EXCEPT !.tim = Held(hw.rst, WithDuty(@, Chcvr(@.atrlr, duty)))]
  /\ asked' = [asked EXCEPT !.duty = duty, !.duty_at = asked.pwm]
  /\ UNCHANGED ram

core_delay_us(duration) ==
  /\ InMain
  /\ ram' = [ram EXCEPT !.us_ticks = IF @ = 0 THEN UsTicks(Frequency("HCLK")) ELSE @]
  /\ hw' = [hw EXCEPT !.cmp = duration * ram'.us_ticks]
  /\ asked' = [asked EXCEPT !.delay = duration]

core_pfic_set_int_priority(prio) ==
  /\ InMain
  /\ hw' = [hw EXCEPT !.prio[DmaIrq] = prio]
  /\ asked' = [asked EXCEPT !.prio = prio]
  /\ UNCHANGED ram

SetUp ==
  \/ \E id \in {"USART1", "I2C1", "TIM2", "IOPA"} : EnableClock(id)
  \/ \E baud \in Bauds : usart_cfg(baud)
  \/ \E speed \in BusSpeeds, duty_cycle \in {"2", "16_9"} : i2c_cfg(speed, duty_cycle)
  \/ \E speed \in CanSpeeds, silent \in BOOLEAN : can_init(speed, silent)
  \/ can_deinit
  \/ \E freq \in PwmFreqs : gptm_config_for_pwm(freq)
  \/ \E duty \in Duties : gptm_set_pwm_duty(duty)
  \/ \E duration \in Delays : core_delay_us(duration)
  \/ core_pfic_set_int_priority(0)

------------------------------------------------------------------------------
(***************************************************************************)
(* GPIO: gpio_pin_init, and the atomic set and reset of gpio_pin_set.      *)
(***************************************************************************)
PullUp == 24      \* GPIOPinMode: a PU bit on top of CNF and MODE
PullDown == 8
PushPull == 3

gpio_pin_init(p, mode) ==
  /\ pc = "main" /\ Clocked(hw.en, "IOPA")
  /\ hw' = [hw EXCEPT !.mode[p] = mode % 16]
  /\ asked' = [asked EXCEPT !.mode[p] = mode % 16,
                            !.out[p] = IF mode = PushPull THEN @ ELSE mode \div 16]
  /\ IF mode = PushPull THEN UNCHANGED <<pc, dr>>
     ELSE pc' = "outdr" /\ dr' = [hw.outdr EXCEPT ![p] = mode \div 16]
  /\ UNCHANGED <<board, ram>>

\* A mutant: the other pins of the port are written as zeros.
WriteOutdrAlone ==
  /\ Goto("outdr", "main")
  /\ hw' = [hw EXCEPT !.outdr = [p \in Pin |-> IF p = MainPin THEN dr[p] ELSE 0]]
  /\ dr' = ResetValues.outdr
  /\ UNCHANGED <<board, ram, asked>>

WriteOutdr ==
  /\ Goto("outdr", "main")
  /\ hw' = [hw EXCEPT !.outdr = dr]
  /\ dr' = ResetValues.outdr
  /\ UNCHANGED <<board, ram, asked>>

SetPin(p, val) ==
  /\ asked.mode[p] = PushPull
  /\ hw' = [hw EXCEPT !.outdr[p] = val]
  /\ asked' = [asked EXCEPT !.out[p] = val]
  /\ UNCHANGED <<board, pc, ram, dr>>

gpio_pin_set(val) == pc = "main" /\ SetPin(MainPin, val)
HandlerSetsPin(val) == (pc = "main" \/ (pc = "outdr" /\ ~Quiet)) /\ SetPin(IsrPin, val)

Pins ==
  \/ gpio_pin_init(IsrPin, PushPull)
  \/ \E mode \in {PullUp, PullDown, PushPull} : gpio_pin_init(MainPin, mode)
  \/ WriteOutdr
  \/ \E val \in {0, 1} : gpio_pin_set(val) \/ HandlerSetsPin(val)

Next == Boot \/ SetUp \/ Pins \/ Reset

Spec == Init /\ [][Next]_vars
------------------------------------------------------------------------------
TypeOK ==
  /\ board \in Boards
  /\ pc \in {"data", "bss", "core", "hse", "hserdy", "pll", "pllrdy", "sws", "main", "outdr"}
  /\ ram \in [pll_input : Nat, us_ticks : Nat]
  /\ DOMAIN hw = DOMAIN ResetValues
  /\ {hw.hse, hw.pll} \subseteq {"off", "starting", "ready"}
  /\ hw.cfgr \in [sw : {0, 2}, hpre : Below(16), ppre1 : Below(8), ppre2 : Below(8),
                  pllsrc : {0, 1}, pllmul : Below(16)]
  /\ hw.en \subseteq {PeripheralId[id] : id \in DOMAIN PeripheralId}
  /\ hw.prio \in [Irqs -> Below(8)]
  /\ {hw.brr, hw.ckcfgr, hw.rtr} \subseteq Below(65536)
  /\ hw.freq \in Below(64) /\ hw.brp \in Below(1024)
  /\ hw.tim \in [atrlr : Nat, ch1cvr : Nat, cc1e : BOOLEAN]
  /\ hw.mode \in [Pin -> Below(16)] /\ {hw.outdr, dr} \subseteq [Pin -> {0, 1}]

Hw == HardwareClock(board, hw.cfgr)

\* rcc_pll_input_clk of a v203 starts as the undivided oscillator
\* (v203/rcc.c:152): without a crystal the driver takes every clock behind the
\* PLL for twice what it is.
Overstated(b) == IF b.family = "v203" /\ b.hse = 0 THEN 2 ELSE 1
Reckoned(clock) == Overstated(board) * clock

\* Whatever the board, and however often it was reset: once main runs, the
\* PLL runs and is what the core is clocked with, rcc_get_clk_freq reports
\* what the hardware makes of the registers, or twice that on the boards of
\* Overstated, and the core is not clocked beyond its limit.  Where the factor
\* 17 is asked for, which the PLL lacks, it is exceeded by at most a
\* seventeenth (rcc.c:182: the code written stands for 18).
FrequencyReported ==
  pc \in {"main", "outdr"} =>
    /\ hw.cfgr.sw = 2 /\ hw.pll = "ready" /\ (hw.cfgr.pllsrc = 1 => hw.hse = "ready")
    /\ \A id \in ClockIds :
         Frequency(id) = IF id \in {"HSE", "HSI"} THEN Hw[id] ELSE Reckoned(Hw[id])
    /\ IF MAX_SYSCLK \div ram.pll_input = 17
       THEN 17 * Hw.SYSCLK <= 18 * MAX_SYSCLK ELSE Hw.SYSCLK <= MAX_SYSCLK

\* Every device that was set up has its clock and a divisor within one step of
\* the clock the hardware has (twice that clock on the boards of Overstated,
\* whose devices run at half the rate asked for) over the rate asked for,
\* whatever was set up after it.  Where the code does otherwise, the property
\* says what it does: BRR loses a carry (Carry), a delay a part of each tick
\* (PartOfTick); a timer loses everything once the reset of a peripheral of
\* its block was asked for (rcc.c:216); a channel keeps the share of the
\* period its duty was asked at, although another frequency is configured
\* (gptm.c:56-67), and a controller that was ever silent stays silent.
UsartRuns ==
  asked.baud # 0 =>
    LET clock == Reckoned(Hw.PCLK2) IN
    /\ Clocked(hw.en, "USART1")
    /\ Within1(clock, hw.brr + Carry(clock, asked.baud), asked.baud)
BusRuns ==
  asked.bus # 0 =>
    LET clock == Reckoned(Hw.PCLK1) IN
    /\ Clocked(hw.en, "I2C1") /\ ~HeldInReset(hw.rst, "I2C1")
    /\ hw.freq = clock \div 1000
    /\ Within1(clock, hw.ckcfgr % 4096, asked.bus * PerStep(asked.bus, asked.duty_cycle))
CanRuns ==
  /\ hw.silm = asked.silent
  /\ asked.can # 0 =>
       /\ Clocked(hw.en, "CAN1") /\ ~HeldInReset(hw.rst, "CAN1")
       /\ Within1(Reckoned(Hw.PCLK1), hw.brp + 1, TsVal * asked.can)
TimerFollows ==
  asked.pwm # 0 =>
    /\ Clocked(hw.en, "TIM2")
    /\ Within1(Reckoned(Hw.TIM2), hw.tim.atrlr + 1, asked.pwm)
ChannelFollows ==
  IF asked.duty = NoDuty THEN ~hw.tim.cc1e
  ELSE LET period == Atrlr(Reckoned(Hw.TIM2), asked.duty_at)
           error == 100 * hw.tim.ch1cvr - Percent(asked.duty) * (period + 1)
       IN IF hw.tim.cc1e THEN -200 <= error /\ error <= 200
          ELSE asked.duty * period < 100
TimerRuns ==
  IF asked.caught THEN hw.tim = ResetValues.tim ELSE TimerFollows /\ ChannelFollows
DelayLasts ==
  LET clock == Reckoned(Hw.HCLK)
  IN asked.delay # 0 =>
       hw.cmp * 8000 + asked.delay * PartOfTick(clock) = asked.delay * clock

RunsAsAsked ==
  pc \in {"main", "outdr"} =>
    /\ UsartRuns /\ BusRuns /\ CanRuns /\ TimerRuns /\ DelayLasts
    /\ hw.prio = [i \in Irqs |-> IF i = DmaIrq THEN asked.prio ELSE Lowest]

\* The mode and the level of each pin are what its owner last asked for,
\* although pins of a port share registers and the handler sets its own at
\* any time, but while a pull resistor is being set (Quiet).
PinsAsSet == pc = "main" => hw.mode = asked.mode /\ hw.outdr = asked.out
==============================================================================
