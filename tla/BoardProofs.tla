----------------------------- MODULE BoardProofs -----------------------------
(***************************************************************************)
(* For every board, crystal and set of rates: main runs on the clock that  *)
(* rcc_get_clk_freq reports, or on half of it on a v203 without a crystal; *)
(* every device that was set up runs at the rate it was asked for, as far  *)
(* as RunsAsAsked says, if its divisor fits the register; and for any two  *)
(* pins of a port, each keeps what its owner gave it.                      *)
(***************************************************************************)
EXTENDS Board, TLAPS

(***************************************************************************)
(* Arithmetic.                                                             *)
(***************************************************************************)
\* A factor that the quotient allows does not take the product beyond a.
LEMMA DivBound ==
  ASSUME NEW a \in Nat, NEW b \in Nat \ {0}, NEW k \in Nat, k <= a \div b
  PROVE  k * b <= a
<1> DEFINE q == a \div b
<1>1. q \in Nat /\ q * b <= a
  BY SMT
<1>2. k * b <= q * b
  BY <1>1, SMT
<1> QED
  BY <1>1, <1>2, SMT

\* A quotient reaches a factor that the product allows.
LEMMA DivReaches ==
  ASSUME NEW a \in Nat, NEW b \in Nat \ {0}, 3 * b <= a
  PROVE  a \div b \in Nat /\ 3 <= a \div b
BY SMT

LEMMA HalfTwice == \A n \in Nat : (2 * n) \div 2 = n
BY SMT

------------------------------------------------------------------------------
(***************************************************************************)
(* The code rcc_init chooses, read back by rcc_get_clk_freq and by the     *)
(* hardware.                                                               *)
(***************************************************************************)
\* What the PLL is fed with, and the registers that rcc_init leaves.
Source(b, cfgr, input) ==
  \/ cfgr.pllsrc = 0 /\ input = InputAtStart(b) /\ b.hse = 0
  \/ cfgr.pllsrc = 1 /\ input = b.hse /\ b.hse # 0
Configured(b, cfgr, input) ==
  /\ cfgr.pllmul = PllMul(b, input)
  /\ cfgr.hpre = 0 /\ cfgr.ppre1 = 5 /\ cfgr.ppre2 = 0

\* The PLL's input is a frequency three of which fit under the limit.
LEMMA SourceFits ==
  ASSUME NEW b \in Boards, NEW cfgr, NEW input, Source(b, cfgr, input)
  PROVE  /\ input \in Nat \ {0} /\ 3 * input <= MAX_SYSCLK
         /\ b.family \in {"v203", "v307"} /\ b.hse \in Nat
<1>1. b.family \in {"v203", "v307"} /\ b.hse \in Nat /\ 3 * b.hse <= MAX_SYSCLK
  BY BoardAssumption DEF Board
<1>2. /\ HSI_FREQ \in Nat \ {0} /\ HSI_FREQ \div 2 \in Nat \ {0}
      /\ 3 * HSI_FREQ <= MAX_SYSCLK /\ 3 * (HSI_FREQ \div 2) <= MAX_SYSCLK
  BY RccFrequencies, SMT
<1> QED
  BY <1>1, <1>2 DEF Source, InputAtStart

\* The factor that the code stands for, the same for the driver (Sysclk) and
\* for the hardware (FactorTwice).
Factor(b, input) ==
  LET mul == MAX_SYSCLK \div input IN IF mul >= 17 THEN 18 ELSE mul

LEMMA CodeStandsFor ==
  ASSUME NEW b, b.family \in {"v203", "v307"}, NEW input \in Nat \ {0},
         3 * input <= MAX_SYSCLK, NEW cfgr, cfgr.pllmul = PllMul(b, input)
  PROVE  /\ Factor(b, input) \in 3..18
         /\ PllFactor(b, cfgr.pllmul) = Factor(b, input)
         /\ FactorTwice(b, cfgr.pllmul) = 2 * Factor(b, input)
         /\ MAX_SYSCLK \div input # 17 => Factor(b, input) <= MAX_SYSCLK \div input
<1> DEFINE mul == MAX_SYSCLK \div input
<1>1. mul \in Nat /\ 3 <= mul
  BY DivReaches, RccFrequencies
<1>2. CASE b.family = "v203"
  <2>1. cfgr.pllmul = IF mul >= 17 THEN 15 ELSE mul - 2
    <3> HIDE DEF mul
    <3>1. PllMul(b, input) = IF mul >= 17 THEN 15 ELSE mul - 2
      BY <1>1, <1>2, SMT DEF PllMul, mul
    <3> QED
      BY <3>1
  <2> HIDE DEF mul
  <2>2. Factor(b, input) = IF mul >= 17 THEN 18 ELSE mul
    BY DEF Factor, mul
  <2> QED
    BY <1>1, <1>2, <2>1, <2>2 DEF PllFactor, FactorTwice, mul
<1>3. CASE b.family = "v307"
  <2>1. cfgr.pllmul = IF mul >= 17 THEN 0 ELSE IF mul >= 15 THEN mul - 1 ELSE mul - 2
    <3> HIDE DEF mul
    <3>1. PllMul(b, input) = IF mul >= 17 THEN 0 ELSE IF mul >= 15 THEN mul - 1 ELSE mul - 2
      BY <1>1, <1>3, SMT DEF PllMul, mul
    <3> QED
      BY <3>1
  <2> HIDE DEF mul
  <2>2. Factor(b, input) = IF mul >= 17 THEN 18 ELSE mul
    BY DEF Factor, mul
  <2> QED
    BY <1>1, <1>3, <2>1, <2>2 DEF PllFactor, FactorTwice, mul
<1> QED
  BY <1>2, <1>3

\* What the PLL really multiplies, and the tree behind a clock s that it puts
\* out: everything runs at s, but for PCLK1, a quarter of it, and the timers on
\* that bus.
PllInput(b) == IF b.hse # 0 THEN b.hse ELSE HsiToPll
Tree(b, s) ==
  [HSE |-> b.hse, HSI |-> HSI_FREQ, SYSCLK |-> s, HCLK |-> s,
   TIM1 |-> s, TIM2 |-> 2 * (s \div 4), PCLK1 |-> s \div 4, PCLK2 |-> s]

\* The driver's input is the PLL's, or twice as much, and then a quarter of the
\* PLL's is whole.
LEMMA InputReckoned ==
  ASSUME NEW b \in Boards, NEW cfgr, NEW input, Source(b, cfgr, input)
  PROVE  /\ Overstated(b) \in {1, 2} /\ PllInput(b) \in Nat \ {0}
         /\ input = Overstated(b) * PllInput(b)
         /\ PllInput(b) = IF cfgr.pllsrc = 1 THEN b.hse ELSE HsiToPll
         /\ Overstated(b) = 2 => PllInput(b) % 4 = 0
<1>1. b.family \in {"v203", "v307"} /\ b.hse \in Nat
  BY SourceFits
<1>2. /\ HsiToPll \in Nat \ {0} /\ HsiToPll % 4 = 0 /\ HSI_FREQ = 2 * HsiToPll
  BY RccFrequencies, SMT DEF HsiToPll
<1>3. HSI_FREQ \div 2 = HsiToPll
  BY DEF HsiToPll
<1> QED
  BY <1>1, <1>2, <1>3 DEF Source, InputAtStart, PllInput, Overstated

LEMMA HardwareTree ==
  ASSUME NEW b \in Boards, NEW cfgr, NEW input, cfgr.sw = 2,
         Source(b, cfgr, input), Configured(b, cfgr, input)
  PROVE  /\ HardwareClock(b, cfgr) = Tree(b, PllInput(b) * Factor(b, input))
         /\ PllInput(b) * Factor(b, input) \in Nat
<1> DEFINE k == Factor(b, input)
           i == PllInput(b)
           s == i * k
<1>1. /\ input \in Nat \ {0} /\ 3 * input <= MAX_SYSCLK
      /\ b.family \in {"v203", "v307"} /\ b.hse \in Nat
  BY SourceFits
<1>2. k \in 3..18 /\ FactorTwice(b, cfgr.pllmul) = 2 * k
  BY <1>1, CodeStandsFor DEF Configured
<1>4. i \in Nat /\ i = IF cfgr.pllsrc = 1 THEN b.hse ELSE HsiToPll
  BY InputReckoned
<1> HIDE DEF i
<1>3. s \in Nat
  BY <1>2, <1>4
<1>5. 2 * k * i = 2 * s
  BY <1>2, <1>4
<1>6. (2 * k * i) \div 2 = s
  BY <1>3, <1>5, HalfTwice
<1>7. cfgr.hpre = 0 /\ cfgr.ppre1 = 5 /\ cfgr.ppre2 = 0
  BY DEF Configured
<1> HIDE DEF k, s
<1>8. /\ CoreFactor(cfgr.hpre) = 1 /\ BusFactor(cfgr.ppre1) = 4 /\ BusFactor(cfgr.ppre2) = 1
      /\ s \div 1 = s /\ s \div 4 \in Nat
  BY <1>3, <1>7, SMT DEF CoreFactor, BusFactor
<1>9. HardwareClock(b, cfgr)
        = [HSE |-> b.hse, HSI |-> HSI_FREQ, SYSCLK |-> s, HCLK |-> s,
           TIM1 |-> s, TIM2 |-> 2 * (s \div 4), PCLK1 |-> s \div 4, PCLK2 |-> s]
  BY <1>2, <1>4, <1>6, <1>7, <1>8 DEF HardwareClock
<1> QED
  BY <1>3, <1>9 DEF Tree, s, k, i

\* What rcc_get_clk_freq makes of the registers that rcc_init leaves.
LEMMA DriverTree ==
  ASSUME NEW b \in Boards, NEW cfgr, NEW input,
         Source(b, cfgr, input), Configured(b, cfgr, input), NEW id \in ClockIds
  PROVE  /\ rcc_get_clk_freq(b, cfgr, input, id) = Tree(b, input * Factor(b, input))[id]
         /\ input * Factor(b, input) \in Nat
<1> DEFINE k == Factor(b, input)
           s == input * k
<1>1. /\ input \in Nat \ {0} /\ 3 * input <= MAX_SYSCLK
      /\ b.family \in {"v203", "v307"} /\ b.hse \in Nat
  BY SourceFits
<1>2. k \in 3..18 /\ Sysclk(b, cfgr, input) = s
  BY <1>1, CodeStandsFor DEF Configured, Sysclk
<1>3. s \in Nat
  BY <1>1, <1>2
<1> HIDE DEF k, s
<1>7. cfgr.hpre = 0 /\ cfgr.ppre1 = 5 /\ cfgr.ppre2 = 0
  BY DEF Configured
<1>8. s \div 1 = s /\ s \div 4 \in Nat
  BY <1>3, SMT
<1>10. /\ 0 \in DOMAIN HpreDivisor /\ HpreDivisor[0] = 1
       /\ 0 \notin DOMAIN PpreDivisor
       /\ 5 \in DOMAIN PpreDivisor /\ PpreDivisor[5] = 4
  BY DEF HpreDivisor, PpreDivisor
<1>11. Hclk(b, cfgr, input) = s
  BY <1>2, <1>7, <1>8, <1>10 DEF Hclk
<1>12. Pclk(b, cfgr, input, 0) = s /\ Pclk(b, cfgr, input, 5) = s \div 4
  BY <1>10, <1>11 DEF Pclk
<1>13. TimClk(b, cfgr, input, 0) = s /\ TimClk(b, cfgr, input, 5) = 2 * (s \div 4)
  BY <1>3, <1>8, <1>12 DEF TimClk
<1>14. rcc_get_clk_freq(b, cfgr, input, id) = Tree(b, s)[id]
  BY <1>2, <1>7, <1>11, <1>12, <1>13 DEF rcc_get_clk_freq, ClockIds, Tree
<1> QED
  BY <1>3, <1>14 DEF s, k

\* A tree behind a clock that is twice as fast is twice as fast.
LEMMA TreeTwice ==
  ASSUME NEW b, NEW s \in Nat, NEW n \in {1, 2}, n = 2 => s % 4 = 0,
         NEW id \in ClockIds \ {"HSE", "HSI"}
  PROVE  Tree(b, n * s)[id] = n * Tree(b, s)[id]
<1>1. CASE n = 1
  <2>1. 1 * s = s /\ s \div 4 \in Nat
    BY SMT
  <2>2. 1 * (s \div 4) = s \div 4 /\ 1 * (2 * (s \div 4)) = 2 * (s \div 4)
    BY <2>1
  <2> QED
    BY <1>1, <2>1, <2>2 DEF Tree, ClockIds
<1>2. CASE n = 2
  <2>1. (2 * s) \div 4 = 2 * (s \div 4)
    BY <1>2, SMT
  <2> QED
    BY <1>2, <2>1 DEF Tree, ClockIds
<1> QED
  BY <1>1, <1>2

LEMMA WholeQuarters == \A i, k \in Nat : i % 4 = 0 => (i * k) % 4 = 0
<1> SUFFICES ASSUME NEW i \in Nat, NEW k \in Nat, i % 4 = 0
             PROVE  (i * k) % 4 = 0
  OBVIOUS
<1> DEFINE q == i \div 4
<1>1. q \in Nat /\ i = 4 * q
  BY SMT
<1> HIDE DEF q
<1>2. q * k \in Nat /\ i * k = 4 * (q * k)
  BY <1>1, SMT
<1>3. \A n \in Nat : (4 * n) % 4 = 0
  BY SMT
<1> QED
  BY <1>2, <1>3

\* From the registers that rcc_init leaves, rcc_get_clk_freq reports what the
\* hardware makes of them, or twice that, and the core keeps within its limit,
\* or, where the PLL lacks the factor, close to it.
LEMMA ReportsHardware ==
  ASSUME NEW b \in Boards, NEW cfgr, NEW input, cfgr.sw = 2,
         Source(b, cfgr, input), Configured(b, cfgr, input)
  PROVE  /\ \A id \in ClockIds :
              rcc_get_clk_freq(b, cfgr, input, id)
                = IF id \in {"HSE", "HSI"} THEN HardwareClock(b, cfgr)[id]
                  ELSE Overstated(b) * HardwareClock(b, cfgr)[id]
         /\ IF MAX_SYSCLK \div input = 17
            THEN 17 * HardwareClock(b, cfgr).SYSCLK <= 18 * MAX_SYSCLK
            ELSE HardwareClock(b, cfgr).SYSCLK <= MAX_SYSCLK
<1> DEFINE k == Factor(b, input)
           i == PllInput(b)
           n == Overstated(b)
           s == i * k
<1>1. /\ input \in Nat \ {0} /\ 3 * input <= MAX_SYSCLK
      /\ b.family \in {"v203", "v307"} /\ b.hse \in Nat
  BY SourceFits
<1>2. /\ n \in {1, 2} /\ i \in Nat \ {0} /\ input = n * i
      /\ n = 2 => i % 4 = 0
  BY InputReckoned
<1>3. /\ k \in 3..18
      /\ MAX_SYSCLK \div input # 17 => k <= MAX_SYSCLK \div input
  BY <1>1, CodeStandsFor DEF Configured
<1>4. HardwareClock(b, cfgr) = Tree(b, s) /\ s \in Nat
  BY HardwareTree
<1>5. \A id \in ClockIds : rcc_get_clk_freq(b, cfgr, input, id) = Tree(b, input * k)[id]
  BY DriverTree
<1>16. MAX_SYSCLK \div input = 17 => k = 18
  BY DEF Factor
<1> HIDE DEF k, i, n
<1>6. input * k = n * s
  BY <1>2, <1>3, SMT
<1>7. n = 2 => s % 4 = 0
  BY <1>2, <1>3, WholeQuarters
<1>8. s <= input * k
  BY <1>2, <1>4, <1>6, SMT
<1> HIDE DEF s
<1>9. ASSUME NEW id \in ClockIds
      PROVE  rcc_get_clk_freq(b, cfgr, input, id)
               = IF id \in {"HSE", "HSI"} THEN Tree(b, s)[id] ELSE n * Tree(b, s)[id]
  <2>1. CASE id \in {"HSE", "HSI"}
    BY <1>5, <2>1 DEF Tree
  <2>2. CASE id \notin {"HSE", "HSI"}
    BY <1>2, <1>4, <1>5, <1>6, <1>7, <2>2, TreeTwice
  <2> QED
    BY <2>1, <2>2
<1>10. Tree(b, s).SYSCLK = s
  BY DEF Tree
<1>11. ASSUME MAX_SYSCLK \div input # 17
       PROVE  s <= MAX_SYSCLK
  <2>1. k * input <= MAX_SYSCLK
    BY <1>1, <1>3, <1>11, DivBound, RccFrequencies
  <2>2. k * input = input * k /\ input * k \in Nat
    BY <1>1, <1>3, SMT
  <2> QED
    BY <1>4, <1>8, <2>1, <2>2, RccFrequencies
<1>12. ASSUME MAX_SYSCLK \div input = 17
       PROVE  17 * s <= 18 * MAX_SYSCLK
  <2>1. 17 * input <= MAX_SYSCLK
    BY <1>1, <1>12, DivBound, RccFrequencies
  <2>2. s <= input * 18
    BY <1>8, <1>12, <1>16
  <2> QED
    BY <1>1, <1>4, <2>1, <2>2, RccFrequencies
<1> QED
  BY <1>4, <1>9, <1>10, <1>11, <1>12 DEF n

------------------------------------------------------------------------------
(***************************************************************************)
(* The invariant follows rcc_init through its stages: what the RAM holds   *)
(* is garbage until .data is copied, the register and the variable change  *)
(* together when the crystal is taken, and nothing after the switch        *)
(* changes either.                                                         *)
(***************************************************************************)
Fields ==
  /\ {"hse", "pll", "cfgr"} \subseteq DOMAIN hw
  /\ hw.cfgr \in [sw : {0, 2}, hpre : Int, ppre1 : Int, ppre2 : Int, pllsrc : {0, 1},
                  pllmul : Int]
  /\ {"pll_input", "us_ticks"} \subseteq DOMAIN ram

BeforeSource ==
  pc \in {"bss", "core", "hse", "hserdy"} => ram.pll_input = InputAtStart(board)

SourceChosen ==
  pc \in {"pll", "pllrdy", "sws", "main", "outdr"} =>
    /\ Source(board, hw.cfgr, ram.pll_input)
    /\ hw.cfgr.pllsrc = 1 => hw.hse = "ready"

PllSet ==
  pc \in {"pllrdy", "sws", "main", "outdr"} => Configured(board, hw.cfgr, ram.pll_input)

Switched ==
  pc \in {"sws", "main", "outdr"} => hw.cfgr.sw = 2 /\ hw.pll = "ready"

ClockInv ==
  /\ board \in Boards
  /\ Fields
  /\ pc \in {"data", "bss", "core", "hse", "hserdy"} => hw.cfgr.pllsrc = 0
  /\ pc \in {"hse", "hserdy"} => board.hse # 0
  /\ BeforeSource
  /\ SourceChosen
  /\ PllSet
  /\ Switched

\* The parts of the state that the invariant reads.
clock == <<board, hw.hse, hw.pll, hw.cfgr, ram.pll_input>>

LEMMA InvInit == Init => ClockInv
BY DEF Init, ResetValues, ClockInv, Fields, BeforeSource, SourceChosen, PllSet, Switched

\* No call of main, and no interrupt handler, touches the clock tree.
LEMMA MainKeepsClock ==
  ASSUME Fields, SetUp \/ Pins
  PROVE  /\ pc \in {"main", "outdr"} /\ pc' \in {"main", "outdr"}
         /\ DOMAIN hw' = DOMAIN hw /\ DOMAIN ram' = DOMAIN ram
         /\ UNCHANGED clock
<1> USE DEF Fields, clock
<1>1. ASSUME NEW id, EnableClock(id)
      PROVE  /\ pc = "main" /\ pc' = "main"
             /\ DOMAIN hw' = DOMAIN hw /\ DOMAIN ram' = DOMAIN ram
             /\ UNCHANGED clock
  BY <1>1 DEF EnableClock, InMain
<1>2. ASSUME NEW baud, usart_cfg(baud)
      PROVE  /\ pc = "main" /\ pc' = "main"
             /\ DOMAIN hw' = DOMAIN hw /\ DOMAIN ram' = DOMAIN ram
             /\ UNCHANGED clock
  BY <1>2 DEF usart_cfg, Usable, InMain
<1>3. ASSUME NEW speed, NEW duty_cycle, i2c_cfg(speed, duty_cycle)
      PROVE  /\ pc = "main" /\ pc' = "main"
             /\ DOMAIN hw' = DOMAIN hw /\ DOMAIN ram' = DOMAIN ram
             /\ UNCHANGED clock
  BY <1>3 DEF i2c_cfg, Usable, InMain, AfterReset
<1>4. ASSUME NEW speed, NEW silent, can_init(speed, silent)
      PROVE  /\ pc = "main" /\ pc' = "main"
             /\ DOMAIN hw' = DOMAIN hw /\ DOMAIN ram' = DOMAIN ram
             /\ UNCHANGED clock
  BY <1>4 DEF can_init, InMain, AfterReset
<1>5. ASSUME can_deinit
      PROVE  /\ pc = "main" /\ pc' = "main"
             /\ DOMAIN hw' = DOMAIN hw /\ DOMAIN ram' = DOMAIN ram
             /\ UNCHANGED clock
  BY <1>5 DEF can_deinit, InMain, AfterReset
<1>6. ASSUME NEW freq, gptm_config_for_pwm(freq)
      PROVE  /\ pc = "main" /\ pc' = "main"
             /\ DOMAIN hw' = DOMAIN hw /\ DOMAIN ram' = DOMAIN ram
             /\ UNCHANGED clock
  BY <1>6 DEF gptm_config_for_pwm, Usable, InMain
<1>7. ASSUME NEW duty, gptm_set_pwm_duty(duty)
      PROVE  /\ pc = "main" /\ pc' = "main"
             /\ DOMAIN hw' = DOMAIN hw /\ DOMAIN ram' = DOMAIN ram
             /\ UNCHANGED clock
  BY <1>7 DEF gptm_set_pwm_duty, Usable, InMain
<1>8. ASSUME NEW duration, core_delay_us(duration)
      PROVE  /\ pc = "main" /\ pc' = "main"
             /\ DOMAIN hw' = DOMAIN hw /\ DOMAIN ram' = DOMAIN ram
             /\ UNCHANGED clock
  BY <1>8 DEF core_delay_us, InMain
<1>9. ASSUME NEW prio, core_pfic_set_int_priority(prio)
      PROVE  /\ pc = "main" /\ pc' = "main"
             /\ DOMAIN hw' = DOMAIN hw /\ DOMAIN ram' = DOMAIN ram
             /\ UNCHANGED clock
  BY <1>9 DEF core_pfic_set_int_priority, InMain
<1>10. ASSUME NEW p, NEW mode, gpio_pin_init(p, mode)
       PROVE  /\ pc \in {"main", "outdr"} /\ pc' \in {"main", "outdr"}
              /\ DOMAIN hw' = DOMAIN hw /\ DOMAIN ram' = DOMAIN ram
              /\ UNCHANGED clock
  BY <1>10 DEF gpio_pin_init
<1>11. ASSUME WriteOutdr
       PROVE  /\ pc \in {"main", "outdr"} /\ pc' \in {"main", "outdr"}
              /\ DOMAIN hw' = DOMAIN hw /\ DOMAIN ram' = DOMAIN ram
              /\ UNCHANGED clock
  BY <1>11 DEF WriteOutdr, Goto
<1>12. ASSUME NEW val, gpio_pin_set(val) \/ HandlerSetsPin(val)
       PROVE  /\ pc \in {"main", "outdr"} /\ pc' \in {"main", "outdr"}
              /\ DOMAIN hw' = DOMAIN hw /\ DOMAIN ram' = DOMAIN ram
              /\ UNCHANGED clock
  BY <1>12 DEF gpio_pin_set, HandlerSetsPin, SetPin
<1> QED
  BY <1>1, <1>2, <1>3, <1>4, <1>5, <1>6, <1>7, <1>8, <1>9, <1>10, <1>11, <1>12
  DEF SetUp, Pins

LEMMA MainKeepsInv ==
  ASSUME ClockInv, SetUp \/ Pins
  PROVE  ClockInv'
<1>1. Fields
  BY DEF ClockInv
<1>2. /\ pc \in {"main", "outdr"} /\ pc' \in {"main", "outdr"}
      /\ DOMAIN hw' = DOMAIN hw /\ DOMAIN ram' = DOMAIN ram
      /\ UNCHANGED clock
  BY <1>1, MainKeepsClock
<1>3. /\ board' = board /\ hw'.hse = hw.hse /\ hw'.pll = hw.pll /\ hw'.cfgr = hw.cfgr
      /\ ram'.pll_input = ram.pll_input
  BY <1>2 DEF clock
<1> QED
  BY <1>2, <1>3
  DEF ClockInv, Fields, BeforeSource, SourceChosen, PllSet, Switched, Source, Configured

\* One step of the start-up each.
LEMMA BootKeepsInv ==
  ASSUME ClockInv, Boot
  PROVE  ClockInv'
<1> USE DEF ClockInv, Fields, BeforeSource, SourceChosen, PllSet, Switched, Goto
<1>1. CASE CopyData
  BY <1>1 DEF CopyData
<1>2. CASE ClearBss
  BY <1>2 DEF ClearBss
<1>3. CASE CoreInit
  BY <1>3 DEF CoreInit, Source
<1>4. CASE HseOn
  BY <1>4 DEF HseOn
<1>5. CASE TakeHse
  BY <1>5 DEF TakeHse, Source
<1>6. CASE ConfigurePll
  <2>1. PllMul(board, ram.pll_input) \in Int
    <3>1. Source(board, hw.cfgr, ram.pll_input) /\ board \in Boards
      BY <1>6 DEF ConfigurePll
    <3>2. /\ ram.pll_input \in Nat \ {0} /\ 3 * ram.pll_input <= MAX_SYSCLK
          /\ board.family \in {"v203", "v307"}
      BY <3>1, SourceFits
    <3>3. MAX_SYSCLK \div ram.pll_input \in Nat
      BY <3>2, DivReaches, RccFrequencies
    <3> QED
      BY <3>2, <3>3 DEF PllMul
  <2> DEFINE Cfgr == [sw : {0, 2}, hpre : Int, ppre1 : Int, ppre2 : Int, pllsrc : {0, 1},
                      pllmul : Int]
             c == hw.cfgr
             n == hw'.cfgr
             m == PllMul(board, ram.pll_input)
  <2>2. /\ n = [c EXCEPT !.pllmul = m, !.hpre = 0, !.ppre1 = 5, !.ppre2 = 0]
        /\ hw'.hse = hw.hse /\ DOMAIN hw' = DOMAIN hw
        /\ UNCHANGED <<board, ram>> /\ pc = "pll" /\ pc' = "pllrdy"
    BY <1>6 DEF ConfigurePll
  <2>3. c \in Cfgr
    OBVIOUS
  <2>4. /\ n \in Cfgr /\ n.pllsrc = c.pllsrc /\ n.pllmul = m
        /\ n.hpre = 0 /\ n.ppre1 = 5 /\ n.ppre2 = 0
    <3>1. n = [c EXCEPT !.pllmul = m, !.hpre = 0, !.ppre1 = 5, !.ppre2 = 0] /\ m \in Int
      BY <2>1, <2>2
    <3> HIDE DEF ClockInv, Fields, BeforeSource, SourceChosen, PllSet, Switched, c, n, m
    <3>2. /\ n.pllsrc = c.pllsrc /\ n.pllmul = m /\ n.hpre = 0 /\ n.ppre1 = 5
          /\ n.ppre2 = 0 /\ n.sw = c.sw
      BY <2>3, <3>1
    <3>3. n = [sw |-> n.sw, hpre |-> n.hpre, ppre1 |-> n.ppre1, ppre2 |-> n.ppre2,
               pllsrc |-> n.pllsrc, pllmul |-> n.pllmul]
      BY <2>3, <3>1
    <3> QED
      BY <2>3, <3>1, <3>2, <3>3
  <2> QED
    BY <2>2, <2>4 DEF Source, Configured
<1>7. CASE Switch
  BY <1>7 DEF Switch, Source, Configured
<1>8. CASE EnterMain
  BY <1>8 DEF EnterMain
<1>9. CASE OscillatorReady
  BY <1>9 DEF OscillatorReady
<1> QED
  BY <1>1, <1>2, <1>3, <1>4, <1>5, <1>6, <1>7, <1>8, <1>9 DEF Boot

LEMMA InvNext == ClockInv /\ [Next]_vars => ClockInv'
<1> SUFFICES ASSUME ClockInv, [Next]_vars
             PROVE  ClockInv'
  OBVIOUS
<1>1. CASE Boot
  BY <1>1, BootKeepsInv
<1>2. CASE SetUp \/ Pins
  BY <1>2, MainKeepsInv
<1>3. CASE Reset
  BY <1>3
  DEF Reset, ResetValues, ClockInv, Fields, BeforeSource, SourceChosen, PllSet, Switched
<1>4. CASE UNCHANGED vars
  BY <1>4
  DEF vars, ClockInv, Fields, BeforeSource, SourceChosen, PllSet, Switched
<1> QED
  BY <1>1, <1>2, <1>3, <1>4 DEF Next

LEMMA InvReports == ClockInv => FrequencyReported
<1> SUFFICES ASSUME ClockInv, pc \in {"main", "outdr"}
             PROVE  /\ hw.cfgr.sw = 2 /\ hw.pll = "ready"
                    /\ hw.cfgr.pllsrc = 1 => hw.hse = "ready"
                    /\ \A id \in ClockIds :
                         Frequency(id) = IF id \in {"HSE", "HSI"} THEN Hw[id]
                                         ELSE Reckoned(Hw[id])
                    /\ IF MAX_SYSCLK \div ram.pll_input = 17
                       THEN 17 * Hw.SYSCLK <= 18 * MAX_SYSCLK ELSE Hw.SYSCLK <= MAX_SYSCLK
  BY DEF FrequencyReported
<1>1. /\ board \in Boards /\ hw.cfgr.sw = 2 /\ hw.pll = "ready"
      /\ hw.cfgr.pllsrc = 1 => hw.hse = "ready"
      /\ Source(board, hw.cfgr, ram.pll_input)
      /\ Configured(board, hw.cfgr, ram.pll_input)
  BY DEF ClockInv, SourceChosen, PllSet, Switched
<1> QED
  BY <1>1, ReportsHardware DEF Frequency, Hw, Reckoned

\* Once main runs, on any board and after any number of resets, the core runs
\* on the PLL; every frequency that rcc_get_clk_freq returns is the one the
\* hardware makes of its oscillators, whose way to the PLL is the hardware's
\* and not the driver's, or twice that on a v203 without a crystal; and the
\* core stays within its limit, or within 18/17 of it where the factor is 17.
THEOREM MainRunsOnReportedClock == Spec => []FrequencyReported
<1>1. Spec => []ClockInv
  BY InvInit, InvNext, PTL DEF Spec
<1> QED
  BY <1>1, InvReports, PTL

------------------------------------------------------------------------------
(***************************************************************************)
(* Pins.  While gpio_pin_init is between its read and its write of OUTDR   *)
(* the local variable, and not the register, is what was asked for.        *)
(***************************************************************************)
PinFields ==
  /\ {"mode", "outdr"} \subseteq DOMAIN hw
  /\ {"mode", "out"} \subseteq DOMAIN asked
  /\ asked.out = [p \in Pin |-> asked.out[p]]

PinInv ==
  /\ PinFields
  /\ hw.mode = asked.mode
  /\ pc # "outdr" => hw.outdr = asked.out
  /\ pc = "outdr" => dr = asked.out

\* What an action leaves alone that is not about pins.
KeepsPins ==
  /\ hw'.mode = hw.mode /\ hw'.outdr = hw.outdr
  /\ asked'.mode = asked.mode /\ asked'.out = asked.out
  /\ DOMAIN hw' = DOMAIN hw /\ DOMAIN asked' = DOMAIN asked
  /\ pc # "outdr" /\ pc' # "outdr"

LEMMA PinInvKept == PinInv /\ KeepsPins => PinInv'
BY DEF PinInv, KeepsPins, PinFields

LEMMA BootKeepsPins ==
  ASSUME PinFields, Boot
  PROVE  KeepsPins \/ UNCHANGED <<pc, dr, asked, hw.mode, hw.outdr, DOMAIN hw>>
<1> USE DEF PinFields, KeepsPins, Goto
<1>1. CASE CopyData
  BY <1>1 DEF CopyData
<1>2. CASE ClearBss
  BY <1>2 DEF ClearBss
<1>3. CASE CoreInit
  BY <1>3 DEF CoreInit
<1>4. CASE HseOn
  BY <1>4 DEF HseOn
<1>5. CASE TakeHse
  BY <1>5 DEF TakeHse
<1>6. CASE ConfigurePll
  BY <1>6 DEF ConfigurePll
<1>7. CASE Switch
  BY <1>7 DEF Switch
<1>8. CASE EnterMain
  BY <1>8 DEF EnterMain
<1>9. CASE OscillatorReady
  BY <1>9 DEF OscillatorReady
<1> QED
  BY <1>1, <1>2, <1>3, <1>4, <1>5, <1>6, <1>7, <1>8, <1>9 DEF Boot

LEMMA SetUpKeepsPins ==
  ASSUME PinFields, SetUp
  PROVE  KeepsPins
<1> USE DEF PinFields, KeepsPins
<1>1. ASSUME NEW id, EnableClock(id)
      PROVE  KeepsPins
  BY <1>1 DEF EnableClock, InMain
<1>2. ASSUME NEW baud, usart_cfg(baud)
      PROVE  KeepsPins
  BY <1>2 DEF usart_cfg, Usable, InMain
<1>3. ASSUME NEW speed, NEW duty_cycle, i2c_cfg(speed, duty_cycle)
      PROVE  KeepsPins
  BY <1>3 DEF i2c_cfg, Usable, InMain, AfterReset
<1>4. ASSUME NEW speed, NEW silent, can_init(speed, silent)
      PROVE  KeepsPins
  BY <1>4 DEF can_init, InMain, AfterReset
<1>5. ASSUME can_deinit
      PROVE  KeepsPins
  BY <1>5 DEF can_deinit, InMain, AfterReset
<1>6. ASSUME NEW freq, gptm_config_for_pwm(freq)
      PROVE  KeepsPins
  BY <1>6 DEF gptm_config_for_pwm, Usable, InMain
<1>7. ASSUME NEW duty, gptm_set_pwm_duty(duty)
      PROVE  KeepsPins
  BY <1>7 DEF gptm_set_pwm_duty, Usable, InMain
<1>8. ASSUME NEW duration, core_delay_us(duration)
      PROVE  KeepsPins
  BY <1>8 DEF core_delay_us, InMain
<1>9. ASSUME NEW prio, core_pfic_set_int_priority(prio)
      PROVE  KeepsPins
  BY <1>9 DEF core_pfic_set_int_priority, InMain
<1> HIDE DEF KeepsPins
<1> QED
  BY <1>1, <1>2, <1>3, <1>4, <1>5, <1>6, <1>7, <1>8, <1>9 DEF SetUp

\* The calls about pins: of main, and of the handler outside the window.
LEMMA PinsKeepInv ==
  ASSUME PinInv, Quiet, Pins
  PROVE  PinInv'
<1> USE DEF PinInv, PinFields
<1>1. ASSUME NEW p, NEW mode, gpio_pin_init(p, mode)
      PROVE  PinInv'
  <2>1. /\ pc = "main"
        /\ hw'.mode = [hw.mode EXCEPT ![p] = mode % 16] /\ hw'.outdr = hw.outdr
        /\ asked'.mode = [asked.mode EXCEPT ![p] = mode % 16]
        /\ DOMAIN hw' = DOMAIN hw /\ DOMAIN asked' = DOMAIN asked
    BY <1>1 DEF gpio_pin_init
  <2>2. CASE mode = PushPull
    <3>1. asked'.out = [asked.out EXCEPT ![p] = asked.out[p]] /\ pc' = pc
      BY <1>1, <2>2 DEF gpio_pin_init
    <3>2. asked'.out = asked.out
      BY <3>1
    <3> QED
      BY <2>1, <3>1, <3>2
  <2>3. CASE mode # PushPull
    <3>1. /\ asked'.out = [asked.out EXCEPT ![p] = mode \div 16]
          /\ pc' = "outdr" /\ dr' = [hw.outdr EXCEPT ![p] = mode \div 16]
      BY <1>1, <2>3 DEF gpio_pin_init
    <3> QED
      BY <2>1, <3>1
  <2> QED
    BY <2>2, <2>3
<1>2. CASE WriteOutdr
  BY <1>2 DEF WriteOutdr, Goto
<1>3. ASSUME NEW p, NEW val, SetPin(p, val), pc = "main"
      PROVE  PinInv'
  BY <1>3 DEF SetPin
<1>4. ASSUME NEW val, gpio_pin_set(val) \/ HandlerSetsPin(val)
      PROVE  PinInv'
  BY <1>3, <1>4 DEF gpio_pin_set, HandlerSetsPin
<1> HIDE DEF PinInv
<1> QED
  BY <1>1, <1>2, <1>4 DEF Pins

LEMMA PinInvNext ==
  ASSUME PinInv, Quiet, [Next]_vars
  PROVE  PinInv'
<1> USE DEF PinInv, PinFields
<1>1. CASE Boot
  BY <1>1, BootKeepsPins, PinInvKept
<1>2. CASE SetUp
  BY <1>2, SetUpKeepsPins, PinInvKept
<1>3. CASE Pins
  BY <1>3, PinsKeepInv
<1>4. CASE Reset
  BY <1>4 DEF Reset, ResetValues, NothingAsked
<1>5. CASE UNCHANGED vars
  BY <1>5 DEF vars
<1> QED
  BY <1>1, <1>2, <1>3, <1>4, <1>5 DEF Next

\* Whatever main sets up and however often it starts over, the mode and the
\* level of each pin are what was last asked for, when the handler leaves its
\* pin alone while main is between reading and writing OUTDR.
THEOREM PinsKeepTheirLevel == ASSUME Quiet PROVE Spec => []PinsAsSet
<1>1. Init => PinInv
  BY DEF Init, ResetValues, NothingAsked, PinInv, PinFields
<1>2. PinInv /\ [Next]_vars => PinInv'
  BY PinInvNext
<1>3. PinInv => PinsAsSet
  BY DEF PinInv, PinsAsSet
<1> QED
  BY <1>1, <1>2, <1>3, PTL DEF Spec

------------------------------------------------------------------------------
(***************************************************************************)
(* Divisors: what a driver writes is within one of the exact quotient, and *)
(* fits its register when RatesFit says so of the rate.                    *)
(***************************************************************************)
\* Products keep an order.
LEMMA TimesMonotone ==
  \A x, y, z \in Nat : x <= y => x * z <= y * z
BY SMT

\* A quotient of two numbers, times the divisor.
LEMMA Quotient ==
  ASSUME NEW a \in Nat, NEW b \in Nat \ {0}
  PROVE  LET q == a \div b IN q \in Nat /\ q * b <= a /\ a < q * b + b
BY SMT

LEMMA DividesWithinOne ==
  ASSUME NEW p \in Nat, NEW r \in Nat \ {0}, NEW q, q = (1000 * p) \div r
  PROVE  q \in Nat /\ Within1(p, q, r) /\ Within1(p, q + 1, r)
<1>1. q \in Nat /\ q * r <= 1000 * p /\ 1000 * p < q * r + r
  BY Quotient
<1>2. q * r \in Nat /\ (q + 1) * r = q * r + r
  BY <1>1, SMT
<1>3. \A e, x, n \in Nat : x <= e /\ e < x + n
        => -n <= e - x /\ e - x <= n /\ -n <= e - (x + n) /\ e - (x + n) <= n
  BY SMT
<1> QED
  BY <1>1, <1>2, <1>3 DEF Within1

\* BRR: mantissa and sixteenths.
LEMMA BrrFits ==
  ASSUME NEW p \in Nat, NEW baud \in Nat \ {0}, Hundredths(p, baud) < 409600
  PROVE  /\ Brr(p, baud) \in Below(65536)
         /\ Within1(p, Brr(p, baud) + Carry(p, baud), baud)
<1> DEFINE h == Hundredths(p, baud)
           m == h \div 100
           k == h % 100
           s == (k * 16 + 50) \div 100
<1>1. h \in Nat /\ h * baud <= 6250 * p /\ 6250 * p < h * baud + baud
  BY Quotient DEF Hundredths
<1>2. h < 409600
  OBVIOUS
<1>3. Sixteenths(p, baud) = s /\ Brr(p, baud) = (m * 16 + (s % 16)) % 65536
  BY DEF Sixteenths, Brr
<1> HIDE DEF h
<1>4. m \in Nat /\ m < 4096 /\ k \in Nat /\ k < 100 /\ h = 100 * m + k
  BY <1>1, <1>2, SMT
<1> HIDE DEF m, k
<1>5. s \in Nat /\ s <= 16 /\ 100 * s <= 16 * k + 50 /\ 16 * k + 50 < 100 * s + 100
  BY <1>4, SMT
<1> HIDE DEF s
<1>6. Brr(p, baud) = m * 16 + (s % 16) /\ Brr(p, baud) \in Below(65536)
  BY <1>3, <1>4, <1>5, SMT DEF Below
<1>7. Within1(p, Brr(p, baud) + Carry(p, baud), baud)
  <2> DEFINE d == m * 16 + s
  <2>1. Brr(p, baud) + Carry(p, baud) = d
    <3>1. CASE s = 16
      BY <1>3, <1>4, <1>6, <3>1 DEF Carry, FractionCarries
    <3>2. CASE s # 16
      BY <1>3, <1>4, <1>5, <1>6, <3>2 DEF Carry, FractionCarries
    <3> QED
      BY <3>1, <3>2
  <2>2. d \in Nat /\ 100 * d <= 16 * h + 50 /\ 16 * h <= 100 * d + 49
    BY <1>4, <1>5
  <2> HIDE DEF d
  <2>3. (100 * d) * baud <= (16 * h + 50) * baud /\ (16 * h) * baud <= (100 * d + 49) * baud
    BY <1>1, <2>2, TimesMonotone
  <2>4. /\ (100 * d) * baud = 100 * (d * baud)
        /\ (16 * h + 50) * baud = 16 * (h * baud) + 50 * baud
        /\ (16 * h) * baud = 16 * (h * baud)
        /\ (100 * d + 49) * baud = 100 * (d * baud) + 49 * baud
        /\ d * baud \in Nat /\ h * baud \in Nat
    BY <1>1, <2>2, SMT
  <2>5. \A x, y, e, n \in Nat :
          /\ 100 * x <= 16 * y + 50 * n /\ 16 * y <= 100 * x + 49 * n
          /\ y <= 6250 * e /\ 6250 * e < y + n
          => -n <= 1000 * e - x /\ 1000 * e - x <= n
    BY SMT
  <2>6. -baud <= 1000 * p - d * baud /\ 1000 * p - d * baud <= baud
    BY <1>1, <2>3, <2>4, <2>5
  <2> QED
    BY <2>1, <2>6 DEF Within1
<1> QED
  BY <1>6, <1>7

\* What RatesFit says of a bus.
CcrFits(p, speed, duty_cycle) ==
  LET ccr == (1000 * p) \div (speed * PerStep(speed, duty_cycle))
  IN ccr < 4096 /\ (Fast(speed) \/ 3 <= ccr)

\* CKCFGR, its twelve bits of CCR.
LEMMA CkcfgrFits ==
  ASSUME NEW p \in Nat, NEW speed \in Nat \ {0}, NEW duty_cycle \in {"2", "16_9"},
         CcrFits(p, speed, duty_cycle)
  PROVE  /\ Ckcfgr(p, speed, duty_cycle) \in Below(65536)
         /\ Within1(p, Ckcfgr(p, speed, duty_cycle) % 4096, speed * PerStep(speed, duty_cycle))
<1> DEFINE per == PerStep(speed, duty_cycle)
           r == speed * per
           q == (1000 * p) \div r
           reg == Ckcfgr(p, speed, duty_cycle)
<1>1. per \in {2, 3, 25}
  BY DEF PerStep
<1>2. r \in Nat \ {0}
  BY <1>1, SMT
<1>3. /\ reg = LET steps == q % 65536
               IN IF ~Fast(speed) THEN (IF steps < 4 THEN 4 ELSE steps)
                  ELSE (IF steps % 4096 = 0 THEN steps + 1 ELSE steps)
                       + (IF duty_cycle = "2" THEN 0 ELSE 16384) + 32768
      /\ q < 4096 /\ (Fast(speed) \/ 3 <= q)
  BY DEF Ckcfgr, CcrFits
<1> HIDE DEF per, r
<1>8. q = (1000 * p) \div r
  OBVIOUS
<1> HIDE DEF q, reg
<1>4. q \in Nat /\ Within1(p, q, r) /\ Within1(p, q + 1, r)
  BY <1>2, <1>8, DividesWithinOne, SMT DEF Within1
<1>5. q % 65536 = q /\ q % 4096 = q
  BY <1>3, <1>4, SMT
<1>6. CASE ~Fast(speed)
  <2>1. reg = (IF q < 4 THEN 4 ELSE q) /\ 3 <= q
    BY <1>3, <1>5, <1>6
  <2>2. reg \in Below(65536) /\ reg % 4096 \in {q, q + 1}
    BY <1>3, <1>4, <2>1, SMT DEF Below
  <2> QED
    BY <1>4, <2>2 DEF r, reg, per
<1>7. CASE Fast(speed)
  <2> DEFINE t == IF q = 0 THEN 1 ELSE q
  <2>1. reg = t + (IF duty_cycle = "2" THEN 0 ELSE 16384) + 32768
    BY <1>3, <1>5, <1>7
  <2>2. t \in Nat /\ t < 4096 /\ t \in {q, q + 1}
    BY <1>3, <1>4
  <2> HIDE DEF t
  <2>3. \A n \in Nat : n < 4096 => (n + 0 + 32768) % 4096 = n /\ (n + 16384 + 32768) % 4096 = n
    BY SMT
  <2>4. reg \in Below(65536) /\ reg % 4096 = t
    BY <2>1, <2>2, <2>3, SMT DEF Below
  <2> QED
    BY <1>4, <2>2, <2>4 DEF r, reg, per
<1> QED
  BY <1>6, <1>7 DEF reg

\* ATRLR and CHxCVR.
LEMMA DutyFits ==
  ASSUME NEW atrlr \in Nat, NEW duty \in Nat
  PROVE  LET cvr == Chcvr(atrlr, duty)
             error == 100 * cvr - Percent(duty) * (atrlr + 1)
         IN /\ cvr \in Nat /\ -200 <= error /\ error <= 200
            /\ cvr = 0 => duty * atrlr < 100
<1> DEFINE k == Percent(duty)
           cvr == Chcvr(atrlr, duty)
<1>1. k \in Nat /\ k <= 100 /\ k = IF duty > 100 THEN 100 ELSE duty
  BY DEF Percent
<1>2. cvr = (atrlr * k) \div 100
  BY DEF Chcvr
<1> HIDE DEF k, cvr
<1>3. atrlr * k \in Nat /\ k * (atrlr + 1) = atrlr * k + k
  BY <1>1, SMT
<1>4. \A n \in Nat : n \div 100 \in Nat /\ 100 * (n \div 100) <= n /\ n < 100 * (n \div 100) + 100
  BY SMT
<1>5. cvr \in Nat /\ 100 * cvr <= atrlr * k /\ atrlr * k < 100 * cvr + 100
  BY <1>2, <1>3, <1>4
<1>6. \A c, n, j \in Nat : j <= 100 /\ 100 * c <= n /\ n < 100 * c + 100
        => -200 <= 100 * c - (n + j) /\ 100 * c - (n + j) <= 200
  BY SMT
<1>7. -200 <= 100 * cvr - k * (atrlr + 1) /\ 100 * cvr - k * (atrlr + 1) <= 200
  BY <1>1, <1>3, <1>5, <1>6
<1>8. ASSUME cvr = 0
      PROVE  duty * atrlr < 100
  <2>1. atrlr * k < 100
    BY <1>5, <1>8
  <2>2. CASE k = duty
    BY <2>1, <2>2, SMT
  <2>3. CASE k = 100
    <3>1. atrlr = 0
      BY <2>1, <2>3
    <3> QED
      BY <3>1, SMT
  <2> QED
    BY <1>1, <2>2, <2>3
<1> QED
  BY <1>5, <1>7, <1>8 DEF cvr, k

\* The ticks of a delay.
LEMMA DelayFits ==
  ASSUME NEW hclk \in Nat, NEW duration \in Nat
  PROVE  /\ UsTicks(hclk) \in Nat
         /\ (duration * UsTicks(hclk)) * 8000 + duration * PartOfTick(hclk) = duration * hclk
<1> DEFINE u == UsTicks(hclk)
           t == PartOfTick(hclk)
<1>1. u \in Nat /\ t \in Nat /\ u * 8000 + t = hclk
  BY SMT DEF UsTicks, PartOfTick
<1> HIDE DEF u, t
<1>2. /\ (duration * u) * 8000 = duration * (u * 8000)
      /\ duration * (u * 8000) + duration * t = duration * (u * 8000 + t)
  BY <1>1, SMT
<1> QED
  BY <1>1, <1>2 DEF t, u

------------------------------------------------------------------------------
(***************************************************************************)
(* Every device: its registers are written by its own set-up call and by   *)
(* no other, its clock is never turned off, and the tree does not change   *)
(* while main runs, so that the divisors stay right.                       *)
(***************************************************************************)
Shapes ==
  /\ DOMAIN hw = {"hse", "pll", "cfgr", "en", "rst", "prio", "brr", "freq", "ckcfgr", "rtr",
                  "brp", "silm", "tim", "cmp", "mode", "outdr"}
  /\ DOMAIN asked = {"baud", "bus", "duty_cycle", "can", "silent", "pwm", "duty", "duty_at",
                     "caught", "delay", "prio", "mode", "out"}
  /\ DOMAIN ram = {"pll_input", "us_ticks"}

\* What the devices have of their own.
usartState == <<hw.brr, asked.baud>>
busState == <<hw.freq, hw.ckcfgr, hw.rtr, asked.bus, asked.duty_cycle>>
canState == <<hw.brp, hw.silm, asked.can, asked.silent>>
timerState == <<hw.tim, asked.pwm, asked.duty, asked.duty_at, asked.caught>>
delayState == <<hw.cmp, ram.us_ticks, asked.delay>>
prioState == <<hw.prio, asked.prio>>
pinState == <<hw.mode, hw.outdr, dr>>

\* Of the start-up calls and those about pins.
LEMMA PinsDo ==
  ASSUME Shapes, Pins
  PROVE  /\ Shapes'
         /\ UNCHANGED <<usartState, busState, canState, timerState, delayState, prioState>>
         /\ UNCHANGED <<hw.en, hw.rst, ram>>
<1> USE DEF Shapes, usartState, busState, canState, timerState, delayState, prioState
<1>1. ASSUME NEW p, NEW mode, gpio_pin_init(p, mode)
      PROVE  /\ Shapes'
             /\ UNCHANGED <<usartState, busState, canState, timerState, delayState, prioState>>
             /\ UNCHANGED <<hw.en, hw.rst, ram>>
  BY <1>1 DEF gpio_pin_init
<1>2. ASSUME WriteOutdr
      PROVE  /\ Shapes'
             /\ UNCHANGED <<usartState, busState, canState, timerState, delayState, prioState>>
             /\ UNCHANGED <<hw.en, hw.rst, ram>>
  BY <1>2 DEF WriteOutdr
<1>3. ASSUME NEW p, NEW val, SetPin(p, val)
      PROVE  /\ Shapes'
             /\ UNCHANGED <<usartState, busState, canState, timerState, delayState, prioState>>
             /\ UNCHANGED <<hw.en, hw.rst, ram>>
  BY <1>3 DEF SetPin
<1> HIDE DEF Shapes, usartState, busState, canState, timerState, delayState, prioState
<1> QED
  BY <1>1, <1>2, <1>3 DEF Pins, gpio_pin_set, HandlerSetsPin

\* Of each set-up call: what it writes, and whose state it leaves alone.
LEMMA EnableClockDoes ==
  ASSUME Shapes, NEW id, EnableClock(id)
  PROVE  /\ Shapes'
         /\ UNCHANGED <<usartState, busState, canState, timerState, delayState, prioState>>
         /\ UNCHANGED pinState
         /\ UNCHANGED <<hw.rst, ram>> /\ hw'.en = hw.en \union {PeripheralId[id]}
BY DEF Shapes, usartState, busState, canState, timerState, delayState, prioState, pinState,
       EnableClock, InMain, rcc_set_peripheral_clk

LEMMA UsartCfgDoes ==
  ASSUME Shapes, NEW baud, usart_cfg(baud)
  PROVE  /\ Shapes'
         /\ UNCHANGED <<busState, canState, timerState, delayState, prioState, pinState>>
         /\ UNCHANGED <<hw.en, hw.rst, ram>> /\ Clocked(hw.en, "USART1")
         /\ hw'.brr = Brr(Frequency("PCLK2"), baud) /\ asked'.baud = baud
BY DEF Shapes, busState, canState, timerState, delayState, prioState, pinState,
       usart_cfg, Usable, InMain

LEMMA I2cCfgDoes ==
  ASSUME Shapes, NEW speed, NEW duty_cycle, i2c_cfg(speed, duty_cycle)
  PROVE  /\ Shapes'
         /\ UNCHANGED <<usartState, canState, delayState, prioState, pinState>>
         /\ UNCHANGED <<hw.en, ram>> /\ Clocked(hw.en, "I2C1")
         /\ hw'.rst = rcc_reset_peripherial(hw.rst, "I2C1") /\ hw'.tim = Held(hw'.rst, hw.tim)
         /\ hw'.freq = I2cFreq(Frequency("PCLK1")) /\ hw'.rtr = Rtr(Frequency("PCLK1"), speed)
         /\ hw'.ckcfgr = Ckcfgr(Frequency("PCLK1"), speed, duty_cycle)
         /\ asked'.bus = speed /\ asked'.duty_cycle = duty_cycle /\ asked'.caught = TRUE
<1> USE DEF Shapes, i2c_cfg, Usable, InMain, AfterReset
<1>1. /\ Shapes' /\ UNCHANGED <<usartState, canState, delayState, prioState, pinState>>
      /\ UNCHANGED <<hw.en, ram>> /\ Clocked(hw.en, "I2C1")
  BY DEF usartState, canState, delayState, prioState, pinState
<1>2. /\ hw'.rst = rcc_reset_peripherial(hw.rst, "I2C1") /\ hw'.tim = Held(hw'.rst, hw.tim)
      /\ hw'.freq = I2cFreq(Frequency("PCLK1")) /\ hw'.rtr = Rtr(Frequency("PCLK1"), speed)
      /\ hw'.ckcfgr = Ckcfgr(Frequency("PCLK1"), speed, duty_cycle)
      /\ asked'.bus = speed /\ asked'.duty_cycle = duty_cycle /\ asked'.caught = TRUE
  OBVIOUS
<1> QED
  BY <1>1, <1>2

LEMMA CanInitDoes ==
  ASSUME Shapes, NEW speed, NEW silent \in BOOLEAN, can_init(speed, silent)
  PROVE  /\ Shapes'
         /\ UNCHANGED <<usartState, busState, delayState, prioState, pinState>>
         /\ UNCHANGED ram
         /\ hw'.en = hw.en \union {PeripheralId["CAN1"]}
         /\ hw'.rst = rcc_reset_peripherial(hw.rst, "CAN1") /\ hw'.tim = Held(hw'.rst, hw.tim)
         /\ hw'.brp = Btr(Frequency("PCLK1"), speed) - 1 /\ hw'.silm = (hw.silm \/ silent)
         /\ asked'.can = speed /\ asked'.silent = (asked.silent \/ silent) /\ asked'.caught = TRUE
<1> USE DEF Shapes, can_init, InMain, AfterReset, rcc_set_peripheral_clk
<1>1. /\ Shapes' /\ UNCHANGED <<usartState, busState, delayState, prioState, pinState>>
      /\ UNCHANGED ram
  BY DEF usartState, busState, delayState, prioState, pinState
<1>2. /\ hw'.en = hw.en \union {PeripheralId["CAN1"]}
      /\ hw'.rst = rcc_reset_peripherial(hw.rst, "CAN1") /\ hw'.tim = Held(hw'.rst, hw.tim)
      /\ hw'.brp = Btr(Frequency("PCLK1"), speed) - 1
      /\ asked'.can = speed /\ asked'.caught = TRUE
  OBVIOUS
<1>3. hw'.silm = (hw.silm \/ silent)
  OBVIOUS
<1>4. asked'.silent = (asked.silent \/ silent)
  OBVIOUS
<1> QED
  BY <1>1, <1>2, <1>3, <1>4

LEMMA CanDeinitDoes ==
  ASSUME Shapes, can_deinit
  PROVE  /\ Shapes'
         /\ UNCHANGED <<usartState, busState, delayState, prioState, pinState>>
         /\ UNCHANGED <<hw.brp, hw.silm, asked.silent, ram>>
         /\ hw'.en = hw.en \ {PeripheralId["CAN1"]}
         /\ hw'.rst = rcc_reset_peripherial(hw.rst, "CAN1") /\ hw'.tim = Held(hw'.rst, hw.tim)
         /\ asked'.can = 0 /\ asked'.caught = TRUE
<1> USE DEF Shapes, can_deinit, InMain, AfterReset, rcc_set_peripheral_clk
<1>1. /\ Shapes' /\ UNCHANGED <<usartState, busState, delayState, prioState, pinState>>
      /\ UNCHANGED <<hw.brp, hw.silm, asked.silent, ram>>
  BY DEF usartState, busState, delayState, prioState, pinState
<1>2. /\ hw'.en = hw.en \ {PeripheralId["CAN1"]}
      /\ hw'.rst = rcc_reset_peripherial(hw.rst, "CAN1") /\ hw'.tim = Held(hw'.rst, hw.tim)
      /\ asked'.can = 0 /\ asked'.caught = TRUE
  OBVIOUS
<1> QED
  BY <1>1, <1>2

LEMMA PwmCfgDoes ==
  ASSUME Shapes, NEW freq, gptm_config_for_pwm(freq)
  PROVE  /\ Shapes'
         /\ UNCHANGED <<usartState, busState, canState, delayState, prioState, pinState>>
         /\ UNCHANGED <<hw.en, hw.rst, ram>> /\ Clocked(hw.en, "TIM2")
         /\ hw'.tim = Held(hw.rst, [hw.tim EXCEPT !.atrlr = Atrlr(Frequency("TIM2"), freq)])
         /\ asked'.pwm = freq /\ UNCHANGED <<asked.duty, asked.duty_at, asked.caught>>
BY DEF Shapes, usartState, busState, canState, delayState, prioState, pinState,
       gptm_config_for_pwm, Usable, InMain

LEMMA PwmDutyDoes ==
  ASSUME Shapes, NEW duty, gptm_set_pwm_duty(duty)
  PROVE  /\ Shapes'
         /\ UNCHANGED <<usartState, busState, canState, delayState, prioState, pinState>>
         /\ UNCHANGED <<hw.en, hw.rst, asked.pwm, asked.caught, ram>>
         /\ Clocked(hw.en, "TIM2") /\ asked.pwm # 0
         /\ hw'.tim = Held(hw.rst, WithDuty(hw.tim, Chcvr(hw.tim.atrlr, duty)))
         /\ asked'.duty = duty /\ asked'.duty_at = asked.pwm
BY DEF Shapes, usartState, busState, canState, delayState, prioState, pinState,
       gptm_set_pwm_duty, Usable, InMain

LEMMA DelayDoes ==
  ASSUME Shapes, NEW duration, core_delay_us(duration)
  PROVE  /\ Shapes'
         /\ UNCHANGED <<usartState, busState, canState, timerState, prioState, pinState>>
         /\ UNCHANGED <<hw.en, hw.rst, ram.pll_input>>
         /\ ram' = [ram EXCEPT !.us_ticks = ram'.us_ticks]
         /\ ram'.us_ticks = IF ram.us_ticks = 0 THEN UsTicks(Frequency("HCLK")) ELSE ram.us_ticks
         /\ hw'.cmp = duration * ram'.us_ticks /\ asked'.delay = duration
BY DEF Shapes, usartState, busState, canState, timerState, prioState, pinState,
       core_delay_us, InMain

LEMMA PriorityDoes ==
  ASSUME Shapes, NEW prio, core_pfic_set_int_priority(prio)
  PROVE  /\ Shapes'
         /\ UNCHANGED <<usartState, busState, canState, timerState, delayState, pinState>>
         /\ UNCHANGED <<hw.en, hw.rst, ram>>
         /\ hw'.prio = [hw.prio EXCEPT ![DmaIrq] = prio] /\ asked'.prio = prio
BY DEF Shapes, usartState, busState, canState, timerState, delayState, pinState,
       core_pfic_set_int_priority, InMain

------------------------------------------------------------------------------
\* While main runs, the clocks are those of the board.
LEMMA MainClocks ==
  ASSUME ClockInv, pc \in {"main", "outdr"}
  PROVE  /\ board \in Boards
         /\ \A id \in ClockIds : Frequency(id) = Settled(board)[id]
         /\ \A id \in ClockIds \ {"HSE", "HSI"} :
              Reckoned(Hw[id]) = Settled(board)[id] /\ Settled(board)[id] \in Nat
<1> DEFINE input == ram.pll_input
           cfgr == hw.cfgr
           r == [sw |-> 2, hpre |-> 0, ppre1 |-> 5, ppre2 |-> 0,
                 pllsrc |-> IF board.hse # 0 THEN 1 ELSE 0, pllmul |-> PllMul(board, input)]
<1>1. /\ board \in Boards /\ cfgr.sw = 2
      /\ Source(board, cfgr, input) /\ Configured(board, cfgr, input)
  BY DEF ClockInv, SourceChosen, PllSet, Switched
<1>2. input = IF board.hse # 0 THEN board.hse ELSE InputAtStart(board)
  BY <1>1 DEF Source
<1>3. Settled(board) = [id \in ClockIds |-> rcc_get_clk_freq(board, r, input, id)]
  BY <1>2 DEF Settled
<1> HIDE DEF input, cfgr
<1>4. r.sw = 2 /\ Source(board, r, input) /\ Configured(board, r, input)
  BY <1>2 DEF Source, Configured
<1> HIDE DEF r
<1> DEFINE s == input * Factor(board, input)
<1>5. /\ \A id \in ClockIds : rcc_get_clk_freq(board, r, input, id) = Tree(board, s)[id]
      /\ \A id \in ClockIds : rcc_get_clk_freq(board, cfgr, input, id) = Tree(board, s)[id]
  BY <1>1, <1>4, DriverTree
<1>6. \A id \in ClockIds : Frequency(id) = Tree(board, s)[id]
  BY <1>5 DEF Frequency, cfgr, input
<1>7. \A id \in ClockIds \ {"HSE", "HSI"} : Frequency(id) = Reckoned(Hw[id])
  BY <1>1, ReportsHardware DEF Frequency, Hw, Reckoned, cfgr, input
<1>8. s \in Nat
  BY <1>1, DriverTree DEF ClockIds
<1>9. \A id \in ClockIds \ {"HSE", "HSI"} : Tree(board, s)[id] \in Nat
  <2> HIDE DEF s
  <2>1. s \div 4 \in Nat /\ 2 * (s \div 4) \in Nat
    BY <1>8, SMT
  <2> QED
    BY <1>8, <2>1 DEF Tree, ClockIds
<1> HIDE DEF s
<1>10. \A id \in ClockIds : Settled(board)[id] = Tree(board, s)[id]
  BY <1>3, <1>5
<1> QED
  BY <1>1, <1>6, <1>7, <1>9, <1>10

\* What the registers hold, rate by rate.
LEMMA Fits ==
  ASSUME NEW b \in Boards
  PROVE  LET c == Settled(b) IN
         /\ c.PCLK1 < 64000
         /\ \A baud \in Bauds : baud \in Nat \ {0} /\ Hundredths(c.PCLK2, baud) < 409600
         /\ \A speed \in BusSpeeds : speed \in Nat \ {0}
              /\ \A duty_cycle \in {"2", "16_9"} : CcrFits(c.PCLK1, speed, duty_cycle)
         /\ \A speed \in CanSpeeds : speed \in Nat \ {0} /\ Btr(c.PCLK1, speed) - 1 \in Below(1024)
         /\ \A freq \in PwmFreqs : freq \in Nat \ {0}
         /\ Duties \subseteq Nat /\ Delays \subseteq Nat
<1> DEFINE c == Settled(b)
<1>1. /\ \A baud \in Bauds : baud \in Nat \ {0}
      /\ \A speed \in BusSpeeds : speed \in Nat \ {0}
      /\ \A speed \in CanSpeeds : speed \in Nat \ {0}
      /\ \A freq \in PwmFreqs : freq \in Nat \ {0}
      /\ Duties \subseteq Nat /\ Delays \subseteq Nat
  BY RatesFit
<1>2. c.PCLK1 < 64000 /\ \A baud \in Bauds : Hundredths(c.PCLK2, baud) < 409600
  BY RatesFit
<1>3. \A speed \in BusSpeeds, duty_cycle \in {"2", "16_9"} : CcrFits(c.PCLK1, speed, duty_cycle)
  BY RatesFit DEF CcrFits
<1>4. \A speed \in CanSpeeds : Btr(c.PCLK1, speed) - 1 \in Below(1024)
  BY RatesFit
<1> HIDE DEF c
<1> QED
  BY <1>1, <1>2, <1>3, <1>4 DEF c

\* The reset registers: a block's bits are the ones of a number, so that the
\* timer, bit 0, is caught (21 and 25 are odd), and the others of the block
\* never are.
Resets == [Block -> SUBSET Below(16)]

LEMMA ResetBits ==
  ASSUME NEW rst \in Resets, NEW id \in {"I2C1", "CAN1"}
  PROVE  /\ rcc_reset_peripherial(rst, id) \in Resets
         /\ HeldInReset(rcc_reset_peripherial(rst, id), "TIM2")
         /\ ~HeldInReset(rst, id)
<1> DEFINE n == PeripheralId[id][2]
<1>1. PeripheralId[id] = <<"PB1", n>> /\ n \in {21, 25} /\ PeripheralId["TIM2"] = <<"PB1", 0>>
  BY DEF PeripheralId
<1> HIDE DEF n
<1>2. Bits(n) \subseteq Below(16) /\ 0 \in Bits(n)
  BY <1>1, SMT DEF Bits, Below
<1>3. "PB1" \in Block
  BY DEF Block
<1>4. n \notin Below(16)
  BY <1>1 DEF Below
<1>5. rst \in [Block -> SUBSET Below(16)] /\ rst["PB1"] \subseteq Below(16)
  BY <1>3 DEF Resets
<1>6. rcc_reset_peripherial(rst, id) = [rst EXCEPT !["PB1"] = Bits(n)]
  BY <1>1 DEF rcc_reset_peripherial
<1>7. /\ rcc_reset_peripherial(rst, id) \in Resets
      /\ HeldInReset(rcc_reset_peripherial(rst, id), "TIM2")
  BY <1>1, <1>2, <1>3, <1>5, <1>6 DEF Resets, HeldInReset
<1>8. ~HeldInReset(rst, id)
  BY <1>1, <1>4, <1>5 DEF HeldInReset
<1> QED
  BY <1>7, <1>8

------------------------------------------------------------------------------
(***************************************************************************)
(* What holds while main runs.  Beside what was asked for there is what    *)
(* the next call reads: the ticks of a microsecond, once computed, the     *)
(* bits of the reset registers, and the period of the timer.               *)
(***************************************************************************)
RegTypes ==
  /\ hw.en \subseteq {PeripheralId[id] : id \in DOMAIN PeripheralId}
  /\ hw.prio \in [Irqs -> Below(8)]
  /\ hw.brr \in Below(65536) /\ hw.ckcfgr \in Below(65536) /\ hw.rtr \in Below(65536)
  /\ hw.freq \in Below(64) /\ hw.brp \in Below(1024)
  /\ hw.tim \in [atrlr : Nat, ch1cvr : Nat, cc1e : BOOLEAN]
  /\ hw.rst \in Resets

PinTypes ==
  hw.mode \in [Pin -> Below(16)] /\ hw.outdr \in [Pin -> {0, 1}] /\ dr \in [Pin -> {0, 1}]

Silenced == hw.silm = asked.silent
TimerHeld ==
  /\ asked.caught => HeldInReset(hw.rst, "TIM2")
  /\ ~asked.caught => ~HeldInReset(hw.rst, "TIM2")
Period ==
  asked.pwm # 0 /\ ~asked.caught => hw.tim.atrlr = Atrlr(Reckoned(Hw.TIM2), asked.pwm)
TimerInv == TimerHeld /\ Period /\ TimerRuns
TicksKept ==
  ram.us_ticks \in Nat /\ (ram.us_ticks = 0 \/ ram.us_ticks = UsTicks(Reckoned(Hw.HCLK)))
Priorities == hw.prio = [i \in Irqs |-> IF i = DmaIrq THEN asked.prio ELSE Lowest]

DeviceInv ==
  /\ UsartRuns /\ BusRuns /\ CanRuns /\ TimerInv /\ DelayLasts
  /\ Silenced /\ TicksKept /\ Priorities

\* A device whose state a step leaves alone goes on as before.
LEMMA UsartStays ==
  ASSUME UsartRuns, Hw' = Hw, board' = board, UNCHANGED usartState,
         Clocked(hw.en, "USART1") => Clocked(hw'.en, "USART1")
  PROVE  UsartRuns'
BY DEF UsartRuns, usartState, Reckoned

LEMMA BusStays ==
  ASSUME BusRuns, Hw' = Hw, board' = board, UNCHANGED busState, hw'.rst \in Resets,
         Clocked(hw.en, "I2C1") => Clocked(hw'.en, "I2C1")
  PROVE  BusRuns'
<1>1. ~HeldInReset(hw'.rst, "I2C1")
  BY ResetBits
<1> QED
  BY <1>1 DEF BusRuns, busState, Reckoned

LEMMA CanStays ==
  ASSUME CanRuns, Hw' = Hw, board' = board, UNCHANGED canState, hw'.rst \in Resets,
         Clocked(hw.en, "CAN1") => Clocked(hw'.en, "CAN1")
  PROVE  CanRuns'
<1>1. ~HeldInReset(hw'.rst, "CAN1")
  BY ResetBits
<1> QED
  BY <1>1 DEF CanRuns, canState, Reckoned

LEMMA TimerStays ==
  ASSUME TimerInv, Hw' = Hw, board' = board, UNCHANGED timerState, hw'.rst = hw.rst,
         Clocked(hw.en, "TIM2") => Clocked(hw'.en, "TIM2")
  PROVE  TimerInv'
<1> USE DEF TimerInv, timerState, Reckoned
<1>1. TimerHeld' /\ Period'
  BY DEF TimerHeld, Period
<1>2. TimerRuns'
  BY DEF TimerRuns, TimerFollows, ChannelFollows
<1> QED
  BY <1>1, <1>2

LEMMA DelayStays ==
  ASSUME DelayLasts, TicksKept, Hw' = Hw, board' = board, UNCHANGED delayState
  PROVE  DelayLasts' /\ TicksKept'
BY DEF DelayLasts, TicksKept, delayState, Reckoned

LEMMA PriorityStays ==
  ASSUME Priorities, UNCHANGED prioState
  PROVE  Priorities'
BY DEF Priorities, prioState

LEMMA SilentStays ==
  ASSUME Silenced, UNCHANGED canState
  PROVE  Silenced'
BY DEF Silenced, canState

\* The clocks that are on stay on, but for the one that can_deinit turns off.
LEMMA ClocksStay ==
  ASSUME NEW en, NEW more
  PROVE  /\ \A id : Clocked(en, id) => Clocked(en \union more, id)
         /\ \A id \in {"USART1", "I2C1", "TIM2"} :
              Clocked(en, id) => Clocked(en \ {PeripheralId["CAN1"]}, id)
BY DEF Clocked, PeripheralId

\* What is known when one of the calls is made.
Calling ==
  /\ Shapes /\ RegTypes /\ DeviceInv
  /\ board \in Boards
  /\ \A id \in ClockIds : Frequency(id) = Settled(board)[id]
  /\ \A id \in ClockIds \ {"HSE", "HSI"} :
       Reckoned(Hw[id]) = Settled(board)[id] /\ Settled(board)[id] \in Nat

Called == Shapes' /\ RegTypes' /\ DeviceInv' /\ ram'.pll_input = ram.pll_input

\* Calls that leave every device alone.
LEMMA PinsCalled ==
  ASSUME Calling, Hw' = Hw, board' = board, Pins
  PROVE  Called
<1>1. /\ Shapes'
      /\ UNCHANGED <<usartState, busState, canState, timerState, delayState, prioState>>
      /\ UNCHANGED <<hw.en, hw.rst, ram>>
  BY PinsDo DEF Calling
<1>2. RegTypes'
  BY <1>1 DEF Calling, RegTypes, usartState, busState, canState, timerState, prioState
<1>3. hw'.rst \in Resets /\ DeviceInv
  BY <1>2 DEF RegTypes, Calling
<1>4. DeviceInv'
  BY <1>1, <1>3, UsartStays, BusStays, CanStays, TimerStays, DelayStays, PriorityStays,
     SilentStays DEF DeviceInv
<1> QED
  BY <1>1, <1>2, <1>4 DEF Called

LEMMA EnableClockCalled ==
  ASSUME Calling, Hw' = Hw, board' = board, NEW id \in {"USART1", "I2C1", "TIM2", "IOPA"}, EnableClock(id)
  PROVE  Called
<1>1. /\ Shapes'
      /\ UNCHANGED <<usartState, busState, canState, timerState, delayState, prioState>>
      /\ UNCHANGED <<hw.rst, ram>> /\ hw'.en = hw.en \union {PeripheralId[id]}
  BY EnableClockDoes DEF Calling
<1>2. RegTypes'
  <2>1. id \in DOMAIN PeripheralId
    BY DEF PeripheralId
  <2> QED
    BY <1>1, <2>1 DEF Calling, RegTypes, usartState, busState, canState, timerState, prioState
<1>3. hw'.rst \in Resets /\ DeviceInv
  BY <1>2 DEF RegTypes, Calling
<1>4. \A i : Clocked(hw.en, i) => Clocked(hw'.en, i)
  BY <1>1 DEF Clocked
<1>5. DeviceInv'
  BY <1>1, <1>3, <1>4, UsartStays, BusStays, CanStays, TimerStays, DelayStays, PriorityStays,
     SilentStays DEF DeviceInv
<1> QED
  BY <1>1, <1>2, <1>5 DEF Called

\* A baud rate.
LEMMA UsartCfgCalled ==
  ASSUME Calling, Hw' = Hw, board' = board, NEW baud \in Bauds, usart_cfg(baud)
  PROVE  Called
<1> DEFINE p == Settled(board).PCLK2
<1>1. /\ Shapes'
      /\ UNCHANGED <<busState, canState, timerState, delayState, prioState>>
      /\ UNCHANGED <<hw.en, hw.rst, ram>> /\ Clocked(hw.en, "USART1")
      /\ hw'.brr = Brr(Frequency("PCLK2"), baud) /\ asked'.baud = baud
  BY UsartCfgDoes DEF Calling
<1>2. Frequency("PCLK2") = p /\ Reckoned(Hw.PCLK2) = p /\ Reckoned(Hw.PCLK2)' = p /\ p \in Nat
  BY DEF Calling, ClockIds, Reckoned
<1>3. baud \in Nat \ {0} /\ Hundredths(p, baud) < 409600
  BY Fits DEF Calling
<1> HIDE DEF p
<1>4. /\ hw'.brr \in Below(65536)
      /\ Within1(p, hw'.brr + Carry(p, baud), baud)
  BY <1>1, <1>2, <1>3, BrrFits
<1>5. UsartRuns'
  BY <1>1, <1>2, <1>4 DEF UsartRuns
<1>6. RegTypes'
  BY <1>1, <1>4 DEF Calling, RegTypes, busState, canState, timerState, prioState
<1>7. hw'.rst \in Resets /\ DeviceInv
  BY <1>6 DEF RegTypes, Calling
<1>8. DeviceInv'
  BY <1>1, <1>5, <1>7, BusStays, CanStays, TimerStays, DelayStays, PriorityStays,
     SilentStays DEF DeviceInv
<1> QED
  BY <1>1, <1>6, <1>8 DEF Called

\* The rates of the other calls.
LEMMA FreqFits ==
  ASSUME NEW p \in Nat, p < 64000
  PROVE  I2cFreq(p) = p \div 1000 /\ I2cFreq(p) \in Below(64)
BY SMT DEF I2cFreq, Below

LEMMA RtrFits ==
  ASSUME NEW p \in Nat, NEW speed
  PROVE  Rtr(p, speed) \in Below(65536)
<1>1. \A n \in Nat : n < 61 => n + 1 \in Below(65536) /\ (n * 300) \div 1000 + 1 \in Below(65536)
  BY SMT DEF Below
<1>2. LET mhz == IF p \div 1000 >= 60 THEN 60 ELSE p \div 1000
      IN mhz \in Nat /\ mhz < 61
  BY SMT
<1> QED
  BY <1>1, <1>2 DEF Rtr

LEMMA BtrFits ==
  ASSUME NEW p \in Nat, NEW speed \in Nat \ {0}
  PROVE  /\ (Btr(p, speed) - 1) + 1 = Btr(p, speed)
         /\ Within1(p, Btr(p, speed), TsVal * speed)
<1> DEFINE q == Btr(p, speed)
           r == TsVal * speed
<1>1. r \in Nat \ {0}
  BY SMT DEF TsVal
<1>2. q = (1000 * p) \div r
  BY DEF Btr
<1> HIDE DEF q, r
<1>3. q \in Nat /\ Within1(p, q, r) /\ Within1(p, q + 1, r)
  BY <1>1, <1>2, DividesWithinOne, SMT DEF Within1
<1>4. (q - 1) + 1 = q
  BY <1>3, SMT
<1> QED
  BY <1>3, <1>4 DEF q, r

LEMMA AtrlrFits ==
  ASSUME NEW p \in Nat, NEW freq \in Nat \ {0}
  PROVE  Atrlr(p, freq) \in Nat /\ Within1(p, Atrlr(p, freq) + 1, freq)
<1> DEFINE q == Atrlr(p, freq)
<1>1. q = (1000 * p) \div freq
  BY DEF Atrlr
<1> HIDE DEF q
<1>2. q \in Nat /\ Within1(p, q, freq) /\ Within1(p, q + 1, freq)
  BY <1>1, DividesWithinOne, SMT DEF Within1
<1> QED
  BY <1>2 DEF q

\* A timer in reset, or not, is a timer.
LEMMA HeldIsTimer ==
  ASSUME NEW rst, NEW tim \in [atrlr : Nat, ch1cvr : Nat, cc1e : BOOLEAN]
  PROVE  Held(rst, tim) \in [atrlr : Nat, ch1cvr : Nat, cc1e : BOOLEAN]
BY DEF Held, ResetValues

\* A reset asked for by a device of the timer's block catches the timer.
LEMMA ResetCatches ==
  ASSUME hw.rst \in Resets, hw.tim \in [atrlr : Nat, ch1cvr : Nat, cc1e : BOOLEAN],
         NEW id \in {"I2C1", "CAN1"}, asked'.caught = TRUE,
         hw'.rst = rcc_reset_peripherial(hw.rst, id), hw'.tim = Held(hw'.rst, hw.tim)
  PROVE  /\ hw'.rst \in Resets /\ TimerInv'
         /\ hw'.tim \in [atrlr : Nat, ch1cvr : Nat, cc1e : BOOLEAN]
<1>1. hw'.rst \in Resets /\ HeldInReset(hw'.rst, "TIM2")
  BY ResetBits
<1>2. hw'.tim = ResetValues.tim
  BY <1>1 DEF Held
<1>3. TimerHeld' /\ Period' /\ TimerRuns'
  BY <1>1, <1>2 DEF TimerHeld, Period, TimerRuns
<1> QED
  BY <1>1, <1>3, HeldIsTimer DEF TimerInv

\* The calls that reset a device of the timer's block.
LEMMA I2cCfgCalled ==
  ASSUME Calling, Hw' = Hw, board' = board, NEW speed \in BusSpeeds, NEW duty_cycle \in {"2", "16_9"},
         i2c_cfg(speed, duty_cycle)
  PROVE  Called
<1> DEFINE p == Settled(board).PCLK1
<1>1. /\ Shapes'
      /\ UNCHANGED <<usartState, canState, delayState, prioState>>
      /\ UNCHANGED <<hw.en, ram>> /\ Clocked(hw.en, "I2C1")
      /\ hw'.rst = rcc_reset_peripherial(hw.rst, "I2C1") /\ hw'.tim = Held(hw'.rst, hw.tim)
      /\ hw'.freq = I2cFreq(Frequency("PCLK1")) /\ hw'.rtr = Rtr(Frequency("PCLK1"), speed)
      /\ hw'.ckcfgr = Ckcfgr(Frequency("PCLK1"), speed, duty_cycle)
      /\ asked'.bus = speed /\ asked'.duty_cycle = duty_cycle /\ asked'.caught = TRUE
  BY I2cCfgDoes DEF Calling
<1>2. Frequency("PCLK1") = p /\ Reckoned(Hw.PCLK1) = p /\ Reckoned(Hw.PCLK1)' = p /\ p \in Nat
  BY DEF Calling, ClockIds, Reckoned
<1>3. speed \in Nat \ {0} /\ CcrFits(p, speed, duty_cycle) /\ p < 64000
  BY Fits DEF Calling
<1> HIDE DEF p
<1>4. /\ hw'.ckcfgr \in Below(65536)
      /\ Within1(p, hw'.ckcfgr % 4096, speed * PerStep(speed, duty_cycle))
  BY <1>1, <1>2, <1>3, CkcfgrFits
<1>5. hw'.freq = p \div 1000 /\ hw'.freq \in Below(64) /\ hw'.rtr \in Below(65536)
  BY <1>1, <1>2, <1>3, FreqFits, RtrFits
<1>6. /\ hw'.rst \in Resets /\ TimerInv'
      /\ hw'.tim \in [atrlr : Nat, ch1cvr : Nat, cc1e : BOOLEAN]
  <2>1. hw.rst \in Resets /\ hw.tim \in [atrlr : Nat, ch1cvr : Nat, cc1e : BOOLEAN]
    BY DEF Calling, RegTypes
  <2> QED
    BY <1>1, <2>1, ResetCatches
<1>7. ~HeldInReset(hw'.rst, "I2C1")
  BY <1>6, ResetBits
<1>8. BusRuns'
  BY <1>1, <1>2, <1>4, <1>5, <1>7 DEF BusRuns
<1>9. RegTypes'
  BY <1>1, <1>4, <1>5, <1>6 DEF Calling, RegTypes, usartState, canState, prioState
<1>10. DeviceInv
  BY DEF Calling
<1>11. DeviceInv'
  BY <1>1, <1>6, <1>8, <1>10, UsartStays, CanStays, DelayStays, PriorityStays, SilentStays
  DEF DeviceInv
<1> QED
  BY <1>1, <1>9, <1>11 DEF Called

LEMMA CanInitCalled ==
  ASSUME Calling, Hw' = Hw, board' = board, NEW speed \in CanSpeeds, NEW silent \in BOOLEAN,
         can_init(speed, silent)
  PROVE  Called
<1> DEFINE p == Settled(board).PCLK1
<1>1. /\ Shapes'
      /\ UNCHANGED <<usartState, busState, delayState, prioState>>
      /\ UNCHANGED ram
      /\ hw'.en = hw.en \union {PeripheralId["CAN1"]}
      /\ hw'.rst = rcc_reset_peripherial(hw.rst, "CAN1") /\ hw'.tim = Held(hw'.rst, hw.tim)
      /\ hw'.brp = Btr(Frequency("PCLK1"), speed) - 1
      /\ asked'.can = speed /\ asked'.caught = TRUE
  BY CanInitDoes DEF Calling
<1>2. hw'.silm = (hw.silm \/ silent) /\ asked'.silent = (asked.silent \/ silent)
  BY CanInitDoes DEF Calling
<1>3. Frequency("PCLK1") = p /\ Reckoned(Hw.PCLK1) = p /\ Reckoned(Hw.PCLK1)' = p /\ p \in Nat
  BY DEF Calling, ClockIds, Reckoned
<1>4. speed \in Nat \ {0} /\ Btr(p, speed) - 1 \in Below(1024)
  BY Fits DEF Calling
<1> HIDE DEF p
<1>5. hw'.brp \in Below(1024) /\ Within1(p, hw'.brp + 1, TsVal * speed)
  BY <1>1, <1>3, <1>4, BtrFits
<1>6. /\ hw'.rst \in Resets /\ TimerInv'
      /\ hw'.tim \in [atrlr : Nat, ch1cvr : Nat, cc1e : BOOLEAN]
  <2>1. hw.rst \in Resets /\ hw.tim \in [atrlr : Nat, ch1cvr : Nat, cc1e : BOOLEAN]
    BY DEF Calling, RegTypes
  <2> QED
    BY <1>1, <2>1, ResetCatches
<1>7. ~HeldInReset(hw'.rst, "CAN1") /\ Clocked(hw'.en, "CAN1")
  BY <1>1, <1>6, ResetBits DEF Clocked
<1>8. Silenced'
  <2>1. hw.silm = asked.silent
    BY DEF Silenced, Calling, DeviceInv
  <2> QED
    BY <1>2, <2>1 DEF Silenced
<1>9. CanRuns'
  <2>1. hw'.silm = asked'.silent
    BY <1>8 DEF Silenced
  <2> QED
    BY <1>1, <1>3, <1>5, <1>7, <2>1 DEF CanRuns
<1>10. RegTypes'
  <2>1. PeripheralId["CAN1"] \in {PeripheralId[id] : id \in DOMAIN PeripheralId}
    BY DEF PeripheralId
  <2> QED
    BY <1>1, <1>5, <1>6, <2>1 DEF Calling, RegTypes, usartState, busState, prioState
<1>11. DeviceInv /\ \A i : Clocked(hw.en, i) => Clocked(hw'.en, i)
  BY <1>1 DEF Calling, Clocked
<1>12. DeviceInv'
  BY <1>1, <1>6, <1>8, <1>9, <1>11, UsartStays, BusStays, DelayStays, PriorityStays
  DEF DeviceInv
<1> QED
  BY <1>1, <1>10, <1>12 DEF Called

LEMMA CanDeinitCalled ==
  ASSUME Calling, Hw' = Hw, board' = board, can_deinit
  PROVE  Called
<1>1. /\ Shapes'
      /\ UNCHANGED <<usartState, busState, delayState, prioState>>
      /\ UNCHANGED <<hw.brp, hw.silm, asked.silent, ram>>
      /\ hw'.en = hw.en \ {PeripheralId["CAN1"]}
      /\ hw'.rst = rcc_reset_peripherial(hw.rst, "CAN1") /\ hw'.tim = Held(hw'.rst, hw.tim)
      /\ asked'.can = 0 /\ asked'.caught = TRUE
  BY CanDeinitDoes DEF Calling
<1>2. /\ hw'.rst \in Resets /\ TimerInv'
      /\ hw'.tim \in [atrlr : Nat, ch1cvr : Nat, cc1e : BOOLEAN]
  <2>1. hw.rst \in Resets /\ hw.tim \in [atrlr : Nat, ch1cvr : Nat, cc1e : BOOLEAN]
    BY DEF Calling, RegTypes
  <2> QED
    BY <1>1, <2>1, ResetCatches
<1>3. CanRuns' /\ Silenced'
  <2>1. hw.silm = asked.silent
    BY DEF Silenced, Calling, DeviceInv
  <2> QED
    BY <1>1, <2>1 DEF CanRuns, Silenced
<1>4. RegTypes'
  BY <1>1, <1>2 DEF Calling, RegTypes, usartState, busState, prioState
<1>5. \A i \in {"USART1", "I2C1", "TIM2"} : Clocked(hw.en, i) => Clocked(hw'.en, i)
  BY <1>1, ClocksStay
<1>6. DeviceInv
  BY DEF Calling
<1>7. DeviceInv'
  BY <1>1, <1>2, <1>3, <1>5, <1>6, UsartStays, BusStays, DelayStays, PriorityStays
  DEF DeviceInv
<1> QED
  BY <1>1, <1>4, <1>7 DEF Called

\* A timer that is caught stays as it came out of reset, and one that is not
\* takes what is written to it.
LEMMA TimerWritten ==
  ASSUME TimerHeld, NEW tim
  PROVE  /\ asked.caught => Held(hw.rst, tim) = ResetValues.tim
         /\ ~asked.caught => Held(hw.rst, tim) = tim
BY DEF TimerHeld, Held

\* The calls about the timer itself.
LEMMA PwmCfgCalled ==
  ASSUME Calling, Hw' = Hw, board' = board, NEW freq \in PwmFreqs, gptm_config_for_pwm(freq)
  PROVE  Called
<1> DEFINE p == Settled(board).TIM2
           tim == [hw.tim EXCEPT !.atrlr = Atrlr(p, freq)]
<1>1. /\ Shapes'
      /\ UNCHANGED <<usartState, busState, canState, delayState, prioState>>
      /\ UNCHANGED <<hw.en, hw.rst, ram>> /\ Clocked(hw.en, "TIM2")
      /\ hw'.tim = Held(hw.rst, [hw.tim EXCEPT !.atrlr = Atrlr(Frequency("TIM2"), freq)])
      /\ asked'.pwm = freq /\ UNCHANGED <<asked.duty, asked.duty_at, asked.caught>>
  BY PwmCfgDoes DEF Calling
<1>2. Frequency("TIM2") = p /\ Reckoned(Hw.TIM2) = p /\ Reckoned(Hw.TIM2)' = p /\ p \in Nat
  BY DEF Calling, ClockIds, Reckoned
<1>3. freq \in Nat \ {0}
  BY Fits DEF Calling
<1> HIDE DEF p
<1>4. Atrlr(p, freq) \in Nat /\ Within1(p, Atrlr(p, freq) + 1, freq)
  BY <1>2, <1>3, AtrlrFits
<1>5. hw.tim \in [atrlr : Nat, ch1cvr : Nat, cc1e : BOOLEAN] /\ hw.rst \in Resets
  BY DEF Calling, RegTypes
<1>6. /\ tim \in [atrlr : Nat, ch1cvr : Nat, cc1e : BOOLEAN]
      /\ tim.atrlr = Atrlr(p, freq) /\ tim.ch1cvr = hw.tim.ch1cvr
  BY <1>4, <1>5
<1>14. tim.cc1e = hw.tim.cc1e
  BY <1>5
<1>7. hw'.tim = Held(hw.rst, tim)
  BY <1>1, <1>2
<1>8. hw'.tim \in [atrlr : Nat, ch1cvr : Nat, cc1e : BOOLEAN]
  BY <1>6, <1>7, HeldIsTimer
<1> HIDE DEF tim
<1>9. TimerHeld /\ TimerRuns
  BY DEF Calling, DeviceInv, TimerInv
<1>15. /\ asked.caught => hw'.tim = ResetValues.tim
       /\ ~asked.caught => hw'.tim = tim
  BY <1>7, <1>9, TimerWritten
<1>16. TimerHeld' /\ Period'
  BY <1>1, <1>2, <1>6, <1>9, <1>15 DEF TimerHeld, Period
<1>10. TimerInv'
  <2>1. CASE asked.caught
    BY <1>1, <1>15, <1>16, <2>1 DEF TimerInv, TimerRuns
  <2>2. CASE ~asked.caught
    <3>1. ChannelFollows
      BY <1>9, <2>2 DEF TimerRuns
    <3>2. TimerFollows'
      BY <1>1, <1>2, <1>4, <1>6, <1>15, <2>2 DEF TimerFollows
    <3>3. hw'.tim.ch1cvr = hw.tim.ch1cvr /\ Reckoned(Hw.TIM2)' = Reckoned(Hw.TIM2)
      BY <1>2, <1>6, <1>15, <2>2
    <3>4. hw'.tim.cc1e = hw.tim.cc1e
      BY <1>14, <1>15, <2>2
    <3>5. ChannelFollows'
      BY <1>1, <3>1, <3>3, <3>4 DEF ChannelFollows
    <3> QED
      BY <1>1, <1>16, <2>2, <3>2, <3>5 DEF TimerInv, TimerRuns
  <2> QED
    BY <2>1, <2>2
<1>11. RegTypes'
  BY <1>1, <1>8 DEF Calling, RegTypes, usartState, busState, canState, prioState
<1>12. hw'.rst \in Resets /\ DeviceInv
  BY <1>11 DEF RegTypes, Calling
<1>13. DeviceInv'
  BY <1>1, <1>10, <1>12, UsartStays, BusStays, CanStays, DelayStays, PriorityStays,
     SilentStays DEF DeviceInv
<1> QED
  BY <1>1, <1>11, <1>13 DEF Called

LEMMA PwmDutyCalled ==
  ASSUME Calling, Hw' = Hw, board' = board, NEW duty \in Duties, gptm_set_pwm_duty(duty)
  PROVE  Called
<1> DEFINE chcvr == Chcvr(hw.tim.atrlr, duty)
           tim == WithDuty(hw.tim, chcvr)
<1>1. /\ Shapes'
      /\ UNCHANGED <<usartState, busState, canState, delayState, prioState>>
      /\ UNCHANGED <<hw.en, hw.rst, asked.pwm, asked.caught, ram>>
      /\ Clocked(hw.en, "TIM2") /\ asked.pwm # 0
      /\ hw'.tim = Held(hw.rst, tim)
      /\ asked'.duty = duty /\ asked'.duty_at = asked.pwm
  BY PwmDutyDoes DEF Calling
<1>2. duty \in Nat
  BY Fits DEF Calling
<1>3. hw.tim \in [atrlr : Nat, ch1cvr : Nat, cc1e : BOOLEAN] /\ hw.rst \in Resets
  BY DEF Calling, RegTypes
<1>4. LET error == 100 * chcvr - Percent(duty) * (hw.tim.atrlr + 1)
      IN /\ chcvr \in Nat /\ -200 <= error /\ error <= 200
         /\ chcvr = 0 => duty * hw.tim.atrlr < 100
  BY <1>2, <1>3, DutyFits
<1> HIDE DEF chcvr
<1>5. /\ tim \in [atrlr : Nat, ch1cvr : Nat, cc1e : BOOLEAN]
      /\ tim.atrlr = hw.tim.atrlr
      /\ chcvr # 0 => tim.ch1cvr = chcvr
  BY <1>3, <1>4 DEF WithDuty
<1>6. tim.cc1e = (chcvr # 0)
  BY <1>3 DEF WithDuty
<1> HIDE DEF tim
<1>7. hw'.tim \in [atrlr : Nat, ch1cvr : Nat, cc1e : BOOLEAN]
  BY <1>1, <1>5, HeldIsTimer
<1>8. TimerHeld /\ Period /\ TimerRuns
  BY DEF Calling, DeviceInv, TimerInv
<1>9. LET error == 100 * tim.ch1cvr - Percent(duty) * (tim.atrlr + 1)
      IN IF tim.cc1e THEN -200 <= error /\ error <= 200 ELSE duty * tim.atrlr < 100
  <2>1. CASE chcvr = 0
    BY <1>4, <1>5, <1>6, <2>1
  <2>2. CASE chcvr # 0
    BY <1>4, <1>5, <1>6, <2>2
  <2> QED
    BY <2>1, <2>2
<1>14. /\ asked.caught => hw'.tim = ResetValues.tim
       /\ ~asked.caught => hw'.tim = tim
  BY <1>1, <1>8, TimerWritten
<1>15. Reckoned(Hw.TIM2)' = Reckoned(Hw.TIM2)
  BY DEF Reckoned
<1>16. TimerHeld' /\ Period'
  BY <1>1, <1>5, <1>8, <1>14, <1>15 DEF TimerHeld, Period
<1>10. TimerInv'
  <2>1. CASE asked.caught
    BY <1>1, <1>14, <1>16, <2>1 DEF TimerInv, TimerRuns
  <2>2. CASE ~asked.caught
    <3>1. TimerFollows
      BY <1>8, <2>2 DEF TimerRuns
    <3>2. TimerFollows'
      BY <1>1, <1>5, <1>14, <1>15, <2>2, <3>1 DEF TimerFollows
    <3>3. /\ tim.atrlr = Atrlr(Reckoned(Hw.TIM2)', asked'.duty_at)
          /\ asked'.duty = duty /\ duty # NoDuty /\ hw'.tim = tim
      BY <1>1, <1>2, <1>5, <1>8, <1>14, <1>15, <2>2 DEF Period, NoDuty
    <3>4. ChannelFollows'
      BY <1>9, <3>3 DEF ChannelFollows
    <3> QED
      BY <1>1, <1>16, <2>2, <3>2, <3>4 DEF TimerInv, TimerRuns
  <2> QED
    BY <2>1, <2>2
<1>11. RegTypes'
  BY <1>1, <1>7 DEF Calling, RegTypes, usartState, busState, canState, prioState
<1>12. hw'.rst \in Resets /\ DeviceInv
  BY <1>11 DEF RegTypes, Calling
<1>13. DeviceInv'
  BY <1>1, <1>10, <1>12, UsartStays, BusStays, CanStays, DelayStays, PriorityStays,
     SilentStays DEF DeviceInv
<1> QED
  BY <1>1, <1>11, <1>13 DEF Called

\* A delay computes the ticks of a microsecond once, on the clock of main.
LEMMA DelayCalled ==
  ASSUME Calling, Hw' = Hw, board' = board, NEW duration \in Delays, core_delay_us(duration)
  PROVE  Called
<1> DEFINE h == Settled(board).HCLK
<1>1. /\ Shapes'
      /\ UNCHANGED <<usartState, busState, canState, timerState, prioState>>
      /\ UNCHANGED <<hw.en, hw.rst, ram.pll_input>>
      /\ ram'.us_ticks = IF ram.us_ticks = 0 THEN UsTicks(Frequency("HCLK")) ELSE ram.us_ticks
      /\ hw'.cmp = duration * ram'.us_ticks /\ asked'.delay = duration
  BY DelayDoes DEF Calling
<1>2. Frequency("HCLK") = h /\ Reckoned(Hw.HCLK) = h /\ Reckoned(Hw.HCLK)' = h /\ h \in Nat
  BY DEF Calling, ClockIds, Reckoned
<1>3. duration \in Nat
  BY Fits DEF Calling
<1> HIDE DEF h
<1>4. DeviceInv
  BY DEF Calling
<1>5. ram'.us_ticks = UsTicks(h)
  BY <1>1, <1>2, <1>4 DEF DeviceInv, TicksKept
<1>6. /\ UsTicks(h) \in Nat
      /\ (duration * UsTicks(h)) * 8000 + duration * PartOfTick(h) = duration * h
  BY <1>2, <1>3, DelayFits
<1>7. DelayLasts' /\ TicksKept'
  BY <1>1, <1>2, <1>5, <1>6 DEF DelayLasts, TicksKept
<1>8. RegTypes'
  BY <1>1 DEF Calling, RegTypes, usartState, busState, canState, timerState, prioState
<1>9. hw'.rst \in Resets
  BY <1>8 DEF RegTypes
<1>10. DeviceInv'
  BY <1>1, <1>4, <1>7, <1>9, UsartStays, BusStays, CanStays, TimerStays, PriorityStays,
     SilentStays DEF DeviceInv
<1> QED
  BY <1>1, <1>8, <1>10 DEF Called

LEMMA PriorityCalled ==
  ASSUME Calling, Hw' = Hw, board' = board, core_pfic_set_int_priority(0)
  PROVE  Called
<1>1. /\ Shapes'
      /\ UNCHANGED <<usartState, busState, canState, timerState, delayState>>
      /\ UNCHANGED <<hw.en, hw.rst, ram>>
      /\ hw'.prio = [hw.prio EXCEPT ![DmaIrq] = 0] /\ asked'.prio = 0
  BY PriorityDoes DEF Calling
<1>2. DeviceInv /\ DmaIrq \in Irqs /\ 0 \in Below(8)
  BY DEF Calling, DmaIrq, Irqs, Below
<1>3. Priorities'
  BY <1>1, <1>2 DEF DeviceInv, Priorities
<1>4. RegTypes'
  <2>1. hw'.prio \in [Irqs -> Below(8)]
    BY <1>1, <1>2 DEF Calling, RegTypes
  <2> QED
    BY <1>1, <2>1 DEF Calling, RegTypes, usartState, busState, canState, timerState
<1>5. hw'.rst \in Resets
  BY <1>4 DEF RegTypes
<1>6. DeviceInv'
  BY <1>1, <1>2, <1>3, <1>5, UsartStays, BusStays, CanStays, TimerStays, DelayStays,
     SilentStays DEF DeviceInv
<1> QED
  BY <1>1, <1>4, <1>6 DEF Called

\* So whichever call main makes, all devices run as they were asked to.
LEMMA MainCalled ==
  ASSUME Calling, Hw' = Hw, board' = board, SetUp \/ Pins
  PROVE  Called
BY PinsCalled, EnableClockCalled, UsartCfgCalled, I2cCfgCalled, CanInitCalled, CanDeinitCalled,
   PwmCfgCalled, PwmDutyCalled, DelayCalled, PriorityCalled DEF SetUp

------------------------------------------------------------------------------
(***************************************************************************)
(* The whole invariant.  Until main runs nothing has been asked for and    *)
(* the devices are as they came out of reset; what start-up has to have    *)
(* done for main is in StartInv.                                           *)
(***************************************************************************)
Typed ==
  /\ pc \in {"data", "bss", "core", "hse", "hserdy", "pll", "pllrdy", "sws", "main", "outdr"}
  /\ ram \in [pll_input : Nat, us_ticks : Nat]
  /\ hw.hse \in {"off", "starting", "ready"} /\ hw.pll \in {"off", "starting", "ready"}
  /\ hw.cfgr \in [sw : {0, 2}, hpre : Below(16), ppre1 : Below(8), ppre2 : Below(8),
                  pllsrc : {0, 1}, pllmul : Below(16)]

Running == pc \in {"main", "outdr"}

AtRest ==
  hw.tim = ResetValues.tim /\ hw.rst = [k \in Block |-> {}] /\ hw.silm = FALSE

StartInv ==
  ~Running =>
    /\ asked = NothingAsked /\ AtRest
    /\ pc \notin {"data", "bss"} => ram.us_ticks = 0
    /\ pc \notin {"data", "bss", "core"} => hw.prio = [i \in Irqs |-> Lowest]

BoardInv ==
  /\ ClockInv /\ Shapes /\ Typed /\ RegTypes /\ PinTypes /\ StartInv
  /\ Running => DeviceInv

LEMMA PllMulFits ==
  ASSUME NEW b, NEW input \in Nat \ {0}
  PROVE  PllMul(b, input) \in Below(16)
<1> DEFINE mul == MAX_SYSCLK \div input
<1>1. mul \in Int
  BY RccFrequencies
<1>2. PllMul(b, input) = (IF b.family = "v203"
                          THEN (IF mul >= 18 THEN 17 ELSE IF mul < 2 THEN 2 ELSE mul) - 2
                          ELSE IF mul >= 18 THEN 0 ELSE IF mul >= 15 THEN mul - 1
                          ELSE mul - 2) % 16
  BY DEF PllMul
<1> HIDE DEF mul
<1>3. \A n \in Int : (n % 16) \in Below(16)
  BY SMT DEF Below
<1> QED
  BY <1>1, <1>2, <1>3

\* The steps of the start-up, and the devices.
LEMMA BootDoes ==
  ASSUME Shapes, Boot
  PROVE  /\ Shapes'
         /\ UNCHANGED <<usartState, busState, canState, timerState, pinState, hw.cmp>>
         /\ UNCHANGED <<hw.en, hw.rst, asked>>
         /\ \/ UNCHANGED <<hw.prio, ram.us_ticks>>
            \/ pc = "core" /\ hw'.prio = [i \in Irqs |-> Lowest] /\ UNCHANGED ram
            \/ pc = "bss" /\ pc' = "core" /\ ram'.us_ticks = 0 /\ UNCHANGED hw
         /\ pc' # pc \/ UNCHANGED <<ram, hw.cfgr, hw.prio>>
<1> USE DEF Shapes, usartState, busState, canState, timerState, pinState, Goto
<1>1. CASE CopyData
  BY <1>1 DEF CopyData
<1>2. CASE ClearBss
  BY <1>2 DEF ClearBss
<1>3. CASE CoreInit
  BY <1>3 DEF CoreInit
<1>4. CASE HseOn
  BY <1>4 DEF HseOn
<1>5. CASE TakeHse
  BY <1>5 DEF TakeHse
<1>6. CASE ConfigurePll
  BY <1>6 DEF ConfigurePll
<1>7. CASE Switch
  BY <1>7 DEF Switch
<1>8. CASE EnterMain
  BY <1>8 DEF EnterMain
<1>9. CASE OscillatorReady
  BY <1>9 DEF OscillatorReady
<1> QED
  BY <1>1, <1>2, <1>3, <1>4, <1>5, <1>6, <1>7, <1>8, <1>9 DEF Boot

LEMMA BootTyped ==
  ASSUME ClockInv, Shapes, Typed, Boot
  PROVE  Typed'
<1> USE DEF Typed, Goto
<1>1. CASE CopyData
  <2>1. InputAtStart(board) \in Nat
    BY RccFrequencies, SMT DEF InputAtStart
  <2> QED
    BY <1>1, <2>1 DEF CopyData
<1>2. CASE ClearBss
  BY <1>2 DEF ClearBss
<1>3. CASE CoreInit
  BY <1>3 DEF CoreInit, Shapes
<1>4. CASE HseOn
  BY <1>4 DEF HseOn, Shapes
<1>5. CASE TakeHse
  <2>1. board.hse \in Nat
    BY BoardAssumption DEF ClockInv, Board
  <2> QED
    BY <1>5, <2>1 DEF TakeHse, Shapes
<1>6. CASE ConfigurePll
  <2> DEFINE m == PllMul(board, ram.pll_input)
  <2>1. ram.pll_input \in Nat \ {0}
    <3>1. board \in Boards /\ Source(board, hw.cfgr, ram.pll_input)
      BY <1>6 DEF ClockInv, SourceChosen, ConfigurePll
    <3> QED
      BY <3>1, SourceFits
  <2>2. m \in Below(16)
    BY <2>1, PllMulFits
  <2> HIDE DEF m
  <2>3. 0 \in Below(16) /\ 5 \in Below(8) /\ 0 \in Below(8)
    BY DEF Below
  <2>4. /\ hw'.cfgr = [hw.cfgr EXCEPT !.pllmul = m, !.hpre = 0, !.ppre1 = 5, !.ppre2 = 0]
        /\ hw'.hse = hw.hse /\ hw'.pll = "starting" /\ ram' = ram /\ pc' = "pllrdy"
    BY <1>6 DEF ConfigurePll, Shapes, m
  <2> QED
    BY <2>2, <2>3, <2>4
<1>7. CASE Switch
  BY <1>7 DEF Switch, Shapes
<1>8. CASE EnterMain
  BY <1>8 DEF EnterMain
<1>9. CASE OscillatorReady
  BY <1>9 DEF OscillatorReady, Shapes
<1> QED
  BY <1>1, <1>2, <1>3, <1>4, <1>5, <1>6, <1>7, <1>8, <1>9 DEF Boot

\* What main's calls leave of the rest of the state.
LEMMA MainTyped ==
  ASSUME Shapes, Typed, PinTypes, SetUp \/ Pins, ram'.us_ticks \in Nat
  PROVE  Typed' /\ PinTypes'
<1>1. Fields => UNCHANGED clock /\ pc' \in {"main", "outdr"}
  BY MainKeepsClock
<1>2. Typed'
  <2>1. Fields
    BY DEF Fields, Shapes, Typed, Below
  <2>2. ram' = ram \/ ram' = [ram EXCEPT !.us_ticks = ram'.us_ticks]
    <3>1. CASE Pins
      BY <3>1, PinsDo
    <3>2. CASE SetUp
      BY <3>2, EnableClockDoes, UsartCfgDoes, I2cCfgDoes, CanInitDoes, CanDeinitDoes,
         PwmCfgDoes, PwmDutyDoes, DelayDoes, PriorityDoes DEF SetUp
    <3> QED
      BY <3>1, <3>2
  <2>3. ram' \in [pll_input : Nat, us_ticks : Nat]
    BY <2>2 DEF Typed
  <2> QED
    BY <1>1, <2>1, <2>3 DEF Typed, clock
<1>3. CASE SetUp
  <2>1. UNCHANGED pinState
    BY <1>3, EnableClockDoes, UsartCfgDoes, I2cCfgDoes, CanInitDoes, CanDeinitDoes,
       PwmCfgDoes, PwmDutyDoes, DelayDoes, PriorityDoes DEF SetUp
  <2> QED
    BY <1>2, <2>1 DEF PinTypes, pinState
<1>4. CASE Pins
  <2>1. ASSUME NEW p \in Pin, NEW mode \in {PullUp, PullDown, PushPull}, gpio_pin_init(p, mode)
        PROVE  PinTypes'
    <3>1. (mode % 16) \in Below(16) /\ (mode \div 16) \in {0, 1}
      BY SMT DEF PullUp, PullDown, PushPull, Below
    <3>2. /\ hw'.mode = [hw.mode EXCEPT ![p] = mode % 16] /\ hw'.outdr = hw.outdr
          /\ dr' = dr \/ dr' = [hw.outdr EXCEPT ![p] = mode \div 16]
      BY <2>1 DEF gpio_pin_init, Shapes
    <3> QED
      BY <3>1, <3>2 DEF PinTypes
  <2>2. ASSUME WriteOutdr
        PROVE  PinTypes'
    <3>1. hw'.outdr = dr /\ hw'.mode = hw.mode /\ dr' = ResetValues.outdr
      BY <2>2 DEF WriteOutdr, Shapes
    <3>2. ResetValues.outdr = [p \in Pin |-> 0]
      BY DEF ResetValues
    <3> QED
      BY <3>1, <3>2 DEF PinTypes
  <2>3. ASSUME NEW p \in Pin, NEW val \in {0, 1}, SetPin(p, val)
        PROVE  PinTypes'
    BY <2>3 DEF SetPin, Shapes, PinTypes
  <2>4. MainPin \in Pin /\ IsrPin \in Pin /\ PushPull \in {PullUp, PullDown, PushPull}
    BY DEF Pin
  <2>5. PinTypes'
    BY <1>4, <2>1, <2>2, <2>3, <2>4 DEF Pins, gpio_pin_set, HandlerSetsPin
  <2> QED
    BY <1>2, <2>5
<1> QED
  BY <1>3, <1>4

\* Out of reset everything is as it should be before anything is asked for.
OutOfReset == hw = ResetValues /\ dr = hw.outdr /\ asked = NothingAsked
Fresh ==
  /\ DOMAIN hw = {"hse", "pll", "cfgr", "en", "rst", "prio", "brr", "freq", "ckcfgr", "rtr",
                  "brp", "silm", "tim", "cmp", "mode", "outdr"}
  /\ DOMAIN asked = {"baud", "bus", "duty_cycle", "can", "silent", "pwm", "duty", "duty_at",
                     "caught", "delay", "prio", "mode", "out"}
  /\ RegTypes /\ PinTypes /\ AtRest
  /\ hw.hse = "off" /\ hw.pll = "off"
  /\ hw.cfgr \in [sw : {0, 2}, hpre : Below(16), ppre1 : Below(8), ppre2 : Below(8),
                  pllsrc : {0, 1}, pllmul : Below(16)]

LEMMA ResetFits == OutOfReset => Fresh
<1> SUFFICES ASSUME OutOfReset PROVE Fresh
  OBVIOUS
<1> USE DEF OutOfReset
<1>1. /\ 0 \in Below(16) /\ 0 \in Below(8) /\ 4 \in Below(16) /\ 0 \in Below(64)
      /\ 0 \in Below(65536) /\ 0 \in Below(1024)
  BY DEF Below
<1>2. /\ DOMAIN hw = {"hse", "pll", "cfgr", "en", "rst", "prio", "brr", "freq", "ckcfgr",
                      "rtr", "brp", "silm", "tim", "cmp", "mode", "outdr"}
      /\ DOMAIN asked = {"baud", "bus", "duty_cycle", "can", "silent", "pwm", "duty",
                         "duty_at", "caught", "delay", "prio", "mode", "out"}
  BY DEF ResetValues, NothingAsked
<1>3. /\ hw.en = {} /\ hw.rst = [k \in Block |-> {}] /\ hw.prio = [i \in Irqs |-> 0]
      /\ hw.brr = 0 /\ hw.ckcfgr = 0 /\ hw.rtr = 0 /\ hw.freq = 0 /\ hw.brp = 0
      /\ hw.tim = [atrlr |-> 0, ch1cvr |-> 0, cc1e |-> FALSE]
      /\ hw.mode = [p \in Pin |-> 4] /\ hw.outdr = [p \in Pin |-> 0]
      /\ hw.cfgr = [sw |-> 0, hpre |-> 0, ppre1 |-> 0, ppre2 |-> 0, pllsrc |-> 0, pllmul |-> 0]
      /\ hw.hse = "off" /\ hw.pll = "off"
  BY DEF ResetValues
<1>7. RegTypes
  BY <1>1, <1>3 DEF RegTypes, Resets
<1>8. PinTypes
  BY <1>1, <1>3 DEF PinTypes
<1>9. AtRest
  <2>1. hw.silm = FALSE
    BY DEF ResetValues
  <2>2. hw.rst = [k \in Block |-> {}] /\ hw.tim = ResetValues.tim
    BY <1>3
  <2> QED
    BY <2>1, <2>2 DEF AtRest
<1> QED
  BY <1>1, <1>2, <1>3, <1>7, <1>8, <1>9 DEF Fresh

LEMMA BoardInit == Init => BoardInv
<1> SUFFICES ASSUME Init PROVE BoardInv
  OBVIOUS
<1>1. /\ board \in Boards /\ pc = "data" /\ ram = [pll_input |-> Garbage, us_ticks |-> Garbage]
      /\ hw = ResetValues /\ dr = hw.outdr /\ asked = NothingAsked
  BY DEF Init
<1>2. ClockInv
  BY InvInit
<1>3. Garbage \in Nat
  BY DEF Garbage
<1> QED
  BY <1>1, <1>2, <1>3, ResetFits
  DEF OutOfReset, Fresh, BoardInv, Shapes, Typed, StartInv, Running

LEMMA BoardReset ==
  ASSUME BoardInv, Reset
  PROVE  BoardInv'
<1>1. /\ pc' = "data" /\ hw' = ResetValues /\ dr' = hw'.outdr /\ asked' = NothingAsked
      /\ UNCHANGED ram
  BY DEF Reset
<1>2. ClockInv'
  BY InvNext DEF BoardInv, Next
<1>3. Fresh'
  <2>1. OutOfReset'
    BY <1>1 DEF OutOfReset
  <2> QED
    BY <2>1, ResetFits, PTL
<1> QED
  BY <1>1, <1>2, <1>3 DEF Fresh, BoardInv, Shapes, Typed, StartInv, Running

\* Nothing has been asked for, so nothing can be wrong.
Untouched ==
  /\ asked = NothingAsked /\ ram.us_ticks = 0 /\ hw.prio = [i \in Irqs |-> Lowest]
  /\ AtRest

LEMMA NothingWrong == Untouched => DeviceInv
<1> SUFFICES ASSUME Untouched PROVE DeviceInv
  OBVIOUS
<1> USE DEF Untouched, AtRest
<1>1. /\ asked.baud = 0 /\ asked.bus = 0 /\ asked.can = 0 /\ asked.pwm = 0 /\ asked.delay = 0
      /\ asked.prio = Lowest /\ asked.duty = NoDuty
  BY DEF NothingAsked
<1>2. asked.silent = FALSE
  BY DEF NothingAsked
<1>3. Silenced /\ CanRuns
  BY <1>1, <1>2 DEF Silenced, CanRuns
<1>4. ~asked.caught
  BY DEF NothingAsked
<1>5. ~hw.tim.cc1e
  BY DEF ResetValues
<1>6. ~HeldInReset(hw.rst, "TIM2")
  BY DEF HeldInReset, PeripheralId, Block
<1>7. TimerInv
  BY <1>1, <1>4, <1>5, <1>6
  DEF TimerInv, TimerHeld, Period, TimerRuns, TimerFollows, ChannelFollows
<1>8. UsartRuns /\ BusRuns /\ DelayLasts
  BY <1>1 DEF UsartRuns, BusRuns, DelayLasts
<1>9. TicksKept /\ Priorities
  BY <1>1 DEF TicksKept, Priorities
<1> QED
  BY <1>3, <1>7, <1>8, <1>9 DEF DeviceInv

\* A step of start-up, or an oscillator that gets ready, also while main runs.
LEMMA BoardBoots ==
  ASSUME BoardInv, Boot
  PROVE  BoardInv'
<1>1. ClockInv'
  BY InvNext DEF BoardInv, Next
<1>2. /\ Shapes'
      /\ UNCHANGED <<usartState, busState, canState, timerState, pinState, hw.cmp>>
      /\ UNCHANGED <<hw.en, hw.rst, asked>>
      /\ \/ UNCHANGED <<hw.prio, ram.us_ticks>>
         \/ pc = "core" /\ hw'.prio = [i \in Irqs |-> Lowest] /\ UNCHANGED ram
         \/ pc = "bss" /\ pc' = "core" /\ ram'.us_ticks = 0 /\ UNCHANGED hw
      /\ pc' # pc \/ UNCHANGED <<ram, hw.cfgr, hw.prio>>
  BY BootDoes DEF BoardInv
<1>3. Typed' /\ PinTypes'
  BY <1>2, BootTyped DEF BoardInv, PinTypes, pinState
<1>4. RegTypes'
  <2>1. [i \in Irqs |-> Lowest] \in [Irqs -> Below(8)]
    BY DEF Lowest, Below
  <2>2. hw'.prio \in [Irqs -> Below(8)]
    BY <1>2, <2>1 DEF BoardInv, RegTypes
  <2> QED
    BY <1>2, <2>2 DEF BoardInv, RegTypes, usartState, busState, canState, timerState
<1>5. \/ pc' = pc /\ UNCHANGED <<board, ram, hw.cfgr, hw.prio>>
      \/ /\ pc \notin {"main", "outdr"}
         /\ pc' = "main" => pc = "sws" /\ UNCHANGED <<ram, hw.prio>>
         /\ pc' # "outdr"
         /\ pc' \notin {"data", "bss"} => pc # "data"
         /\ pc = "bss" => pc' = "core" /\ ram'.us_ticks = 0
         /\ pc = "core" => hw'.prio = [i \in Irqs |-> Lowest]
  <2> USE DEF BoardInv, Shapes, Goto
  <2>1. CASE CopyData
    BY <2>1 DEF CopyData
  <2>2. CASE ClearBss
    BY <2>2 DEF ClearBss
  <2>3. CASE CoreInit
    BY <2>3 DEF CoreInit
  <2>4. CASE HseOn
    BY <2>4 DEF HseOn
  <2>5. CASE TakeHse
    BY <2>5 DEF TakeHse
  <2>6. CASE ConfigurePll
    BY <2>6 DEF ConfigurePll
  <2>7. CASE Switch
    BY <2>7 DEF Switch
  <2>8. CASE EnterMain
    BY <2>8 DEF EnterMain
  <2>9. CASE OscillatorReady
    BY <2>9 DEF OscillatorReady
  <2> QED
    BY <2>1, <2>2, <2>3, <2>4, <2>5, <2>6, <2>7, <2>8, <2>9 DEF Boot
<1>8. AtRest => AtRest'
  <2>1. hw'.silm = hw.silm
    BY <1>2 DEF canState
  <2>2. hw'.tim = hw.tim /\ hw'.rst = hw.rst
    BY <1>2 DEF timerState
  <2> QED
    BY <2>1, <2>2 DEF AtRest
<1>6. StartInv'
  BY <1>2, <1>5, <1>8 DEF BoardInv, StartInv, Running
<1>7. ASSUME Running'
      PROVE  DeviceInv'
  <2>1. CASE pc' = pc /\ UNCHANGED <<board, ram, hw.cfgr, hw.prio>>
    <3>1. DeviceInv /\ Hw' = Hw /\ board' = board
      BY <1>7, <2>1 DEF BoardInv, Running, Hw
    <3>2. UNCHANGED <<delayState, prioState>>
      BY <1>2, <2>1 DEF delayState, prioState
    <3>3. hw'.rst \in Resets
      BY <1>4 DEF RegTypes
    <3> QED
      BY <1>2, <3>1, <3>2, <3>3, UsartStays, BusStays, CanStays, TimerStays, DelayStays,
         PriorityStays, SilentStays DEF DeviceInv
  <2>2. CASE ~(pc' = pc /\ UNCHANGED <<board, ram, hw.cfgr, hw.prio>>)
    <3>1. pc' = "main" /\ pc = "sws" /\ UNCHANGED <<ram, hw.prio>>
      BY <1>5, <1>7, <2>2 DEF Running
    <3>2. Untouched
      BY <3>1 DEF BoardInv, StartInv, Running, Untouched
    <3>3. Untouched'
      BY <1>2, <1>8, <3>1, <3>2 DEF Untouched
    <3> QED
      BY <3>3, NothingWrong, PTL
  <2> QED
    BY <2>1, <2>2
<1> QED
  BY <1>1, <1>2, <1>3, <1>4, <1>6, <1>7 DEF BoardInv

LEMMA BoardRuns ==
  ASSUME BoardInv, SetUp \/ Pins
  PROVE  BoardInv'
<1>1. ClockInv'
  BY InvNext DEF BoardInv, Next
<1>2. Running /\ Running' /\ UNCHANGED clock
  BY MainKeepsClock DEF BoardInv, ClockInv, Running
<1>3. Hw' = Hw /\ board' = board
  BY <1>2 DEF Hw, clock
<1>4. Calling
  BY <1>2, MainClocks DEF BoardInv, Calling, Running
<1>5. Called
  BY <1>3, <1>4, MainCalled
<1>6. ram'.us_ticks \in Nat
  BY <1>5 DEF Called, DeviceInv, TicksKept
<1>7. Typed' /\ PinTypes'
  BY <1>6, MainTyped DEF BoardInv
<1> QED
  BY <1>1, <1>2, <1>5, <1>7 DEF BoardInv, StartInv, Called

LEMMA BoardNext == BoardInv /\ [Next]_vars => BoardInv'
<1> SUFFICES ASSUME BoardInv, [Next]_vars
             PROVE  BoardInv'
  OBVIOUS
<1>1. CASE UNCHANGED vars
  <2>1. UNCHANGED <<board, pc, ram, hw, dr, asked>>
    BY <1>1 DEF vars
  <2>2. /\ ClockInv' /\ (Shapes /\ Typed)' /\ RegTypes' /\ PinTypes' /\ StartInv'
    <3>1. ClockInv'
      BY InvNext DEF BoardInv
    <3> QED
      BY <2>1, <3>1 DEF BoardInv, Shapes, Typed, RegTypes, PinTypes, StartInv, AtRest, Running
  <2>3. ASSUME Running'
        PROVE  DeviceInv'
    <3>1. DeviceInv /\ Hw' = Hw /\ board' = board
      BY <2>1, <2>3 DEF BoardInv, Running, Hw
    <3>2. UNCHANGED <<usartState, busState, canState, timerState, delayState, prioState>>
      BY <2>1 DEF usartState, busState, canState, timerState, delayState, prioState
    <3>3. hw'.rst \in Resets /\ hw'.rst = hw.rst /\ hw'.en = hw.en
      BY <2>1, <2>2 DEF RegTypes
    <3> QED
      BY <3>1, <3>2, <3>3, UsartStays, BusStays, CanStays, TimerStays, DelayStays,
         PriorityStays, SilentStays DEF DeviceInv
  <2> QED
    BY <2>2, <2>3 DEF BoardInv
<1>2. CASE Next
  BY <1>2, BoardBoots, BoardRuns, BoardReset DEF Next
<1> QED
  BY <1>1, <1>2

LEMMA BoardSafe == BoardInv => TypeOK /\ RunsAsAsked
<1> SUFFICES ASSUME BoardInv PROVE TypeOK /\ RunsAsAsked
  OBVIOUS
<1>1. DOMAIN hw = DOMAIN ResetValues
  <2>1. DOMAIN ResetValues = {"hse", "pll", "cfgr", "en", "rst", "prio", "brr", "freq",
                              "ckcfgr", "rtr", "brp", "silm", "tim", "cmp", "mode", "outdr"}
    BY DEF ResetValues
  <2> QED
    BY <2>1 DEF BoardInv, Shapes
<1>2. TypeOK
  BY <1>1 DEF TypeOK, BoardInv, ClockInv, Typed, RegTypes, PinTypes
<1>3. RunsAsAsked
  BY DEF RunsAsAsked, BoardInv, Running, DeviceInv, TimerInv, Priorities
<1> QED
  BY <1>2, <1>3

\* On any board, with any rates whose divisors fit, every register keeps to
\* its width: in particular the code rcc_init writes to PLLMUL, whatever the
\* crystal.
THEOREM BoardTyped == Spec => []TypeOK
<1>1. Spec => []BoardInv
  BY BoardInit, BoardNext, PTL DEF Spec
<1> QED
  BY <1>1, BoardSafe, PTL

\* Whatever main sets up, in any order, again, and after any number of
\* resets: each device that was set up has its clock, its priority and the rate
\* asked for, by the clock the driver reckons with; where BRR loses a carry, a
\* delay a part of each tick, a timer its registers or a channel its share of a
\* new period, they hold the values that RunsAsAsked gives.
THEOREM DevicesRunAsAsked == Spec => []RunsAsAsked
<1>1. Spec => []BoardInv
  BY BoardInit, BoardNext, PTL DEF Spec
<1> QED
  BY <1>1, BoardSafe, PTL
==============================================================================
