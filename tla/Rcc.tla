--------------------------------- MODULE Rcc ---------------------------------
(***************************************************************************)
(* lib/src/v203/rcc.c and lib/src/v307/rcc.c: the clock tree, as functions *)
(* of the board b (family and crystal), of CFGR0 and of rcc_pll_input_clk. *)
(* Frequencies are in kHz; an oscillator's is a multiple of 8 kHz, so that *)
(* the prescalers rcc_init chooses divide without a remainder.             *)
(***************************************************************************)
EXTENDS Integers

CONSTANTS HSI_FREQ,     \* LIBCH32_HSI_FREQ
          MAX_SYSCLK    \* LIBCH32_MAX_SYSCLK

ASSUME RccFrequencies ==
  /\ {HSI_FREQ, MAX_SYSCLK} \subseteq Nat \ {0}
  /\ HSI_FREQ % 8 = 0 /\ 3 * HSI_FREQ <= MAX_SYSCLK

\* A board: its family, and APP_HSE_FREQ, 0 where the application gives none.
Board == [family : {"v203", "v307"}, hse : Nat]

\* The static initialiser of rcc_pll_input_clk: what the driver takes the PLL
\* to multiply when it does not multiply the crystal.  A mutant: both families
\* take the oscillator undivided.
InputUndivided(b) == HSI_FREQ
InputAtStart(b) == IF b.family = "v203" THEN HSI_FREQ ELSE HSI_FREQ \div 2

------------------------------------------------------------------------------
(***************************************************************************)
(* rcc_init's choice of CFGR0.PLLMUL, a field of four bits.                *)
(***************************************************************************)
\* A mutant: the code of a factor the table lacks is not cut to the field.
PllMulUncut(b, input) ==
  LET mul == MAX_SYSCLK \div input
  IN IF mul >= 18 THEN (IF b.family = "v203" THEN 15 ELSE 0)
     ELSE IF b.family = "v307" /\ mul >= 15 THEN mul - 1 ELSE mul - 2

PllMul(b, input) ==
  LET mul == MAX_SYSCLK \div input
      code == IF b.family = "v203"
              THEN (IF mul >= 18 THEN 17 ELSE IF mul < 2 THEN 2 ELSE mul) - 2
              ELSE IF mul >= 18 THEN 0 ELSE IF mul >= 15 THEN mul - 1 ELSE mul - 2
  IN code % 16

------------------------------------------------------------------------------
(***************************************************************************)
(* rcc_get_clk_freq.  No case of its switch over HPRE leaves the clock 0.  *)
(***************************************************************************)
HpreDivisor == [h \in {0} \union 8..15 |->
                  IF h = 0 THEN 1 ELSE <<2, 4, 8, 16, 64, 128, 256, 512>>[h - 7]]
PpreDivisor == [p \in 4..7 |-> <<2, 4, 8, 16>>[p - 3]]

PllFactor(b, code) ==
  IF b.family = "v203" THEN (IF code = 15 THEN 18 ELSE code + 2)
  ELSE IF code = 0 THEN 18 ELSE IF code \in {14, 15} THEN code + 1 ELSE code + 2
Sysclk(b, cfgr, input) == input * PllFactor(b, cfgr.pllmul)

Hclk(b, cfgr, input) ==
  IF cfgr.hpre \in DOMAIN HpreDivisor
  THEN Sysclk(b, cfgr, input) \div HpreDivisor[cfgr.hpre] ELSE 0

Pclk(b, cfgr, input, ppre) ==
  IF ppre \in DOMAIN PpreDivisor
  THEN Hclk(b, cfgr, input) \div PpreDivisor[ppre] ELSE Hclk(b, cfgr, input)

\* A timer is clocked twice as fast as a bus that is divided down.
TimClk(b, cfgr, input, ppre) ==
  Pclk(b, cfgr, input, ppre) * (IF ppre # 0 THEN 2 ELSE 1)

ClockIds == {"HSE", "HSI", "SYSCLK", "HCLK", "TIM1", "TIM2", "PCLK1", "PCLK2"}

rcc_get_clk_freq(b, cfgr, input, id) ==
  CASE id = "HSE" -> b.hse
    [] id = "HSI" -> HSI_FREQ
    [] id = "SYSCLK" -> Sysclk(b, cfgr, input)
    [] id = "HCLK" -> Hclk(b, cfgr, input)
    [] id = "TIM1" -> TimClk(b, cfgr, input, cfgr.ppre2)
    [] id = "TIM2" -> TimClk(b, cfgr, input, cfgr.ppre1)
    [] id = "PCLK1" -> Pclk(b, cfgr, input, cfgr.ppre1)
    [] id = "PCLK2" -> Pclk(b, cfgr, input, cfgr.ppre2)

------------------------------------------------------------------------------
(***************************************************************************)
(* The hardware: the table of the reference manual that rcc_init quotes,   *)
(* in halves (one factor is 6.5), and the tree around it.                  *)
(***************************************************************************)
FactorTwice(b, code) ==
  IF b.family = "v203" THEN (IF code = 15 THEN 36 ELSE 2 * (code + 2))
  ELSE IF code = 0 THEN 36 ELSE IF code = 13 THEN 13
  ELSE IF code \in {14, 15} THEN 2 * (code + 1) ELSE 2 * (code + 2)

\* A prescaler field below its top bit divides by one; above it the factors
\* are powers of two, and HPRE leaves 32 out.
BusFactor(ppre) == IF ppre < 4 THEN 1 ELSE 2 ^ (ppre - 3)
CoreFactor(hpre) == IF hpre < 8 THEN 1 ELSE 2 ^ (hpre - (IF hpre < 12 THEN 7 ELSE 6))

\* The internal oscillator on its way to the PLL: out of reset the HSIPRE bit
\* of EXTEN_CTR is clear and halves it, on both families, and no code of the
\* repository sets that bit.
HsiToPll == HSI_FREQ \div 2

HardwareClock(b, cfgr) ==
  LET source == CASE cfgr.sw = 0 -> 2 * HSI_FREQ
                  [] cfgr.sw = 2 -> FactorTwice(b, cfgr.pllmul)
                                    * (IF cfgr.pllsrc = 1 THEN b.hse ELSE HsiToPll)
      sysclk == source \div 2
      hclk == sysclk \div CoreFactor(cfgr.hpre)
      bus(ppre) == hclk \div BusFactor(ppre)
      timer(ppre) == IF BusFactor(ppre) = 1 THEN hclk ELSE 2 * bus(ppre)
  IN [HSE |-> b.hse, HSI |-> HSI_FREQ, SYSCLK |-> sysclk, HCLK |-> hclk,
      TIM1 |-> timer(cfgr.ppre2), TIM2 |-> timer(cfgr.ppre1),
      PCLK1 |-> bus(cfgr.ppre1), PCLK2 |-> bus(cfgr.ppre2)]

------------------------------------------------------------------------------
(***************************************************************************)
(* enum RCCPeripheralId: the register and the bit of a peripheral.  en is  *)
(* the set of the clock enable bits that are set, rst maps a block to the  *)
(* bits of its reset register.                                             *)
(***************************************************************************)
Block == {"AHB", "PB1", "PB2"}
PeripheralId ==
  [DMA1 |-> <<"AHB", 0>>, CAN1 |-> <<"PB1", 25>>, CAN2 |-> <<"PB1", 26>>,
   I2C1 |-> <<"PB1", 21>>, I2C2 |-> <<"PB1", 22>>, USART2 |-> <<"PB1", 17>>,
   USART3 |-> <<"PB1", 18>>, USART4 |-> <<"PB1", 19>>, TIM2 |-> <<"PB1", 0>>,
   TIM3 |-> <<"PB1", 1>>, TIM4 |-> <<"PB1", 2>>, USART1 |-> <<"PB2", 14>>,
   IOPA |-> <<"PB2", 2>>, IOPB |-> <<"PB2", 3>>, IOPC |-> <<"PB2", 5>>,
   IOPD |-> <<"PB2", 5>>, IOPE |-> <<"PB2", 6>>, AFIO |-> <<"PB2", 0>>]

\* A mutant: the register is assigned where it should be added to.
SetClkAssigned(en, id, on) == IF on THEN {PeripheralId[id]} ELSE en \ {PeripheralId[id]}
rcc_set_peripheral_clk(en, id, on) ==
  IF on THEN en \union {PeripheralId[id]} ELSE en \ {PeripheralId[id]}

\* The bit's number is written, not the bit, over what was there before.
Bits(n) == {i \in 0..15 : (n \div 2 ^ i) % 2 = 1}
rcc_reset_peripherial(rst, id) ==
  [rst EXCEPT ![PeripheralId[id][1]] = Bits(PeripheralId[id][2])]

Clocked(en, id) == PeripheralId[id] \in en
HeldInReset(rst, id) == PeripheralId[id][2] \in rst[PeripheralId[id][1]]
==============================================================================
