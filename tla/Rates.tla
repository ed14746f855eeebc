-------------------------------- MODULE Rates --------------------------------
(***************************************************************************)
(* The divisors the drivers compute from the frequencies rcc_get_clk_freq  *)
(* reports: clocks in kHz, as in Rcc, and the rates asked for in Hz.       *)
(***************************************************************************)
EXTENDS Rcc

\* usart_cfg: the divider in hundredths, split into a mantissa and sixteenths
\* of a fraction that is masked to four bits; BRR has 16 bits.
Hundredths(pclk, baud) == (6250 * pclk) \div baud
Sixteenths(pclk, baud) == ((Hundredths(pclk, baud) % 100) * 16 + 50) \div 100

Brr(pclk, baud) ==
  ((Hundredths(pclk, baud) \div 100) * 16 + (Sixteenths(pclk, baud) % 16)) % 65536

\* i2c_cfg: FREQ, the rise time and CKCFGR with its FnS and DUTY bits.
I2cFreq(pclk1) == (pclk1 \div 1000) % 64
Fast(speed) == speed > 100000
Rtr(pclk1, speed) ==
  LET mhz == IF pclk1 \div 1000 >= 60 THEN 60 ELSE pclk1 \div 1000
  IN IF Fast(speed) THEN (mhz * 300) \div 1000 + 1 ELSE mhz + 1

\* Clock periods of the bus that a step of CCR stands for.
PerStep(speed, duty) == IF ~Fast(speed) THEN 2 ELSE IF duty = "2" THEN 3 ELSE 25
Ckcfgr(pclk1, speed, duty) ==
  LET steps == ((1000 * pclk1) \div (speed * PerStep(speed, duty))) % 65536
  IN IF ~Fast(speed) THEN (IF steps < 4 THEN 4 ELSE steps)
     ELSE (IF steps % 4096 = 0 THEN steps + 1 ELSE steps)
          + (IF duty = "2" THEN 0 ELSE 16384) + 32768

\* set_brp, on the default bit timing of eight quanta.
TsVal == 3 + 2 + 3
Btr(pclk1, bus_speed) == (1000 * pclk1) \div (TsVal * bus_speed)

\* gptm_config_for_pwm and gptm_set_pwm_duty.
Atrlr(tim2, pwm_freq) == (1000 * tim2) \div pwm_freq
Percent(duty) == IF duty > 100 THEN 100 ELSE duty
Chcvr(atrlr, duty) == (atrlr * Percent(duty)) \div 100

\* core_delay_us: SysTick counts at an eighth of HCLK.
UsTicks(hclk) == hclk \div 8000

------------------------------------------------------------------------------
(***************************************************************************)
(* What a divisor makes of a clock: it is within one of the exact          *)
(* quotient, where the clock and the rate are what a divisor stands for.   *)
(***************************************************************************)
Within1(clock, divisor, rate) ==
  LET error == 1000 * clock - divisor * rate IN -rate <= error /\ error <= rate

\* usart.c:130 masks a fraction of sixteen sixteenths to none, where it should
\* carry into the mantissa: BRR is then sixteen steps short.
FractionCarries(pclk, baud) == Sixteenths(pclk, baud) = 16
Carry(pclk, baud) == IF FractionCarries(pclk, baud) THEN 16 ELSE 0
\* core.c:49 drops this much of a tick in every microsecond, in eight-thousandths.
PartOfTick(hclk) == hclk % 8000
==============================================================================
