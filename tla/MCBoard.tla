------------------------------- MODULE MCBoard -------------------------------
(***************************************************************************)
(* Both families, without a crystal and with crystals that take the PLL    *)
(* through each of its cases: 8448 kHz asks for the factor 17, 9000 kHz    *)
(* for 16, 10000 and 25000 kHz give clocks that are no multiple of 8 MHz.  *)
(***************************************************************************)
EXTENDS Board

MCBoards == [family : {"v203"}, hse : {0, 8448, 10000}]
              \union [family : {"v307"}, hse : {0, 8448, 9000, 25000}]
MCBauds == {115200, 460800}
MCBusSpeeds == {100000, 400000}
MCCanSpeeds == {1000000}
MCPwmFreqs == {20000, 30000}
MCDuties == {0, 33, 101}
MCDelays == {1000}
==============================================================================
