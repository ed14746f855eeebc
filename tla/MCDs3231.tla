------------------------------ MODULE MCDs3231 -------------------------------
(***************************************************************************)
(* Times in both modes and in both halves of the day, with hours that need *)
(* both bits of the tens; the 0x13 registers are cut to four.              *)
(***************************************************************************)
EXTENDS Ds3231

CONSTANTS clock, nobody

MCAddresses == {clock, nobody}
MCTimes == {[hour |-> 23, min |-> 59, sec |-> 8, twelve |-> FALSE],
            [hour |-> 19, min |-> 7, sec |-> 30, twelve |-> TRUE],
            [hour |-> 0, min |-> 0, sec |-> 0, twelve |-> TRUE]}
==============================================================================
