------------------------------ MODULE MCMcp3221 ------------------------------
(* Conversions for TLC: both ends, the boundary of the two bytes, one whose  *)
(* voltage is just below a whole millivolt (1200), and the last one for      *)
(* which raw * 3300 * 1000 is below 2^32 (1301).                             *)
EXTENDS Mcp3221

MCLowConversion == {0, 1, 15, 255, 256, 512, 1024, 1200, 1300, 1301}
MCConversion    == MCLowConversion \cup {1302, 2048, 2603, 3840, 4094, 4095}
=============================================================================
