-------------------------- MODULE MCThingsBoardOta --------------------------
(* Instances of ThingsBoardOta for TLC: the factory package and two others,  *)
(* one whose last chunk is short and one that is a whole number of chunks.   *)
EXTENDS ThingsBoardOta

CONSTANTS p0, p1, p2

MCVersion  == [p \in Package |-> CASE p = p0 -> "1.7" [] p = p1 -> "1.8" [] p = p2 -> "1.9"]
MCCompiled == MCVersion
MCBytes    == [p \in Package |-> CASE p = p0 -> 3 [] p = p1 -> 3 [] p = p2 -> 4]
MCSha256   == Package
MCCrashAnywhere == PC \ {"off"}
\* Every point except those between the erasure of pending_fw and the
\* confirmation of the image (app_main.c:645-665).
MCCrashOutsideWindow == MCCrashAnywhere \ {"connect", "confirm"}
=============================================================================
