----------------------------- MODULE MCNativeOta -----------------------------
(* Instances of NativeOta for TLC: the factory image and two others.           *)
EXTENDS NativeOta

CONSTANTS p0, p1, p2

MCVersion == [p \in Package |-> CASE p = p0 -> "1.0" [] p = p1 -> "1.1" [] p = p2 -> "1.2"]
MCCrashAnywhere == PC \ {"off"}
=============================================================================
