----------------------------- MODULE MCAzureOta -----------------------------
(* Instances of AzureOta for TLC: the factory image and two others.           *)
EXTENDS AzureOta

CONSTANTS p0, p1, p2

MCVersion == [p \in Package |-> CASE p = p0 -> "1.7" [] p = p1 -> "1.8" [] p = p2 -> "1.9"]
\* A version and the URL of its image.
MCOffers  == {[version |-> MCVersion[p], url |-> p] : p \in {p1, p2}}
\* A fixed URL whose version alone is changed.
MCSameUrl == {[version |-> v, url |-> p1] : v \in {"1.8", "1.9"}}
MCCrashAnywhere == PC \ {"off"}
=============================================================================
