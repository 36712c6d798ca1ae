------------------------------ MODULE UrlEncode ------------------------------
(***************************************************************************)
(* The encoding in the access tokens of the Azure client                   *)
(* (esp-idf-azure-dps/main/app_main.c): url_encode writes a string of      *)
(* unknown length into a buffer of known size, one character per step.     *)
(*                                                                         *)
(* Abstraction: a character is its width in the output, 1 or 3.            *)
(***************************************************************************)
EXTENDS Naturals, Sequences

CONSTANTS
  DstSizes,  \* sizes of the output buffer (192 for URIs)
  MaxChars   \* bound: characters of the input

ASSUME UrlEncodeAssumption == DstSizes \subseteq Nat \ {0} /\ MaxChars \in Nat

VARIABLES src, size, si, di, ended

encodeVars == <<src, size, si, di, ended>>

Inputs == UNION {[1..n -> {1, 3}] : n \in 0..MaxChars}

EncodeInit ==
  /\ src \in Inputs /\ size \in DstSizes
  /\ si = 0 /\ di = 0 /\ ended = FALSE

\* Mutant: room for the character, not for the terminator.
ExactRoom == di + 3 <= size

\* Mutant: room for two characters more.
AmpleRoom == di + 6 < size

Room == di + 4 < size

\* Mutant: advances twice.
EncodeSkipping ==
  /\ ~ended /\ si < Len(src) /\ Room
  /\ si' = si + 2
  /\ di' = di + src[si + 1]
  /\ UNCHANGED <<src, size, ended>>

\* One turn of the loop of url_encode.
EncodeChar ==
  /\ ~ended /\ si < Len(src) /\ Room
  /\ si' = si + 1
  /\ di' = di + src[si + 1]
  /\ UNCHANGED <<src, size, ended>>

\* The loop ends, and dst[di] is set to zero.
Terminate ==
  /\ ~ended /\ ~(si < Len(src) /\ Room)
  /\ ended' = TRUE
  /\ UNCHANGED <<src, size, si, di>>

EncodeNext == EncodeChar \/ Terminate

EncodeSpec == EncodeInit /\ [][EncodeNext]_encodeVars

-----------------------------------------------------------------------------
(* Properties. *)

EncodeTypeOK ==
  /\ src \in Inputs /\ size \in DstSizes
  /\ si \in 0..Len(src) /\ di \in Nat /\ ended \in BOOLEAN

\* No write of url_encode, the terminator included, leaves the buffer.
InsideBuffer == di < size

\* The output of the first i characters, for every i, and of the whole string.
UpTo(s) == LET upTo[i \in 0..Len(s)] == IF i = 0 THEN 0 ELSE upTo[i - 1] + s[i]
           IN  upTo

Width(s) == UpTo(s)[Len(s)]

\* A string whose encoding leaves four bytes to spare is encoded whole; a
\* shorter result means a token with a wrong signature (app_main.c:99-100).
WholeIfRoom == ended /\ Width(src) + 4 <= size => si = Len(src)

-----------------------------------------------------------------------------
(* The inductive invariant behind the safety properties. *)

\* di is what the characters taken so far occupy, and the loop ended for a reason.
SumInv == di = UpTo(src)[si] /\ (ended => ~(si < Len(src) /\ Room))
=============================================================================
