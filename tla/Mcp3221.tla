------------------------------- MODULE Mcp3221 -------------------------------
(***************************************************************************)
(* The two drivers written for the MCP3221 converter and the loops that    *)
(* use them: the Zephyr sensor driver (zephyr-mcp3221-poc, sample_fetch    *)
(* then channel_get, microvolts) and the ESP-IDF component                 *)
(* (esp-idf-mcp3221-poc, one call, millivolts).  The converter has no      *)
(* registers: a bus read returns the two bytes of its latest conversion.   *)
(* All arithmetic of the drivers is uint32_t.                              *)
(***************************************************************************)
EXTENDS Integers

CONSTANTS
  Conversion,  \* the conversions the converter may come up with
  VrefMv,      \* vref_mv: devicetree property, mcp3221_config_t
  NoReading    \* nothing was read yet, or the read failed

ASSUME ConversionAssumption == \A c \in Conversion : c \in Nat /\ c <= 4095
ASSUME VrefAssumption == VrefMv \in Nat /\ VrefMv <= 65535
ASSUME NoReadingAssumption == NoReading \notin Int

VARIABLES
  raw,         \* Zephyr: data->raw
  zpc,         \* Zephyr main loop: "fetch" or "get"
  microvolts,  \* Zephyr: val1 * 1000000 + val2 of the last channel_get
  millivolts,  \* ESP-IDF: *millivolts of the last read_voltage_mv
  zconv, econv \* history: the conversions behind microvolts and millivolts

zephyr == <<raw, zpc, microvolts, zconv>>
esp    == <<millivolts, econv>>
readingVars   == <<zephyr, esp>>

ReadingTypeOK ==
  /\ raw \in 0..4095
  /\ zpc \in {"fetch", "get"}
  /\ microvolts \in Nat \cup {NoReading}
  /\ millivolts \in Nat \cup {NoReading}
  /\ zconv \in Conversion \cup {NoReading}
  /\ econv \in Conversion \cup {NoReading}

ReadingInit ==
  /\ raw = 0
  /\ zpc = "fetch"
  /\ microvolts = NoReading /\ millivolts = NoReading
  /\ zconv = NoReading /\ econv = NoReading

-----------------------------------------------------------------------------

\* ((rx_buf[0] & 0x0F) << 8) | rx_buf[1]
RawOf(hi, lo) == (hi % 16) * 256 + lo

\* What both drivers make of the two bytes the bus returns for conversion c.
Read(c) == RawOf(c \div 256, c % 256)

\* x * 1000 / 4096 = x * 125 / 512, rounded down, without the intermediate
\* product (TLC's integers end at 2^31).
MilliTo12Bits(x) == (x \div 512) * 125 + ((x % 512) * 125) \div 512

\* Mutant: the reading is rounded to whole millivolts first.
RoundedMicrovolts(r) == ((r * VrefMv) \div 4096) * 1000

TwoTo20 == 1048576

\* Mutant: the product is a signed int.
SignedMicrovolts(r) ==
  LET m == MilliTo12Bits(r * VrefMv) % TwoTo20
  IN  IF 2 * m < TwoTo20 THEN m ELSE m - TwoTo20

\* (raw * vref_mv * 1000U) / BIT(12) in uint32_t: the product is reduced
\* modulo 2^32 before the division, so the quotient is modulo 2^20.
MicrovoltsOf(r) == MilliTo12Bits(r * VrefMv) % TwoTo20

\* Mutant: full scale is taken as 4095.
FullScaleMillivolts(r) == (r * VrefMv) \div 4095

\* (raw * vref_mv) / (1U << 12): below 2^32 for any 16-bit reference.
MillivoltsOf(r) == (r * VrefMv) \div 4096

-----------------------------------------------------------------------------
(* Zephyr main loop: sensor_sample_fetch, then sensor_channel_get if it     *)
(* succeeded.                                                               *)

SampleFetch ==
  /\ zpc = "fetch"
  /\ \E c \in Conversion :
       /\ raw' = Read(c)
       /\ zconv' = c
  /\ microvolts' = NoReading
  /\ zpc' = "get"
  /\ UNCHANGED esp

\* i2c_read_dt failed: raw keeps its value, the loop prints no voltage.
FetchFails ==
  /\ zpc = "fetch"
  /\ microvolts' = NoReading
  /\ UNCHANGED <<raw, zpc, zconv, esp>>

ChannelGet ==
  /\ zpc = "get"
  /\ microvolts' = MicrovoltsOf(raw)
  /\ zpc' = "fetch"
  /\ UNCHANGED <<raw, zconv, esp>>

(* ESP-IDF main loop: mcp3221_read_voltage_mv. *)
ReadVoltage ==
  /\ \E c \in Conversion :
       /\ millivolts' = MillivoltsOf(Read(c))
       /\ econv' = c
  /\ UNCHANGED zephyr

ReadFails ==
  /\ millivolts' = NoReading
  /\ UNCHANGED <<zephyr, econv>>

ReadingNext == SampleFetch \/ FetchFails \/ ChannelGet \/ ReadVoltage \/ ReadFails

ReadingSpec == ReadingInit /\ [][ReadingNext]_readingVars

-----------------------------------------------------------------------------
(* Properties. *)

\* The voltage the Zephyr loop prints is the one of the conversion it fetched,
\* rounded down to a microvolt (mcp3221.c:78-80: "voltage = raw * Vref / 4096
\* (ratiometric ...), kept in micro-units for precision").
MicrovoltsExact ==
  microvolts # NoReading => microvolts = MilliTo12Bits(zconv * VrefMv)

\* The voltage the ESP-IDF loop prints is the one of the conversion it read,
\* rounded down to a millivolt (mcp3221.h: "raw * Vref / 4096").
MillivoltsExact ==
  millivolts # NoReading =>
    /\ 4096 * millivolts <= econv * VrefMv
    /\ econv * VrefMv < 4096 * (millivolts + 1)

\* On the same conversion the two drivers print the same voltage, up to the
\* digits only the Zephyr driver has.
DriversAgree ==
  microvolts # NoReading /\ millivolts # NoReading /\ zconv = econv
    => microvolts \div 1000 = millivolts
=============================================================================
