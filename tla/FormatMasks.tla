---------------------------- MODULE FormatMasks -----------------------------
(***************************************************************************)
(* The masks in which a speaker announces the formats it supports: it puts *)
(* them together in two arrays, whose entries that it does not need are    *)
(* NONE, and packs those. Bit v of a mask stands for the format v.         *)
(***************************************************************************)
EXTENDS AudioFormats

CONSTANTS
  RateEntries,   \* size of the array of rates
  BitsEntries    \* size of the array of bits

ASSUME FormatsAssumption == RateEntries \in Nat /\ BitsEntries \in Nat

VARIABLES
  rates, depths,        \* the arrays
  rate_mask, bits_mask  \* the masks made of them

MASK_ISSET(mask, v) == (mask \div 2^v) % 2 = 1

\* Mutant: bits are added, so that what is named twice is carried on.
WithBitAdded(mask, v) == mask + 2^v

\* mask |= 1 << v
WithBit(mask, v) == IF MASK_ISSET(mask, v) THEN mask ELSE mask + 2^v

MASK_ARR_PACK(arr) ==
  LET mask[i \in 0 .. Len(arr)] ==
        IF i = 0 THEN 0 ELSE IF arr[i] > 0 THEN WithBit(mask[i - 1], arr[i]) ELSE mask[i - 1]
  IN mask[Len(arr)]

formatVars == <<rates, depths, rate_mask, bits_mask>>

FormatsInit ==
  /\ rates = [k \in 1 .. RateEntries |-> RATE_NONE] /\ depths = [k \in 1 .. BitsEntries |-> BIT_NONE]
  /\ rate_mask = 0 /\ bits_mask = 0

SupportsRate(k, v) ==
  /\ rates' = [rates EXCEPT ![k] = v] /\ rate_mask' = MASK_ARR_PACK(rates')
  /\ UNCHANGED <<depths, bits_mask>>

SupportsBits(k, v) ==
  /\ depths' = [depths EXCEPT ![k] = v] /\ bits_mask' = MASK_ARR_PACK(depths')
  /\ UNCHANGED <<rates, rate_mask>>

FormatsNext ==
  \/ \E k \in 1 .. RateEntries, v \in RATE_NONE .. RATE_MAX - 1 : SupportsRate(k, v)
  \/ \E k \in 1 .. BitsEntries, v \in BIT_NONE .. BIT_MAX - 1 : SupportsBits(k, v)

FormatsSpec == FormatsInit /\ [][FormatsNext]_formatVars

\* MASK_ISSET says of every format whether the speaker supports it, in whatever
\* order and however often its arrays name it, and the masks fit the types they
\* are sent in (MASK_ARR_PACK, MASK_ISSET, audio_rate_mask_t, audio_bits_mask_t).
MasksTellFormats ==
  /\ rate_mask \in 0 .. 2^16 - 1 /\ bits_mask \in 0 .. 2^8 - 1
  /\ \A v \in 0 .. 15 : MASK_ISSET(rate_mask, v) <=> v \in Range(rates) \ {RATE_NONE}
  /\ \A v \in 0 .. 7 : MASK_ISSET(bits_mask, v) <=> v \in Range(depths) \ {BIT_NONE}
=============================================================================
