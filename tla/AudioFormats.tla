---------------------------- MODULE AudioFormats ----------------------------
(***************************************************************************)
(* The formats of audio.h and the sizes of chunks of samples (utils.c).    *)
(* Rates and bits are the numbers of their enumerations; chunks are        *)
(* counted in bytes of one channel.                                        *)
(***************************************************************************)
EXTENDS Integers, Sequences, SequencesExt, FiniteSetsExt

RATE_NONE == 0
RATE_44100 == 1
RATE_48000 == 2
RATE_96000 == 3
RATE_192000 == 4
RATE_384000 == 5
RATE_MAX == 6

BIT_NONE == 0
BIT_16 == 1
BIT_20 == 2
BIT_24 == 3
BIT_32 == 4
BIT_32_FLOAT == 5
BIT_MAX == 6

rate_name(rate) ==
  CASE rate = RATE_44100  -> 44100
    [] rate = RATE_48000  -> 48000
    [] rate = RATE_96000  -> 96000
    [] rate = RATE_192000 -> 192000
    [] rate = RATE_384000 -> 384000
    [] OTHER              -> 0

bits_name(bits) ==
  CASE bits = BIT_16 -> 16
    [] bits = BIT_20 -> 20
    [] bits = BIT_24 -> 24
    [] bits \in {BIT_32, BIT_32_FLOAT} -> 32
    [] OTHER -> 0

-----------------------------------------------------------------------------
(* Chunks of a stream of so many bytes per second. *)

CHUNK_QUALITY == 1
CHUNK_SPEED   == 2

\* FLOAT_IS_NUMBER(per_sec / 1000.0 * i): so many milliseconds are whole bytes.
Whole(per_sec, i) == (per_sec * i) % 1000 = 0

\* Up to ten milliseconds, or one if nothing fits.
chunk_quality(per_sec) ==
  (per_sec * Max({1} \cup {i \in 1 .. 10 : Whole(per_sec, i) /\ per_sec * i <= 1500000})) \div 1000

chunk_speed(per_sec) == per_sec \div 1000

samples_chunk(per_sec, type) ==
  IF type = CHUNK_QUALITY THEN chunk_quality(per_sec) ELSE chunk_speed(per_sec)
=============================================================================
