----------------------------- MODULE WaveHeader -----------------------------
(***************************************************************************)
(* The wave reader of codec/wave.c: header_check finds its way through the *)
(* beginning of a file, and leaves pointers into it for the functions that *)
(* are called afterwards.                                                  *)
(*                                                                         *)
(* A file is what they tell apart: whether the three tags are there, the   *)
(* size of the format chunk and its fields, and where behind it the four   *)
(* letters of a data section are, with what size. Positions are bytes.     *)
(***************************************************************************)
EXTENDS AudioFormats

\* Records [riff, wave, fmt : BOOLEAN, chunk, size, length : Nat, data, channels,
\* rate, bits, avg, mask], where data maps the positions of "data" to the
\* data_bytes behind them, and mask is the set of the bits in channel_mask. What
\* is in memory behind the length belongs to it: the first look may be there.
\* Bytes per second and their multiples fit into 32 bits.
CONSTANT Files

ASSUME WaveAssumption == \A f \in Files : f.mask \subseteq 0 .. 31 /\ f.channels \in Nat

None     == -1       \* a null pointer
NoFile   == "none"
NoAnswer == [type |-> 0]
Duration == 3       \* in place of a chunk_type_t

FormatAt   == 20   \* behind wave_riff_t and wave_fmt_t
Format     == 18   \* sizeof(wave_format_t)
Extensible == 40   \* sizeof(wave_format_extensible_t)
DataHeader == 8    \* sizeof(wave_data_t)

CHANNEL_MAX == 19

VARIABLES
  file,      \* the file last looked at
  riff, fmt, format, data,   \* the pointers, as positions in it
  channel_list,              \* wave_channel_list, as far as its len
  result,    \* what header_check returned
  answer,    \* what get_chunksize or get_duration found out about it
  faulted    \* a division by zero, or a write behind the list

waveVars == <<file, riff, fmt, format, data, channel_list, result, answer, faulted>>

\* No file has been looked at.
WaveInit ==
  /\ file = NoFile
  /\ riff = None /\ fmt = None /\ format = None /\ data = None
  /\ channel_list = <<>>
  /\ result = 0 /\ answer = NoAnswer /\ faulted = FALSE

\* The channels of a plain format are known up to stereo.
ChannelMask(f) ==
  CASE f.chunk = Extensible -> f.mask
    [] f.chunk = Format /\ f.channels = 2 -> {0, 1}
    [] f.chunk = Format /\ f.channels = 1 -> {2}
    [] OTHER -> {}

Listed(mask) == [k \in 1 .. Cardinality(mask) |-> CHOOSE c \in {b + 1 : b \in mask} :
                                                   Cardinality({b \in mask : b < c}) = k]

\* Mutant: wave_channel_list.len is not reset.
ListAppended(f) == channel_list \o Listed(ChannelMask(f))

\* From the lowest bit to the highest.
ChannelList(f) == Listed(ChannelMask(f))

\* Behind an extensible format the scan starts behind it, else at it.
ScanFrom(f) == IF f.chunk = Extensible THEN FormatAt + Extensible ELSE FormatAt

\* Where the scan looks: always once, further only up to the end.
Looked(f) == {p \in DOMAIN f.data : p = ScanFrom(f) \/ (p > ScanFrom(f) /\ p < f.length)}

\* Where it stops: at a data section that is smaller than the file.
Sections(f) == {p \in Looked(f) : f.data[p] < f.size}

\* The end of the file is tested only where the scan stops. Without a section
\* it runs to the end and goes on as if the last place had been one.
header_check(f) ==
  /\ ~faulted
  /\ file' = f /\ answer' = NoAnswer
  /\ riff' = 0
  /\ \/ /\ ~(f.riff /\ f.wave)
        /\ fmt' = None /\ format' = None /\ data' = None /\ result' = 0
        /\ UNCHANGED <<channel_list, faulted>>
     \/ /\ f.riff /\ f.wave /\ ~f.fmt
        /\ fmt' = 12 /\ format' = None /\ data' = None /\ result' = 0
        /\ UNCHANGED <<channel_list, faulted>>
     \/ /\ f.riff /\ f.wave /\ f.fmt /\ f.chunk \notin {Format, Extensible}
        /\ fmt' = 12 /\ format' = FormatAt /\ data' = None /\ result' = 0
        /\ UNCHANGED <<channel_list, faulted>>
     \/ /\ f.riff /\ f.wave /\ f.fmt /\ f.chunk \in {Format, Extensible}
        /\ fmt' = 12 /\ format' = FormatAt
        /\ channel_list' = ChannelList(f) /\ faulted' = (Len(channel_list') >= CHANNEL_MAX)
        /\ IF Sections(f) /= {}
           THEN /\ data' = Min(Sections(f))
                /\ result' = IF data' >= f.length THEN 0 ELSE data' + DataHeader
           ELSE LET end == Max({ScanFrom(f) + 1, f.length}) IN
                data' = end - 1 /\ result' = end + DataHeader

-----------------------------------------------------------------------------
(* The get_ functions, and what else they are asked for. *)

Ready == None \notin {riff, fmt, format, data}

get_channel_list == IF Ready THEN channel_list ELSE <<>>

\* Mutant: a sample of 20 bits takes three bytes.
bytes_per_sample_up == (file.bits + 7) \div 8

get_bytes_per_sample == file.bits \div 8

\* For one channel; the time in microseconds. bytes_per_sec may be 0.
get_chunksize(type) ==
  /\ ~faulted /\ Ready
  /\ LET bytes_per_sec == file.rate * get_bytes_per_sample
         chunk == samples_chunk(bytes_per_sec, type)
     IN \/ bytes_per_sec = 0 /\ faulted' = TRUE /\ UNCHANGED answer
        \/ /\ bytes_per_sec > 0
           /\ answer' = [type |-> type, chunk |-> chunk * file.channels,
                         time |-> (chunk * 1000000) \div bytes_per_sec]
           /\ UNCHANGED faulted
  /\ UNCHANGED <<file, riff, fmt, format, data, channel_list, result>>

\* Where no section was found data_bytes is what happens to be there.
get_datasize == IF data \in DOMAIN file.data THEN {file.data[data]} ELSE {0, file.size}

get_duration ==
  /\ ~faulted /\ Ready
  /\ \/ file.avg = 0 /\ faulted' = TRUE /\ UNCHANGED answer
     \/ /\ file.avg > 0
        /\ \E bytes \in get_datasize : answer' = [type |-> Duration, time |-> bytes \div file.avg]
        /\ UNCHANGED faulted
  /\ UNCHANGED <<file, riff, fmt, format, data, channel_list, result>>

WaveNext ==
  \/ \E f \in Files : header_check(f)
  \/ \E type \in {CHUNK_QUALITY, CHUNK_SPEED} : get_chunksize(type)
  \/ get_duration

WaveSpec == WaveInit /\ [][WaveNext]_waveVars

-----------------------------------------------------------------------------
(* "can not found wave data section" (header_check): a file is accepted only *)
(* if the scan found one, and the caller is left behind its header.          *)
AcceptsOnlyWithData == result /= 0 => result - DataHeader \in Sections(file)

\* The channels are those of the file last looked at, in the order of their
\* bits, whichever files were accepted or refused before; and a plain file has
\* as many of them as it says (header_check, get_channel_list).
ListIsOfThisFile ==
  Ready /\ ~faulted =>
    LET list == get_channel_list IN
    /\ Range(list) = {b + 1 : b \in ChannelMask(file)}
    /\ \A j, k \in DOMAIN list : j < k => list[j] < list[k]
    /\ file.chunk = Format /\ file.channels \in {1, 2} => Len(list) = file.channels

Known(f) == /\ \E rate \in 1 .. RATE_MAX - 1 : f.rate = rate_name(rate)
            /\ \E bits \in 1 .. BIT_MAX - 1 : f.bits = bits_name(bits)

Chunked(type) == answer.type = type /\ Known(file)

\* "CHUNK_QUALITY: more delay", and against CHUNK_SPEED, which "may drop some
\* data": for every format of audio.h a chunk takes whole milliseconds, of
\* which no byte is left over (samples_chunk, get_chunksize).
QualityDropsNothing ==
  Chunked(CHUNK_QUALITY) =>
    /\ answer.time % 1000 = 0
    /\ answer.chunk * 1000 = (answer.time \div 1000) * file.rate * (file.bits \div 8) * file.channels

\* A chunk holds whole samples of all channels, for every format of audio.h and
\* both ways of choosing its size; except CHUNK_QUALITY with 32 bits at 44100 Hz,
\* where the 882 bytes of a channel are 220 and a half (get_chunksize).
SamplesAreWhole ==
  Chunked(CHUNK_QUALITY) \/ Chunked(CHUNK_SPEED) =>
    \/ \E samples \in 0 .. answer.chunk :
         answer.chunk = samples * (file.bits \div 8) * file.channels
    \/ answer.type = CHUNK_QUALITY /\ file.rate = 44100 /\ file.bits = 32

\* A chunk is of a size that can be played: nothing is dropped where more delay
\* is taken for it, and no sample is divided between two chunks (utils.c).
ChunksAreWhole == QualityDropsNothing /\ SamplesAreWhole
=============================================================================
