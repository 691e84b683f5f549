---------------------------- MODULE WaveHeaderMC ----------------------------
(* Files for TLC. MCFiles: every combination of tags and format sizes, with  *)
(* data sections in front of, in and behind the scanned part, too large or   *)
(* not. PlayedFiles: all formats of audio.h, several channel masks, also one *)
(* with too many bits, fields that are 0, and files that are refused.        *)
EXTENDS WaveHeader, TLC

Stereo(rate, bits) ==
  [riff |-> TRUE, wave |-> TRUE, fmt |-> TRUE, chunk |-> Format, size |-> 1000, length |-> 64,
   data |-> (38 :> 900), channels |-> 2, rate |-> rate, bits |-> bits, avg |-> 100, mask |-> {}]

CD == Stereo(44100, 16)

MCFiles ==
  {[CD EXCEPT !.riff = riff_, !.wave = wave_, !.fmt = fmt_, !.chunk = chunk_, !.length = length_,
              !.size = 100, !.data = data_] :
     riff_ \in BOOLEAN, wave_ \in BOOLEAN, fmt_ \in BOOLEAN, chunk_ \in {16, 18, 40},
     length_ \in {50, 64, 108}, data_ \in UNION {[S -> {4, 900}] : S \in SUBSET {30, 44, 60, 70}}}

PlayedFiles ==
  {Stereo(rate_name(r), bits_name(b)) : r \in 1 .. RATE_MAX - 1, b \in 1 .. BIT_MAX - 1}
    \cup {[CD EXCEPT !.chunk = Extensible, !.data = 60 :> 900, !.mask = m, !.channels = Cardinality(m)] :
             m \in {{0}, {0, 1}, {0, 2, 31}, 0 .. 17, 0 .. 18}}
    \cup {[CD EXCEPT !.channels = c] : c \in {1, 6}}
    \cup {[CD EXCEPT !.bits = 4], [CD EXCEPT !.avg = 0], [CD EXCEPT !.data = 38 :> 1000]}
    \cup {[CD EXCEPT !.riff = FALSE], [CD EXCEPT !.fmt = FALSE], [CD EXCEPT !.chunk = 16],
          [CD EXCEPT !.length = 20, !.data = 20 :> 4]}
=============================================================================
