--------------------------- MODULE PackageCodecMC ---------------------------
(***************************************************************************)
(* Headers for TLC. The values of a field differ in every byte, so that a  *)
(* byte that goes astray shows, and reach the ends of the field's range.   *)
(***************************************************************************)
EXTENDS PackageCodec

MCFamilies == {"inet", "inet6"}
MCJunk     == {0, 170, 255}

Counting(first) == [k \in 1 .. 16 |-> first + k]

MCRequests ==
  [ver : {1, 15}, connected : {0, 1, 2}, type : MCFamilies, ip : {Counting(192)},
   id : {<<513, 0>>, <<65535, 1027>>}, mac : {SubSeq(Counting(16), 1, 6)},
   rate_mask : {62, 65280}, bits_mask : {6, 255}, data_port : {4417, 65535}]

MCResponses == [ver : {1, 15}, response : {1, 2}, ip : {Counting(192), Counting(64)}]

MCCommands ==
  [ver : {1, 18}, cmd : {1, 2, 3, 15}, spid : {<<513, 1027>>, <<65535, 65535>>},
   bits : {1, 5}, rate : {2, 5}, channel : {1, 18}, size : {960, 65535}]

MCTimes ==
  [ver : {1}, cmd : {3}, spid : {<<513, 1027>>},
   time : {<<1, 0, 0, 0>>, <<65535, 32767, 0, 0>>, <<0, 32768, 0, 0>>, <<0, 0, 1, 0>>,
           <<65535, 65535, 65535, 65535>>, <<0, 32768, 65535, 65535>>, <<5, 32768, 65535, 0>>}]

MCStreams ==
  [ver : {1, 15}, compress : {0}, bits : {1, 5}, rate : {2, 5}, channel : {1, 18},
   seq : {0, 770, 65535}, time : {<<257, 514>>}, len : {960, 1920}]
=============================================================================
