---------------------------- MODULE PackageCodec ----------------------------
(***************************************************************************)
(* The packets of package/: one program encodes a header into a buffer and *)
(* sends the first bytes of it, another receives them into a buffer of its *)
(* own and decodes them.                                                   *)
(*                                                                         *)
(* Buffers hold bytes. The machines are little-endian; what does not fit   *)
(* TLC's integers, numbers of 32 and 64 bits, is the sequence of its       *)
(* 16-bit halves, lowest first. The bytes of a buffer nobody has written   *)
(* are any of Junk. Sending and receiving is the program's own affair: a   *)
(* datagram may be lost, or be received twice.                             *)
(***************************************************************************)
EXTENDS Integers, Sequences

CONSTANTS
  Families,   \* the address families in use: "inet", "inet6"
  Requests,   \* headers to be sent: sets of records with the fields of
  Responses,  \* spk_detect_request_t, spk_detect_response_t, control_package_t,
  Commands,   \* control_time_t and pcm_header_t
  Times,
  Streams,
  Junk        \* what unwritten memory may contain

Nibble == 0 .. 15
Byte   == 0 .. 255
Half   == 0 .. 65535
Bytes(n)  == [1 .. n -> Byte]
Halves(n) == [1 .. n -> Half]

\* The headers have the widths of the C structures.
ASSUME PackageAssumption ==
  /\ Families \subseteq {"inet", "inet6"} /\ Junk \subseteq Byte
  /\ Requests \subseteq [ver : Nibble, connected : Nibble, type : Families, ip : Bytes(16),
                         id : Halves(2), mac : Bytes(6), rate_mask : Half, bits_mask : Byte,
                         data_port : Half]
  /\ Responses \subseteq [ver : Nibble, response : Nibble, ip : Bytes(16)]
  /\ Commands \subseteq [ver : Byte, cmd : Nibble, spid : Halves(2), bits : Nibble, rate : Nibble,
                         channel : Byte, size : Half]
  /\ Times \subseteq [ver : Byte, cmd : Nibble, spid : Halves(2), time : Halves(4)]
  /\ Streams \subseteq [ver : Nibble, compress : Nibble, bits : Nibble, rate : Nibble,
                        channel : Byte, seq : Half, time : Halves(2), len : Half]

VARIABLES
  sent,       \* the last header sent: its kind, the socket's family, its fields
  datagram,   \* the bytes sent
  got         \* the header decoded from it, or Nothing

packageVars == <<sent, datagram, got>>

Nothing == [kind |-> "nothing"]

PackageInit == sent = Nothing /\ datagram = <<>> /\ got = Nothing

-----------------------------------------------------------------------------
(* Bytes. *)

Room == 0 .. 35                   \* as much of a buffer as anybody looks at
Memory(j) == [k \in Room |-> j]

Write(pack, at, bytes) ==
  [k \in Room |-> IF k - at + 1 \in DOMAIN bytes THEN bytes[k - at + 1] ELSE pack[k]]
Read(pack, at, n) == [k \in 1 .. n |-> pack[at + k - 1]]

U16(x) == <<x % 256, (x \div 256) % 256>>
U32(x) == U16(x[1]) \o U16(x[2])
U16At(pack, at) == pack[at] + 256 * pack[at + 1]
U32At(pack, at) == <<U16At(pack, at), U16At(pack, at + 2)>>

BIT_4TO8(a, b) == (a % 16) * 16 + (b % 16)
High(byte) == byte \div 16
Low(byte)  == byte % 16

AddrSize(sf) == IF sf = "inet" THEN 4 ELSE 16

-----------------------------------------------------------------------------
(* The detection packets (detect.h). *)

spk_detect_request_size(sf)  == IF sf = "inet" THEN 20 ELSE 32
spk_detect_response_size(sf) == IF sf = "inet" THEN 5 ELSE 17

\* Mutant: DISCONECTED is 2, and gets into the version.
request_encode_raw(sf, pack, req) ==
  LET flags == req.ver * 16 + req.connected * 8 + (IF req.type = "inet6" THEN 4 ELSE 0)
  IN Write(pack, 0, <<flags>> \o SubSeq(req.ip, 1, AddrSize(sf)) \o U32(req.id) \o req.mac
                      \o U16(req.rate_mask) \o <<req.bits_mask>> \o U16(req.data_port))

spk_detect_request_encode(sf, pack, req) ==
  LET flags == req.ver * 16 + (IF req.connected /= 0 THEN 8 ELSE 0)
                 + (IF req.type = "inet6" THEN 4 ELSE 0)
  IN Write(pack, 0, <<flags>> \o SubSeq(req.ip, 1, AddrSize(sf)) \o U32(req.id) \o req.mac
                      \o U16(req.rate_mask) \o <<req.bits_mask>> \o U16(req.data_port))

\* Of the id only its lower half is read.
spk_detect_request_decode(sf, pack) ==
  LET at == 1 + AddrSize(sf) IN
  [ver       |-> pack[0] \div 16,
   connected |-> (pack[0] \div 8) % 2,
   type      |-> IF (pack[0] \div 4) % 2 = 1 THEN "inet6" ELSE "inet",
   ip        |-> Read(pack, 1, AddrSize(sf)),
   id        |-> <<U16At(pack, at), 0>>,
   mac       |-> Read(pack, at + 4, 6),
   rate_mask |-> U16At(pack, at + 10),
   bits_mask |-> pack[at + 12],
   data_port |-> U16At(pack, at + 13)]

spk_detect_response_encode(sf, pack, res) ==
  Write(pack, 0, <<BIT_4TO8(res.ver, res.response)>> \o SubSeq(res.ip, 1, AddrSize(sf)))

spk_detect_response_decode(sf, pack) ==
  [ver |-> High(pack[0]), response |-> Low(pack[0]), type |-> sf, ip |-> Read(pack, 1, AddrSize(sf))]

-----------------------------------------------------------------------------
(* The control packets (control.h). *)

ControlHeaderSize == 12   \* sizeof(control_header_t), of which 5 bytes are written

\* What a program may take for the size of a packet: one of the sizes control.h
\* defines, which end before the payload begins, or up to the last byte any of
\* the encoders writes.
CONTROL_PACKAGE_SIZE == 9
CONTROL_TIME_SIZE    == 6
ControlSizes == {CONTROL_PACKAGE_SIZE, CONTROL_TIME_SIZE, ControlHeaderSize + 4}

SPCMD_SAMPLE == 1
SPCMD_CHUNK  == 2

control_header_encode(pack, ctl) == Write(pack, 0, <<BIT_4TO8(ctl.ver, ctl.cmd)>> \o U32(ctl.spid))

control_header_decode(pack) == [ver |-> High(pack[0]), cmd |-> Low(pack[0]), spid |-> U32At(pack, 1)]

control_package_encode(pack, ctl) ==
  LET payload == CASE ctl.cmd = SPCMD_SAMPLE -> <<BIT_4TO8(ctl.bits, ctl.rate), ctl.channel>>
                   [] ctl.cmd = SPCMD_CHUNK  -> U16(ctl.size)
                   [] OTHER                  -> <<>>
  IN Write(control_header_encode(pack, ctl), ControlHeaderSize, payload)

\* All the fields any command has; those of other commands are the caller's.
\* The channel is looked for one byte behind where it is.
control_package_decode(pack) ==
  LET at == ControlHeaderSize IN
  [head |-> control_header_decode(pack), bits |-> High(pack[at]), rate |-> Low(pack[at]),
   channel |-> pack[at + 2], size |-> U16At(pack, at)]

\* 64 bits are cut to 32, which decoding takes for a signed number.
control_time_encode(pack, ctl) ==
  Write(control_header_encode(pack, ctl), ControlHeaderSize, U32(ctl.time))

\* Mutant: the sign is not carried on.
time_decode_unsigned(pack) ==
  [head |-> control_header_decode(pack), time |-> U32At(pack, ControlHeaderSize) \o <<0, 0>>]

control_time_decode(pack) ==
  LET low  == U32At(pack, ControlHeaderSize)
      sign == IF low[2] >= 32768 THEN 65535 ELSE 0
  IN [head |-> control_header_decode(pack), time |-> <<low[1], low[2], sign, sign>>]

control_is_cmd(pack, cmd) == control_header_decode(pack).cmd = cmd

-----------------------------------------------------------------------------
(* The header of a stream of samples (pcm.h). *)

PCM_HEADER_SIZE == 11

\* The time is not written.
pcm_header_encode(pack, hd) ==
  Write(pack, 0, <<BIT_4TO8(hd.ver, hd.compress), BIT_4TO8(hd.bits, hd.rate), hd.channel>>
                   \o U16(hd.seq) \o U16(hd.len))

pcm_header_decode(pack) ==
  [ver |-> High(pack[0]), compress |-> Low(pack[0]), bits |-> High(pack[1]), rate |-> Low(pack[1]),
   channel |-> pack[2], seq |-> U16At(pack, 3), time |-> U32At(pack, 5), len |-> U16At(pack, 9)]

-----------------------------------------------------------------------------
(* Sending and receiving. *)

Send(kind, sf, header, pack, size) ==
  /\ sent = Nothing
  /\ sent' = [kind |-> kind, family |-> sf, header |-> header]
  /\ datagram' = Read(pack, 0, size)
  /\ got' = Nothing

SendRequest == \E sf \in Families, req \in Requests, j \in Junk :
  /\ req.type = sf
  /\ Send("request", sf, req, spk_detect_request_encode(sf, Memory(j), req), spk_detect_request_size(sf))

SendResponse == \E sf \in Families, res \in Responses, j \in Junk :
  Send("response", sf, res, spk_detect_response_encode(sf, Memory(j), res), spk_detect_response_size(sf))

SendCommand == \E sf \in Families, ctl \in Commands, j \in Junk, size \in ControlSizes :
  Send("command", sf, ctl, control_package_encode(Memory(j), ctl), size)

SendTime == \E sf \in Families, ctl \in Times, j \in Junk, size \in ControlSizes :
  Send("time", sf, ctl, control_time_encode(Memory(j), ctl), size)

SendPcm == \E sf \in Families, hd \in Streams, j \in Junk :
  Send("pcm", sf, hd, pcm_header_encode(Memory(j), hd), PCM_HEADER_SIZE)

Decoded(kind, sf, pack) ==
  CASE kind = "request"  -> spk_detect_request_decode(sf, pack)
    [] kind = "response" -> spk_detect_response_decode(sf, pack)
    [] kind = "command"  -> control_package_decode(pack)
    [] kind = "time"     -> control_time_decode(pack)
    [] kind = "pcm"      -> pcm_header_decode(pack)

Receive ==
  /\ sent /= Nothing
  /\ \E j \in Junk :
       got' = [kind |-> sent.kind,
               header |-> Decoded(sent.kind, sent.family, Write(Memory(j), 0, datagram))]
  /\ UNCHANGED <<sent, datagram>>

\* The datagram is lost, or done with.
Vanish == sent /= Nothing /\ sent' = Nothing /\ datagram' = <<>> /\ got' = Nothing

PackageNext == SendRequest \/ SendResponse \/ SendCommand \/ SendTime \/ SendPcm \/ Receive \/ Vanish

PackageSpec == PackageInit /\ [][PackageNext]_packageVars

-----------------------------------------------------------------------------
(* Properties. *)

\* The table in detect.h: the first and the last bit of every field, counted
\* from the most significant bit of the first byte.
Table ==
  [inet  |-> [ver |-> <<0, 3>>, connected |-> <<4, 4>>, type |-> <<5, 5>>, ip |-> <<8, 39>>,
              id |-> <<40, 71>>, mac |-> <<72, 119>>, rate_mask |-> <<120, 135>>,
              bits_mask |-> <<136, 143>>, data_port |-> <<144, 159>>],
   inet6 |-> [ver |-> <<0, 3>>, connected |-> <<4, 4>>, type |-> <<5, 5>>, ip |-> <<8, 135>>,
              id |-> <<136, 167>>, mac |-> <<168, 215>>, rate_mask |-> <<216, 231>>,
              bits_mask |-> <<232, 239>>, data_port |-> <<240, 255>>]]

\* The number in some bits of a byte; the bytes between two bits.
BitsAt(byte, row) == (byte \div 2^(7 - row[2])) % 2^(row[2] - row[1] + 1)
BytesAt(bytes, row) == SubSeq(bytes, row[1] \div 8 + 1, (row[2] + 1) \div 8)

\* What is sent has each of the nine fields at the bits the table in detect.h
\* gives it, and ends with the last of them: the flags are whether the server
\* is connected and whether the address is an IPv6 one, numbers have their
\* lowest byte first (spk_detect_request_encode, spk_detect_request_size).
RequestFollowsTable ==
  sent.kind = "request" =>
    LET t == Table[sent.family]
        h == sent.header
    IN /\ BitsAt(datagram[1], t.ver) = h.ver
       /\ BitsAt(datagram[1], t.connected) = IF h.connected = 0 THEN 0 ELSE 1
       /\ BitsAt(datagram[1], t.type) = IF h.type = "inet6" THEN 1 ELSE 0
       /\ BytesAt(datagram, t.ip) = SubSeq(h.ip, 1, AddrSize(sent.family))
       /\ BytesAt(datagram, t.id) = U32(h.id)
       /\ BytesAt(datagram, t.mac) = h.mac
       /\ BytesAt(datagram, t.rate_mask) = U16(h.rate_mask)
       /\ BytesAt(datagram, t.bits_mask) = <<h.bits_mask>>
       /\ BytesAt(datagram, t.data_port) = U16(h.data_port)
       /\ Len(datagram) * 8 = t.data_port[2] + 1

\* A detection request arrives whatever the receiver's memory held, but for
\* two things nothing is claimed about: an id of more than 16 bits, of which
\* the decoder keeps 16 although the table gives it 32, and which of the two
\* states other than 0 "connected" was (spk_detect_request_decode).
RequestArrives ==
  got.kind = "request" =>
    LET h == sent.header
        g == got.header
    IN /\ \A field \in {"ver", "type", "mac", "rate_mask", "bits_mask", "data_port"} :
            g[field] = h[field]
       /\ g.connected = 0 <=> h.connected = 0
       /\ g.ip = SubSeq(h.ip, 1, AddrSize(sent.family))
       /\ h.id[2] = 0 => g.id = h.id

\* So does a response, whose family is that of the socket it came through
\* (spk_detect_response_decode).
ResponseArrives ==
  got.kind = "response" =>
    got.header = [ver |-> sent.header.ver, response |-> sent.header.response, type |-> sent.family,
                  ip |-> SubSeq(sent.header.ip, 1, AddrSize(sent.family))]

\* A command arrives with its speaker and the lower half of its version at
\* every size, and control_is_cmd knows it from every other one. Its payload
\* arrives if the packet is long enough to hold it, which it is not at the
\* sizes control.h defines. Nothing is claimed about the channel of SAMPLE: it
\* is looked for one byte behind where it is put (control_package_encode,
\* control_package_decode).
CommandArrives ==
  got.kind = "command" =>
    LET h == sent.header
        Whole == Len(datagram) >= ControlHeaderSize + 2
    IN /\ got.header.head = [ver |-> h.ver % 16, cmd |-> h.cmd, spid |-> h.spid]
       /\ \A j \in Junk, cmd \in Nibble :
            control_is_cmd(Write(Memory(j), 0, datagram), cmd) <=> cmd = h.cmd
       /\ Whole /\ h.cmd = SPCMD_SAMPLE => got.header.bits = h.bits /\ got.header.rate = h.rate
       /\ Whole /\ h.cmd = SPCMD_CHUNK => got.header.size = h.size

\* So does a time or a difference of times; the time itself arrives if the
\* packet holds it and it is a signed 32-bit number, which is what it is cut
\* to (control_time_encode, control_time_decode).
TimeArrives ==
  got.kind = "time" =>
    LET h == sent.header
        t == h.time
        Whole == Len(datagram) >= ControlHeaderSize + 4
        Fits  == t[3] = t[4] /\ t[3] = IF t[2] < 32768 THEN 0 ELSE 65535
    IN /\ got.header.head = [ver |-> h.ver % 16, cmd |-> h.cmd, spid |-> h.spid]
       /\ Whole /\ Fits => got.header.time = t

\* The format and the sequence number of a block of samples arrive
\* (pcm_header_encode, pcm_header_decode).
FormatArrives ==
  got.kind = "pcm" =>
    \A field \in {"ver", "compress", "bits", "rate", "channel", "seq"} :
      got.header[field] = sent.header[field]

\* Whatever is sent, the decoders get out of the datagram what the parts above
\* say of what the encoders were given.
PackagesArrive == RequestArrives /\ ResponseArrives /\ CommandArrives /\ TimeArrives /\ FormatArrives

\* "| seq | len |", "16-31 | 32-47": the length follows the sequence number,
\* as the table in pcm.h has it for encoding and decoding alike.
LenArrives == got.kind = "pcm" => got.header.len = sent.header.len
=============================================================================
