------------------------------ MODULE Generator ------------------------------
(***************************************************************************)
(* The packet generator (tools/generate-packets.js): it plays the mesh for *)
(* a development set-up and publishes binary packets of made-up nodes,     *)
(* which the decoder is meant to read.  A node is a record of its id (four *)
(* bytes), name (character codes), position and role flags; random picks   *)
(* are left to whoever calls the builders.                                 *)
(***************************************************************************)
EXTENDS Decoder

Zeros(n) == [i \in 1 .. n |-> 0]

\* The low 32 bits of a number, least significant byte first; of a float32,
\* the bits of the signed integer that stands for it.
uint32ToBytes(n) ==
  << n % 256, (n \div 256) % 256, (n \div 65536) % 256, (n \div 16777216) % 256 >>

float32ToBytes(value) == uint32ToBytes(value)

stringToBytes(str) == str \o << 0 >>

\* Header, a path of two hops with hashes of four bytes, and the payload.
buildPacket(payloadType, routeType, source, dest, payload) ==
  << 4 * payloadType + routeType, 3 * 64 + 2 >>
    \o Slice(source.id, 0, 4) \o Slice(dest.id, 0, 4) \o payload

buildAdvertPacket(source, dest, now) ==
  buildPacket(PAYLOAD_TYPES.ADVERT, 1, source, dest,
    (source.id \o Zeros(PUBKEY_LEN - 4)) \o uint32ToBytes(now) \o Zeros(SIGNATURE_LEN)
      \o << source.role >> \o float32ToBytes(source.lat) \o float32ToBytes(source.lng)
      \o << 0, 0 >> \o stringToBytes(source.name))

\* Group texts are not encrypted: no channel key fits them.
buildGroupTextPacket(source, dest, message) ==
  buildPacket(PAYLOAD_TYPES.GRP_TXT, 1, source, dest, stringToBytes(message))

buildTextMsgPacket(source, dest, message) ==
  buildPacket(PAYLOAD_TYPES.TXT_MSG, 2, source, dest, stringToBytes(message))

buildTracePacket(source, dest, isRequest, hops) ==
  buildPacket(PAYLOAD_TYPES.TRACE, 1, source, dest,
    << IF isRequest THEN 0 ELSE 1 >>
      \o FlattenSeq([i \in DOMAIN hops |-> hops[i].id]))

\* What main publishes for a pick of a type, two nodes, what the type carries
\* (a message, or the direction and the hops of a trace), and the time.
Built(type, source, dest, content, now) ==
  CASE type = "advert" -> buildAdvertPacket(source, dest, now)
    [] type = "group_text" -> buildGroupTextPacket(source, dest, content)
    [] type = "text_message" -> buildTextMsgPacket(source, dest, content)
    [] type = "trace" -> buildTracePacket(source, dest, content.isRequest, content.hops)
=============================================================================
