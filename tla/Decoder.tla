------------------------------- MODULE Decoder -------------------------------
(***************************************************************************)
(* The packet decoder (src/decoder, src/utils/hex.js): from the bytes of a *)
(* radio packet to the record that stores, services and dashboards use.    *)
(*                                                                         *)
(* Bytes are numbers below 256, a hex string is a sequence of digits, and  *)
(* a text is the sequence of its character codes.  Offsets count from 0,   *)
(* as in the code.  A float32 stands for the integer its bytes make up:    *)
(* positions are only told apart and handed on.  The cryptography of       *)
(* channels is external: Mac and Decrypt.                                  *)
(***************************************************************************)
EXTENDS Integers, Sequences, FiniteSets, SequencesExt

CONSTANTS
  NULL,
  ChannelKeys,     \* the configured keys, in order: [name, key]
  Mac(_, _),       \* the two bytes that authenticate a text under a key
  Decrypt(_, _)    \* the text a ciphertext hides under a key

PUBKEY_LEN == 32
SIGNATURE_LEN == 64
CIPHER_MAC_SIZE == 2
NODE_PREFIX_LEN == 4

PAYLOAD_TYPES ==
  [REQ |-> 0, RESPONSE |-> 1, TXT_MSG |-> 2, ACK |-> 3, ADVERT |-> 4,
   GRP_TXT |-> 5, GRP_DATA |-> 6, PATH |-> 8, TRACE |-> 9, CONTROL |-> 11]

\* The types with a name of their own; the others are named by their route.
PACKET_TYPES ==
  [REQ |-> "request", RESPONSE |-> "response", TXT_MSG |-> "text_message",
   ACK |-> "ack", ADVERT |-> "advert", GRP_TXT |-> "group_text",
   GRP_DATA |-> "group_data", PATH |-> "path", TRACE |-> "trace",
   CONTROL |-> "control"]

-----------------------------------------------------------------------------
(* Bytes.                                                                  *)

bytesToHex(bytes) ==
  [i \in 1 .. 2 * Len(bytes) |->
     IF i % 2 = 1 THEN bytes[(i + 1) \div 2] \div 16 ELSE bytes[i \div 2] % 16]

\* An odd number of digits is padded in front.
hexToBytes(hex) ==
  LET even == IF Len(hex) % 2 = 1 THEN << 0 >> \o hex ELSE hex
  IN  [i \in 1 .. Len(even) \div 2 |-> 16 * even[2 * i - 1] + even[2 * i]]

\* bytes.slice(from, to) and bytes.slice(from).
Slice(bytes, from, to) == SubSeq(bytes, from + 1, to)
From(bytes, from) == Slice(bytes, from, Len(bytes))

Printable(byte) == byte \in 32 .. 126

\* The characters before the first zero byte, a dot for what cannot be shown.
Text(bytes) ==
  LET zero == SelectInSeq(bytes, LAMBDA b : b = 0)
      end == IF zero = 0 THEN Len(bytes) ELSE zero - 1
  IN  [i \in 1 .. end |-> IF Printable(bytes[i]) THEN bytes[i] ELSE 46]

TextOrNull(bytes) == IF Text(bytes) = << >> THEN NULL ELSE Text(bytes)

\* Slip: the bytes in the order of the network.
ReadBigEndian(bytes, at) ==
  IF at + 4 > Len(bytes) THEN NULL
  ELSE LET b == Slice(bytes, at, at + 4)
           top == IF b[1] >= 128 THEN b[1] - 256 ELSE b[1]
       IN  b[4] + 256 * b[3] + 65536 * b[2] + 16777216 * top

\* Four bytes, least significant first.  The code puts them together with
\* operators on signed 32-bit numbers: the top bit counts as a sign.
readUint32LE(bytes, at) ==
  IF at + 4 > Len(bytes) THEN NULL
  ELSE LET b == Slice(bytes, at, at + 4)
           top == IF b[4] >= 128 THEN b[4] - 256 ELSE b[4]
       IN  b[1] + 256 * b[2] + 65536 * b[3] + 16777216 * top

readFloat32LE(bytes, at) == readUint32LE(bytes, at)

-----------------------------------------------------------------------------
(* Header and path.                                                        *)

parseHeader(byte) ==
  [version |-> byte \div 64, payloadType |-> (byte \div 4) % 16, routeType |-> byte % 4]

hasTransportCodes(routeType) == routeType \in {0, 3}

\* Slip: the size of a hop hash is taken as it is coded.
PathLenUnbiased(byte) == [hashSize |-> byte \div 64, hashCount |-> byte % 64]

parsePathLen(byte) == [hashSize |-> (byte \div 64) + 1, hashCount |-> byte % 64]

resolvePacketType(payloadType, routeType) ==
  LET named == {t \in DOMAIN PACKET_TYPES : PAYLOAD_TYPES[t] = payloadType}
  IN  IF named # {} THEN PACKET_TYPES[CHOOSE t \in named : TRUE]
      ELSE IF routeType \in {0, 1} THEN "flood" ELSE "direct"

\* Does a path of that form, from offset at on, fit into the packet?
PathFits(bytes, at, form) == at + form.hashSize * form.hashCount <= Len(bytes)

\* A path that goes beyond the packet is read as none.
HopPath(bytes, at, form) ==
  IF PathFits(bytes, at, form)
  THEN [i \in 1 .. form.hashCount |->
          bytesToHex(Slice(bytes, at + (i - 1) * form.hashSize, at + i * form.hashSize))]
  ELSE << >>

-----------------------------------------------------------------------------
(* Payloads, from offset at on.                                            *)

roleFromFlags(flags) ==
  CASE flags % 4 = 1 -> "repeater"
    [] flags % 4 = 2 -> "room_server"
    [] flags % 4 = 3 -> "companion"
    [] OTHER -> "unknown"

\* What is left of an advert that ends before its application data.
BareAdvert(publicKey, time) ==
  [kind |-> "advert", publicKey |-> publicKey, advertTimestamp |-> time,
   name |-> NULL, latitude |-> NULL, longitude |-> NULL, role |-> "unknown",
   features |-> NULL]

\* Flags, position, features and name, each read where the one before ended;
\* a number that does not fit is null and takes no bytes.
AppData(bytes, at) ==
  LET hasFlags == at < Len(bytes)
      atLat == IF hasFlags THEN at + 1 ELSE at
      lat == readFloat32LE(bytes, atLat)
      atLon == IF lat = NULL THEN atLat ELSE atLat + 4
      lon == readFloat32LE(bytes, atLon)
      atFeatures == IF lon = NULL THEN atLon ELSE atLon + 4
      hasFeatures == atFeatures + 2 <= Len(bytes)
      atName == IF hasFeatures THEN atFeatures + 2 ELSE atFeatures
  IN  [role |-> IF hasFlags THEN roleFromFlags(bytes[at + 1]) ELSE "unknown",
       latitude |-> lat, longitude |-> lon,
       features |-> IF hasFeatures
                    THEN bytes[atFeatures + 1] + 256 * bytes[atFeatures + 2] ELSE NULL,
       name |-> TextOrNull(From(bytes, atName))]

FullAdvert(publicKey, time, app) ==
  [kind |-> "advert", publicKey |-> publicKey, advertTimestamp |-> time,
   name |-> app.name, latitude |-> app.latitude, longitude |-> app.longitude,
   role |-> app.role, features |-> app.features]

decodeAdvert(bytes, at) ==
  LET atTime == at + PUBKEY_LEN
      time == readUint32LE(bytes, atTime)
      atSignature == IF time = NULL THEN atTime ELSE atTime + 4
      key == bytesToHex(Slice(bytes, at, atTime))
  IN  IF atTime > Len(bytes) THEN BareAdvert(NULL, NULL)
      ELSE IF atSignature + SIGNATURE_LEN > Len(bytes) THEN BareAdvert(key, time)
      ELSE FullAdvert(key, time, AppData(bytes, atSignature + SIGNATURE_LEN))

\* The last two bytes authenticate the ones before them.
verifyMac(payload, key) ==
  LET end == Len(payload) - CIPHER_MAC_SIZE
  IN  end >= 0 /\ From(payload, end) = Mac(Slice(payload, 0, end), key)

\* Seven tenths of the bytes, at least, are what a text is made of.
isValidText(bytes) ==
  LET good == SelectSeq(bytes, LAMBDA b : Printable(b) \/ b \in {0, 10, 13})
  IN  bytes # << >> /\ 10 * Len(good) >= 7 * Len(bytes)

PlainUnder(payload, key) ==
  Decrypt(Slice(payload, 0, Len(payload) - CIPHER_MAC_SIZE), key)

\* The first configured key that fits.
decodeChannel(bytes, at) ==
  LET payload == From(bytes, at)
      k == SelectInSeq(ChannelKeys, LAMBDA c :
             verifyMac(payload, c.key) /\ isValidText(PlainUnder(payload, c.key)))
  IN  IF at >= Len(bytes) \/ k = 0
      THEN [kind |-> "channel", channel |-> NULL, message |-> NULL, encrypted |-> TRUE]
      ELSE [kind |-> "channel", channel |-> ChannelKeys[k].name, encrypted |-> FALSE,
            message |-> TextOrNull(PlainUnder(payload, ChannelKeys[k].key))]

\* A text message is taken for encrypted if less than half of it is readable.
decodeDirect(bytes, at) ==
  LET payload == Text(From(bytes, at))
      shown == {i \in DOMAIN payload : Printable(bytes[at + i])}
  IN  [kind |-> "direct", payload |-> payload,
       encrypted |-> \/ at >= Len(bytes)
                     \/ payload # << >> /\ 2 * Cardinality(shown) < Len(payload)]

decodeGroupText(bytes, at) == [kind |-> "flood", payload |-> Text(From(bytes, at))]

\* A direction byte and as many whole prefixes as follow it.
decodeTrace(bytes, at) ==
  LET rest == From(bytes, at)
      size == NODE_PREFIX_LEN
  IN  IF rest = << >> THEN [kind |-> "trace", isRequest |-> TRUE, path |-> << >>]
      ELSE [kind |-> "trace", isRequest |-> rest[1] = 0,
            path |-> [i \in 1 .. (Len(rest) - 1) \div size |->
                        bytesToHex(Slice(rest, 1 + (i - 1) * size, 1 + i * size))]]

decodePayload(payloadType, bytes, at) ==
  CASE payloadType = PAYLOAD_TYPES.ADVERT -> decodeAdvert(bytes, at)
    [] payloadType \in {PAYLOAD_TYPES.GRP_TXT, PAYLOAD_TYPES.GRP_DATA} ->
         decodeChannel(bytes, at)
    [] payloadType = PAYLOAD_TYPES.TXT_MSG -> decodeDirect(bytes, at)
    [] payloadType = PAYLOAD_TYPES.TRACE -> decodeTrace(bytes, at)
    [] payloadType = PAYLOAD_TYPES.ACK -> [kind |-> "ack"]
    [] OTHER -> decodeGroupText(bytes, at)

-----------------------------------------------------------------------------
(* The packet.                                                             *)

\* A packet too short to have a header and a path is kept, as unknown.
buildErrorPacket(hex) ==
  [hash |-> hex, type |-> "unknown", sourceId |-> NULL, destId |-> NULL, hops |-> 0,
   hopPath |-> << >>, snr |-> NULL, channel |-> NULL,
   decodedPayload |-> [kind |-> "error"]]

\* The hash, a digest of the hex string, is represented by the string.
decodePacket(hex) ==
  LET bytes == hexToBytes(hex)
      header == parseHeader(bytes[1])
      atPathLen == IF hasTransportCodes(header.routeType) THEN 5 ELSE 1
      form == parsePathLen(bytes[atPathLen + 1])
      path == HopPath(bytes, atPathLen + 1, form)
      atPayload == IF PathFits(bytes, atPathLen + 1, form)
                   THEN atPathLen + 1 + form.hashSize * form.hashCount
                   ELSE Len(bytes)
      payload == decodePayload(header.payloadType, bytes, atPayload)
  IN  IF Len(bytes) < 2 \/ atPathLen >= Len(bytes) THEN buildErrorPacket(hex)
      ELSE [hash |-> hex,
            type |-> resolvePacketType(header.payloadType, header.routeType),
            sourceId |-> IF path = << >> THEN NULL ELSE path[1],
            destId |-> IF Len(path) < 2 THEN NULL ELSE path[Len(path)],
            hops |-> form.hashCount, hopPath |-> path, snr |-> NULL,
            channel |-> IF payload.kind = "channel" THEN payload.channel ELSE NULL,
            decodedPayload |-> payload]
=============================================================================
