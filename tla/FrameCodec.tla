------------------------------- MODULE FrameCodec -------------------------------
(***************************************************************************)
(* What nodes say to each other, byte by byte: the layout of consts.js,    *)
(* serialize and parse of wire.js, the build and verify functions of       *)
(* identity.js, and the primitives of crypto.js.                           *)
(*                                                                         *)
(* The signed region of a frame (header, identity, payload) is a function  *)
(* from offsets to bytes; numbers are the bytes they are written as.  The  *)
(* primitives are what they promise: a signature is the key that made it   *)
(* and what it was made over, a sealed frame the key and the frame, and an *)
(* agreed secret the two keys that went into it.  The 64 bytes of a        *)
(* signature, and the nonce and tag of a sealed frame, have no inside.     *)
(***************************************************************************)
EXTENDS Integers, Sequences

CONSTANT None

Byte == 0 .. 255
Bytes(n) == [1 .. n -> Byte]
Slice(f, at, len) == [k \in 1 .. len |-> f[at + k - 1]]

PROTO_V == 2
HEADER_LEN == 16
IDENTITY_LEN == 32
PAYLOAD_LEN == 80
SIGNED_REGION_LEN == HEADER_LEN + IDENTITY_LEN + PAYLOAD_LEN
PAYLOAD_OFF == HEADER_LEN + IDENTITY_LEN

Types == {"hello", "prevhash", "guard"}
TypeByte == [hello |-> 1, prevhash |-> 2, guard |-> 3]

\* Where the fields of each payload are.  What no field covers is reserved.
Fields == [
  hello    |-> [ephPub   |-> [at |-> 0, len |-> 32],
                prevhash |-> [at |-> 32, len |-> 32],
                nonce    |-> [at |-> 64, len |-> 16]],
  prevhash |-> [poolId      |-> [at |-> 0, len |-> 8],
                prevhash    |-> [at |-> 8, len |-> 32],
                blockHeight |-> [at |-> 40, len |-> 8]],
  guard    |-> [ppm           |-> [at |-> 0, len |-> 4],
                observedPeers |-> [at |-> 4, len |-> 1],
                windowStart   |-> [at |-> 5, len |-> 8]]]

Reserved == [hello |-> 80 .. 79, prevhash |-> 48 .. 79, guard |-> 13 .. 79]

Names(type) == DOMAIN Fields[type]
Covers(type, name, i) == /\ Fields[type][name].at <= i
                         /\ i < Fields[type][name].at + Fields[type][name].len

\* Whether v is what a message of a type can say in its payload.
Fits(type, v) ==
  /\ v = [name \in Names(type) |-> v[name]]
  /\ \A name \in Names(type) : v[name] \in Bytes(Fields[type][name].len)

-----------------------------------------------------------------------------
(* wire.js *)

\* serializeHelloPayload, serializePrevhashPayload, serializeGuardPayload.
WritePayload(type, v) ==
  [i \in 0 .. PAYLOAD_LEN - 1 |->
    IF \E name \in Names(type) : Covers(type, name, i)
    THEN LET name == CHOOSE name \in Names(type) : Covers(type, name, i)
         IN  v[name][i - Fields[type][name].at + 1]
    ELSE 0]

\* parseHelloPayload, parsePrevhashPayload, parseGuardPayload.
ReadPayload(type, p) ==
  [name \in Names(type) |-> Slice(p, Fields[type][name].at, Fields[type][name].len)]

\* serializeSignedRegion and the header.
WriteRegion(type, timestamp, identity, payload) ==
  [i \in 0 .. SIGNED_REGION_LEN - 1 |->
    CASE i = 0 -> PROTO_V
      [] i = 1 -> TypeByte[type]
      [] i \in 2 .. 9 -> timestamp[i - 1]
      [] i \in 10 .. 15 -> 0
      [] i \in 16 .. 47 -> identity[i - 15]
      [] i >= PAYLOAD_OFF -> payload[i - PAYLOAD_OFF]]

\* What parse() returns of the region.  A timestamp from 2^53 on loses its last
\* digits in Number(): nothing that far from now is ever accepted.
Timestamp(region) == Slice(region, 2, 8)
IdentityOf(region) == Slice(region, HEADER_LEN, IDENTITY_LEN)
PayloadOf(region) == [i \in 0 .. PAYLOAD_LEN - 1 |-> region[PAYLOAD_OFF + i]]
HasType(region, type) == region[1] = TypeByte[type]

\* The checks of parse().
WellFormed(region) ==
  /\ region[0] = PROTO_V
  /\ \A i \in 10 .. 15 : region[i] = 0
  /\ \E type \in Types : HasType(region, type)
                         /\ \A i \in Reserved[type] : region[PAYLOAD_OFF + i] = 0

-----------------------------------------------------------------------------
(* crypto.js *)

\* ed25519Sign and ed25519Verify.  A public key is the identity it stands for.
Sign(key, region) == [key |-> key, over |-> region]
Verify(key, region, signature) == signature = Sign(key, region)

\* x25519Diffie and deriveSessionKey: the same at both ends.
SessionKey(mine, theirs) == {mine, theirs}

\* aeadEncrypt and aeadDecrypt: the frame, or null.
Seal(key, frame) == [key |-> key, frame |-> frame]
Open(key, wire) == IF wire.key = key THEN wire.frame ELSE None

-----------------------------------------------------------------------------
(* identity.js *)

\* buildHello, buildPrevhash, buildGuard, with wrapSignature.
Build(type, timestamp, identity, v) ==
  LET region == WriteRegion(type, timestamp, identity, WritePayload(type, v))
  IN  [region |-> region, signature |-> Sign(identity, region)]

\* What a frame says, to who has verified it.
Read(frame) ==
  LET type == CHOOSE t \in Types : HasType(frame.region, t)
  IN  [type |-> type, timestamp |-> Timestamp(frame.region), identity |-> IdentityOf(frame.region),
       says |-> ReadPayload(type, PayloadOf(frame.region))]

\* Mutation of VerifyFrame: the signature is that of the channel, the sealing.
VerifyFrameUnsigned(frame, peer) ==
  /\ WellFormed(frame.region)
  /\ ~HasType(frame.region, "hello")
  /\ IdentityOf(frame.region) = peer

\* verifyFrame, but for the time.
VerifyFrame(frame, peer) ==
  /\ WellFormed(frame.region)
  /\ ~HasType(frame.region, "hello")
  /\ IdentityOf(frame.region) = peer
  /\ Verify(IdentityOf(frame.region), frame.region, frame.signature)

\* validateHello, but for the time and the chain.
ValidateHello(frame) ==
  /\ WellFormed(frame.region)
  /\ HasType(frame.region, "hello")
  /\ Verify(IdentityOf(frame.region), frame.region, frame.signature)

\* Mutation of ReplayKey: what is signed is told apart by its beginning.
ReplayKeyUnsigned(frame) ==
  <<Timestamp(frame.region), Slice(frame.region, PAYLOAD_OFF, 16)>>

\* The key of _framePostSeen: time, the first 16 bytes of the payload, and the first
\* 8 of the signature, which no two regions share.
ReplayKey(frame) ==
  <<Timestamp(frame.region), Slice(frame.region, PAYLOAD_OFF, 16), frame.signature>>

=============================================================================
