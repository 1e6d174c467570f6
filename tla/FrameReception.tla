----------------------------- MODULE FrameReception -----------------------------
(***************************************************************************)
(* What a session makes of the bytes that arrive: _onRaw and _onHandshake  *)
(* of src/federation/session.js, which open, parse and verify them         *)
(* (FrameCodec) before they ask whether they were seen before              *)
(* (ReplayGuard).                                                          *)
(*                                                                         *)
(* Any copy of a message may have changed by one byte on its way, before   *)
(* it was sealed or after.  Which changes come through depends on the      *)
(* message and the byte only.                                              *)
(***************************************************************************)
EXTENDS ReplayGuard, FrameCodec

CONSTANTS
  Content,  \* of each message: its type, timestamp, identity, and what it says
  Peer,     \* the identity of the peer of the session
  Changes   \* what may be added to a byte on its way, modulo 256

Messages == Hellos \cup Frames

\* A message as its sender has built it.
Encoded(m) == LET c == Content[m] IN Build(c.type, c.timestamp, c.identity, c.says)

ASSUME ContentAssumption ==
  \A m \in Messages :
    /\ Content[m] = [x \in {"type", "timestamp", "identity", "says"} |-> Content[m][x]]
    /\ Content[m].type \in Types /\ Fits(Content[m].type, Content[m].says)
    /\ Content[m].timestamp \in Bytes(8) /\ Content[m].identity \in Bytes(IDENTITY_LEN)
    /\ (Content[m].type = "hello") <=> (m \in Hellos)
ASSUME ChangesAssumption == Changes \subseteq 1 .. 255
\* A HELLO is remembered by its nonce.
ASSUME HellosAssumption == \A h \in Hellos : HelloKey[h] = Content[h].says.nonce
\* Messages that say the same are the same, and the keys of frames are ReplayKey's.
ASSUME FramesAssumption ==
  /\ \A m, n \in Messages : Content[m] = Content[n] => m = n
  /\ \A f, g \in Frames :
       FrameKey[f] = FrameKey[g] <=> ReplayKey(Encoded(f)) = ReplayKey(Encoded(g))

VARIABLE distorted   \* history: the messages that were taken for something else than they say

receptionVars == <<vars, distorted>>

\* A time is the same number for whoever looks at it.
ReceptionInit ==
  /\ Init
  /\ \A m, n \in Messages : Content[m].timestamp = Content[n].timestamp => lead[m] = lead[n]
  /\ distorted = {}

-----------------------------------------------------------------------------
(* One copy of a message on its way. *)

\* Which byte is changed, and by how much: of the signed region, of the signature,
\* of what is sealed.  None is no change.
SIGNATURE == SIGNED_REGION_LEN
SEALED == SIGNED_REGION_LEN + 1
Damages == {[at |-> at, by |-> by] : at \in 0 .. SEALED, by \in Changes}

Damaged(frame, d) ==
  IF d = None THEN frame
  ELSE CASE d.at < SIGNATURE -> [frame EXCEPT !.region[d.at] = (@ + d.by) % 256]
         [] d.at = SIGNATURE -> [frame EXCEPT !.signature.key = None]
         [] d.at = SEALED -> frame

\* A frame is sealed with the key that both ends derive from their HELLOs, a HELLO
\* is not sealed; what was changed after it was sealed was not sealed with any key.
OnTheWire(m, d) ==
  Seal(IF d # None /\ d.at = SEALED THEN None ELSE SessionKey("theirs", "mine"), Damaged(Encoded(m), d))
Opened(m, d) ==
  IF m \in Hellos THEN Damaged(Encoded(m), d) ELSE Open(SessionKey("mine", "theirs"), OnTheWire(m, d))

\* What the session does not close the connection or strike the peer for, unless it
\* is late, early or seen before.
Passes(m, d) ==
  IF m \in Hellos THEN ValidateHello(Opened(m, d))
  ELSE Opened(m, d) # None /\ VerifyFrame(Opened(m, d), Peer)

Copies == {[of |-> m, damage |-> d] : m \in Messages, d \in Damages \cup {None}}
PassingCopies == {c \in Copies : Passes(c.of, c.damage)}
Refusable == {m \in Messages : \E c \in Copies \ PassingCopies : c.of = m}
Distortions == {c \in PassingCopies : Read(Opened(c.of, c.damage)) # Content[c.of]}

-----------------------------------------------------------------------------
Understood(c) ==
  distorted' = IF taken' # taken /\ c \in Distortions THEN distorted \cup {c.of} ELSE distorted

\* _onHandshake, from validateHello on.
ReceiveHello(c) == (NewHello(c.of) \/ ReplayedHello(c.of)) /\ Understood(c)

\* Mutation of RefuseHello: the nonce is looked up before the HELLO is validated.
RefuseHelloLate(h) ==
  /\ ~Acceptable(h) \/ h \in Refusable
  /\ nonces' = IF NonceSeen(h) THEN Unexpired
               ELSE Latest(Append(Unexpired, [nonce |-> HelloKey[h], age |-> 0]), MaxNonces)
  /\ struck' = FALSE
  /\ UNCHANGED <<lead, seen, taken, distorted>>

\* A HELLO that does not validate closes its connection before its nonce is looked at.
RefuseHello(h) ==
  /\ ~Acceptable(h) \/ h \in Refusable
  /\ struck' = FALSE
  /\ UNCHANGED <<lead, nonces, seen, taken, distorted>>

\* _onRaw, when the frame opens and verifies.
ReceiveFrame(c) == (NewFrame(c.of) \/ ReplayedFrame(c.of)) /\ Understood(c)

\* 'policy-violation' of any reason but 'replay': the frame is not looked at.
RefuseFrame(f) ==
  \/ SkewedFrame(f) /\ UNCHANGED distorted
  \/ /\ f \in Refusable
     /\ struck' = TRUE
     /\ UNCHANGED <<lead, nonces, seen, taken, distorted>>

ReceptionNext ==
  \/ \E c \in PassingCopies : IF c.of \in Hellos THEN ReceiveHello(c) ELSE ReceiveFrame(c)
  \/ \E h \in Hellos : RefuseHello(h)
  \/ \E f \in Frames : RefuseFrame(f)
  \/ Tick /\ UNCHANGED distorted

ReceptionSpec == ReceptionInit /\ [][ReceptionNext]_receptionVars

-----------------------------------------------------------------------------
\* What is taken is what was said: whichever byte of a message is changed on its way,
\* inside the seal or outside of it, the copy is refused or reads the same.
HeardIsSaid == distorted = {}

\* Nothing is taken for a replay of what never came.  A frame is one only if that very
\* frame was taken before: no other frame is remembered by its key, and no changed
\* copy that came first was remembered at all.  A HELLO is one if some HELLO with its
\* nonce was taken, be it the HELLO of somebody else, and only then.
ReplaysAreReplays ==
  /\ \A h \in Hellos :
       NonceSeen(h) => \E g \in Hellos : HelloKey[g] = HelloKey[h] /\ taken[g] > 0
  /\ \A f \in Frames : FrameKey[f] \in ToSet(seen) => taken[f] > 0

=============================================================================
