------------------------------ MODULE ReplayGuard ------------------------------
(***************************************************************************)
(* How a node keeps what it has been told from being told again: the       *)
(* tolerance for timestamps (validateHello and verifyFrame of              *)
(* src/federation/identity.js), the HELLO nonces of the process and the    *)
(* set of frames seen of each peer (node.js), and what session.js makes of *)
(* them.                                                                   *)
(*                                                                         *)
(* A HELLO or a frame is a signed piece of data that anyone may deliver at *)
(* any time, any number of times.  Its lead is its timestamp minus now.    *)
(* The sets of frames of different peers have nothing to do with each      *)
(* other: there is one peer here.                                          *)
(***************************************************************************)
EXTENDS AgedLists

CONSTANTS
  Hellos,
  Frames,
  HelloKey,   \* the nonce each HELLO is remembered by, whoever sends it
  FrameKey,   \* the key each frame is remembered by
  Tolerance,  \* TS_SKEW_TOLERANCE_MS, in clock units
  MaxNonces,  \* how many nonces _helloNonces keeps
  MaxSeen     \* SEEN_NONCE_PER_PEER

ASSUME NumbersAssumption == Tolerance \in Nat /\ MaxNonces \in Nat \ {0} /\ MaxSeen \in Nat \ {0}
ASSUME KindsAssumption == Hellos \cap Frames = {} /\ DOMAIN HelloKey = Hellos /\ DOMAIN FrameKey = Frames

Nonces == {HelloKey[h] : h \in Hellos}

Leads == -(Tolerance + 1) .. Tolerance + 1

VARIABLES
  lead,     \* timestamp - now of everything that was ever signed
  nonces,   \* _helloNonces, oldest first: the nonce of a HELLO and the age of its entry
  seen,     \* _frameReplay of the peer, oldest first: the keys of its frames
  taken,    \* history: how often each HELLO and frame was taken for new, up to 2
  struck    \* whether the last step handed a 'policy-violation' to the limiter

vars == <<lead, nonces, seen, taken, struck>>

Init ==
  /\ lead \in [Hellos \cup Frames -> Leads]
  /\ nonces = <<>>
  /\ seen = <<>>
  /\ taken = [m \in Hellos \cup Frames |-> 0]
  /\ struck = FALSE

-----------------------------------------------------------------------------
Smaller(a, b) == IF a < b THEN a ELSE b
Take(m) == taken' = [taken EXCEPT ![m] = Smaller(@ + 1, 2)]

\* |now - timestamp| <= TS_SKEW_TOLERANCE_MS
Acceptable(m) == lead[m] >= -Tolerance /\ lead[m] <= Tolerance

\* Mutation of Expired: an entry is kept for one tolerance.
ExpiredEarly(entry) == entry.age > Tolerance

\* Entries leave from the front, up to the first that is young enough.
Expired(entry) == entry.age > 2 * Tolerance
Unexpired == FromFirst(nonces, {i \in DOMAIN nonces : ~Expired(nonces[i])})

\* The nonce alone is looked up: the HELLO of anybody else that has it is seen too.
NonceSeen(h) == \E entry \in ToSet(Unexpired) : entry.nonce = HelloKey[h]

\* A HELLO with a new nonce opens a session.
NewHello(h) ==
  /\ Acceptable(h) /\ ~NonceSeen(h)
  /\ nonces' = Latest(Append(Unexpired, [nonce |-> HelloKey[h], age |-> 0]), MaxNonces)
  /\ Take(h)
  /\ struck' = FALSE
  /\ UNCHANGED <<lead, seen>>

\* A HELLO with a nonce that was seen before closes the connection.
ReplayedHello(h) ==
  /\ Acceptable(h) /\ NonceSeen(h)
  /\ nonces' = Unexpired
  /\ struck' = FALSE
  /\ UNCHANGED <<lead, seen, taken>>

\* Mutation of NewFrame: the set is cut before the frame is in it.
NewFrameUncut(f) ==
  /\ Acceptable(f) /\ FrameKey[f] \notin ToSet(seen)
  /\ seen' = Append(Latest(seen, MaxSeen), FrameKey[f])
  /\ Take(f)
  /\ struck' = FALSE
  /\ UNCHANGED <<lead, nonces>>

\* A frame that was not seen before goes to the 'frame' handler.
NewFrame(f) ==
  /\ Acceptable(f) /\ FrameKey[f] \notin ToSet(seen)
  /\ seen' = Latest(Append(seen, FrameKey[f]), MaxSeen)
  /\ Take(f)
  /\ struck' = FALSE
  /\ UNCHANGED <<lead, nonces>>

ReplayedFrame(f) ==
  /\ Acceptable(f) /\ FrameKey[f] \in ToSet(seen)
  /\ struck' = TRUE
  /\ UNCHANGED <<lead, nonces, seen, taken>>

\* Too early or too late: the same for every frame.  (A HELLO only closes its
\* connection.)
SkewedFrame(f) ==
  /\ ~Acceptable(f)
  /\ struck' = TRUE
  /\ UNCHANGED <<lead, nonces, seen, taken>>

Tick ==
  /\ lead' = [m \in DOMAIN lead |-> IF lead[m] < -Tolerance THEN lead[m] ELSE lead[m] - 1]
  /\ nonces' = [i \in DOMAIN nonces |->
                  IF Expired(nonces[i]) THEN nonces[i] ELSE [nonces[i] EXCEPT !.age = @ + 1]]
  /\ struck' = FALSE
  /\ UNCHANGED <<seen, taken>>

Next ==
  \/ \E h \in Hellos : NewHello(h) \/ ReplayedHello(h)
  \/ \E f \in Frames : NewFrame(f) \/ ReplayedFrame(f) \/ SkewedFrame(f)
  \/ Tick

Spec == Init /\ [][Next]_vars

-----------------------------------------------------------------------------
(* Every variable has the type its comment gives, and the caches their bounds. *)
TypeOK ==
  /\ lead \in [Hellos \cup Frames -> Leads]
  /\ nonces \in Seq([nonce : Nonces, age : 0 .. 2 * Tolerance + 1]) /\ Len(nonces) <= MaxNonces
  /\ seen \in Seq({FrameKey[f] : f \in Frames}) /\ Len(seen) <= MaxSeen
  /\ taken \in [Hellos \cup Frames -> 0 .. 2]
  /\ struck \in BOOLEAN

\* As long as the cache of nonces is not full, no HELLO opens two sessions: by
\* the time its nonce is forgotten its timestamp is too old, even if it first
\* came from a clock that was as far ahead as is tolerated.
NonceOnce == \A h \in Hellos : taken[h] <= 1

-----------------------------------------------------------------------------
(* What the documents say and the code does not do. *)

\* SPEC-FEDERATION-v1.md 3.6 "Replay protection": duplicate frames within the
\* freshness window are dropped.
FrameOnce == \A f \in Frames : taken[f] <= 1

\* The same section: a duplicate frame is dropped without a strike.
DuplicatesAreForgiven == [][\A f \in Frames : ReplayedFrame(f) => ~struck']_vars

=============================================================================
