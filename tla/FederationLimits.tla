---------------------------- MODULE FederationLimits ----------------------------
(***************************************************************************)
(* What a federation node does to peers that send too much, or what they   *)
(* should not: PerPeerLimiter and BanList of src/federation/limits.js, and *)
(* the handlers of 'frame' and 'policy-violation' of node.js that turn a   *)
(* verdict into a closed session.                                          *)
(*                                                                         *)
(* Points in time are kept as ages (of strikes and hard quarantines, up to *)
(* one more than the window they count for) or as the time that is left    *)
(* (of quarantines and bans), in clock units.  All frames have one length, *)
(* and PEER_BYTE_BURST and PEER_BYTE_CAP_PER_S let more of them through    *)
(* than PEER_FRAME_BURST and PEER_FRAME_CAP: the second bucket, refilled   *)
(* and drained along with the first, never refuses and is left out.        *)
(***************************************************************************)
EXTENDS FiniteSets, AgedLists

CONSTANTS
  Peers,
  Ips,
  Origins,         \* the configurations to choose from: each says where the peers are
  FrameBurst,      \* PEER_FRAME_BURST
  FrameCap,        \* PEER_FRAME_CAP, per clock unit
  StrikeWindow,    \* STRIKE_WINDOW_MS
  SoftThreshold,   \* STRIKE_SOFT_THRESHOLD
  HardThreshold,   \* STRIKE_HARD_THRESHOLD
  SoftQuarantine,  \* SOFT_QUARANTINE_MS
  HardQuarantine,  \* HARD_QUARANTINE_MS
  HardHistory,     \* how long a hard quarantine counts against its IP: 24 h
  HardLimit,       \* HARD_HISTORY_24H_LIMIT
  PersistentBan,   \* PERSISTENT_BAN_MS
  BanListMax,      \* BAN_LIST_MAX
  MaxHards,        \* bound of the model: hard quarantines an IP has on record, under
                   \* each configuration
  None

ASSUME NoneAssumption == None \notin Ips /\ None \notin Peers
ASSUME IpsAssumption == Origins \subseteq [Peers -> Ips \cup {None}]
ASSUME LimitsAssumption ==
  /\ FrameBurst \in Nat \ {0} /\ FrameCap \in Nat /\ StrikeWindow \in Nat
  /\ SoftThreshold \in Nat \ {0} /\ HardThreshold \in Nat /\ SoftThreshold < HardThreshold
  /\ SoftQuarantine \in Nat \ {0} /\ HardQuarantine \in Nat \ {0}
  /\ HardHistory \in Nat /\ HardLimit \in Nat \ {0}
  /\ PersistentBan \in Nat /\ HardQuarantine <= PersistentBan
  /\ BanListMax \in Nat \ {0} /\ MaxHards \in [Origins -> Nat]

PeerStates == [tokens : 0 .. FrameBurst, strikes : Seq(0 .. StrikeWindow + 1),
               softLeft : 0 .. SoftQuarantine, hardLeft : 0 .. HardQuarantine]

VARIABLES
  ipOf,        \* the IP a peer came from, None for one that this node dialed; never changed
  link,        \* the session of each peer: "none", in its "handshake", "open", or
               \* "closing" (closed here, but what was on its way is delivered)
  limiter,     \* _peers: the PeerState of each peer, or None
  hardByIp,    \* _hardByIp: ages of the hard quarantines of each IP, oldest first
  banOrder,    \* _bans: its keys, in the order of their insertion
  banLeft,     \* _bans: how much longer each key is banned, 0 when expired or absent
  announcer,   \* the peer whose frame the last step passed on, or None
  sentence     \* history: what is left of the last hard quarantine of each peer

limits == <<limiter, hardByIp>>
bans == <<banOrder, banLeft>>
vars == <<ipOf, link, limits, bans, announcer, sentence>>

Larger(a, b) == IF a > b THEN a ELSE b
Smaller(a, b) == IF a < b THEN a ELSE b
Less(n) == IF n > 0 THEN n - 1 ELSE 0

FreshState == [tokens |-> FrameBurst, strikes |-> <<>>, softLeft |-> 0, hardLeft |-> 0]

Init ==
  /\ ipOf \in Origins
  /\ link = [p \in Peers |-> "none"]
  /\ limiter = [p \in Peers |-> None]
  /\ hardByIp = [ip \in Ips |-> <<>>]
  /\ banOrder = <<>>
  /\ banLeft = [ip \in Ips |-> 0]
  /\ announcer = None
  /\ sentence = [p \in Peers |-> 0]

-----------------------------------------------------------------------------
(* The ban list. *)

IsBanned(ip) == ip # None /\ banLeft[ip] > 0

\* Mutation of Ban: the last ban counts, even if it is shorter.
BanOverwriting(ip, time) ==
  /\ banOrder' = IF ip \in ToSet(banOrder) THEN banOrder ELSE Append(banOrder, ip)
  /\ banLeft' = [banLeft EXCEPT ![ip] = time]

\* Mutation of Ban: the list is cut before the new ban is in it.
BanAfterEviction(ip, time) ==
  LET surplus == Larger(Len(banOrder) - BanListMax, 0)
      evicted == {banOrder[i] : i \in 1 .. surplus}
      order == SubSeq(banOrder, surplus + 1, Len(banOrder))
      left == [i \in Ips |-> IF i \in evicted THEN 0 ELSE banLeft[i]]
  IN  /\ banOrder' = IF ip \in ToSet(order) THEN order ELSE Append(order, ip)
      /\ banLeft' = [left EXCEPT ![ip] = Larger(@, time)]

\* BanList.add: a ban is never shortened, a new one goes to the end of the list.
\* What does not fit is evicted from the front, bans that have expired or not.
Ban(ip, time) ==
  LET order == IF ip \in ToSet(banOrder) THEN banOrder ELSE Append(banOrder, ip)
      left == [banLeft EXCEPT ![ip] = Larger(@, time)]
      surplus == Larger(Len(order) - BanListMax, 0)
      evicted == {order[i] : i \in 1 .. surplus}
  IN  /\ banOrder' = SubSeq(order, surplus + 1, Len(order))
      /\ banLeft' = [i \in Ips |-> IF i \in evicted THEN 0 ELSE left[i]]

-----------------------------------------------------------------------------
(* The limiter. *)

\* What is pruned is pruned from the front, up to the first that is recent.
Recent(ages, window) == FromFirst(ages, {i \in DOMAIN ages : ages[i] <= window})

\* _peerState and _pruneStrikes.
StateOf(p) ==
  LET s == IF limiter[p] = None THEN FreshState ELSE limiter[p]
  IN  [s EXCEPT !.strikes = Recent(@, StrikeWindow)]

\* _pruneHardHistory.
HardRecord(ip) == Recent(hardByIp[ip], HardHistory)

\* _strike takes s to Struck(s): does it come to a hard quarantine, or a soft one?
ComesToHard(s) == Len(s.strikes) + 1 >= HardThreshold /\ s.hardLeft = 0
ComesToSoft(s) == Len(s.strikes) + 1 >= SoftThreshold /\ s.softLeft = 0
Struck(s) ==
  [s EXCEPT !.strikes = Append(@, 0),
            !.softLeft = IF ComesToSoft(s) /\ ~ComesToHard(s) THEN SoftQuarantine ELSE @]

\* session.close and limiter.forget.
Terminate(p) ==
  /\ link' = [link EXCEPT ![p] = "closing"]
  /\ limiter' = [limiter EXCEPT ![p] = None]

\* Mutation of GoHard: the session is closed, the peer's state is kept.
GoHardRemembering(p) ==
  LET ip == ipOf[p]
  IN  /\ link' = [link EXCEPT ![p] = "closing"]
      /\ limiter' = [limiter EXCEPT ![p] =
           [Struck(StateOf(p)) EXCEPT !.hardLeft = HardQuarantine]]
      /\ sentence' = [sentence EXCEPT ![p] = HardQuarantine]
      /\ IF ip = None
         THEN UNCHANGED <<hardByIp, bans>>
         ELSE /\ Len(HardRecord(ip)) < MaxHards[ipOf]
              /\ hardByIp' = [hardByIp EXCEPT ![ip] = Append(HardRecord(ip), 0)]
              /\ Ban(ip, IF Len(HardRecord(ip)) + 1 >= HardLimit THEN PersistentBan
                                                                ELSE HardQuarantine)

\* A hard quarantine, and what the node does about it.  The peer's hardUntil,
\* set first, is forgotten with the rest of its state.
GoHard(p) ==
  LET ip == ipOf[p]
  IN  /\ Terminate(p)
      /\ sentence' = [sentence EXCEPT ![p] = HardQuarantine]
      /\ IF ip = None
         THEN UNCHANGED <<hardByIp, bans>>
         ELSE /\ Len(HardRecord(ip)) < MaxHards[ipOf]
              /\ hardByIp' = [hardByIp EXCEPT ![ip] = Append(HardRecord(ip), 0)]
              /\ Ban(ip, IF Len(HardRecord(ip)) + 1 >= HardLimit THEN PersistentBan
                                                                ELSE HardQuarantine)

\* The peer's state and the record of its IP after a charge or a strike that has
\* no consequence for the session.
Keep(p, s) ==
  /\ limiter' = [limiter EXCEPT ![p] = s]
  /\ hardByIp' = IF ipOf[p] = None THEN hardByIp
                 ELSE [hardByIp EXCEPT ![ipOf[p]] = HardRecord(ipOf[p])]
  /\ UNCHANGED <<link, bans, sentence>>

Strike(p, s) ==
  /\ announcer' = None
  /\ IF ComesToHard(s) THEN GoHard(p) ELSE Keep(p, Struck(s))

-----------------------------------------------------------------------------
(* The handlers of the node. *)

Delivers(p) == link[p] \in {"open", "closing"}

\* A new session.  Asking the ban list drops a ban that has expired.
Connect(p) ==
  /\ link[p] = "none" /\ ~IsBanned(ipOf[p])
  /\ link' = [link EXCEPT ![p] = "handshake"]
  /\ banOrder' = Deleted(banOrder, {i \in DOMAIN banOrder : banOrder[i] = ipOf[p]})
  /\ announcer' = None
  /\ UNCHANGED <<limits, banLeft, sentence>>

\* 'ready'.  The ban list is not asked again.
Ready(p) ==
  /\ link[p] = "handshake"
  /\ link' = [link EXCEPT ![p] = "open"]
  /\ announcer' = None
  /\ UNCHANGED <<limits, bans, sentence>>

\* 'close'.  What the limiter knows of the peer stays.
Disconnect(p) ==
  /\ link[p] # "none"
  /\ link' = [link EXCEPT ![p] = "none"]
  /\ announcer' = None
  /\ UNCHANGED <<limits, bans, sentence>>

\* Not a frame at all, not decryptable, not valid, or a replay.
PolicyViolation(p) == Delivers(p) /\ Strike(p, StateOf(p))

\* In a soft quarantine every frame is a strike.
InsistentFrame(p) ==
  /\ Delivers(p)
  /\ StateOf(p).hardLeft = 0 /\ StateOf(p).softLeft > 0
  /\ Strike(p, StateOf(p))

FrameTooMany(p) ==
  /\ Delivers(p)
  /\ StateOf(p).hardLeft = 0 /\ StateOf(p).softLeft = 0 /\ StateOf(p).tokens = 0
  /\ Strike(p, StateOf(p))

Charged(p) == [StateOf(p) EXCEPT !.tokens = @ - 1]
\* Mutation of Allowed: a frame is charged before the bucket is looked at.
AllowedOnCredit(p) ==
  /\ Delivers(p)
  /\ StateOf(p).hardLeft = 0 /\ StateOf(p).softLeft = 0

Allowed(p) ==
  /\ Delivers(p)
  /\ StateOf(p).hardLeft = 0 /\ StateOf(p).softLeft = 0 /\ StateOf(p).tokens > 0

\* The frame goes on to whoever listens: 'prevhash-announce' or 'guard-hint'; or
\* its payload says nothing and it is dropped.
FramePasses(p) ==
  /\ Allowed(p)
  /\ Keep(p, Charged(p))
  /\ announcer' \in {p, None}

\* The frame contradicts an earlier one of the peer: see EquivocationLog.
Equivocates(p) ==
  /\ Allowed(p)
  /\ IF ipOf[p] = None THEN UNCHANGED bans ELSE Ban(ipOf[p], HardQuarantine)
  /\ Terminate(p)
  /\ hardByIp' = IF ipOf[p] = None THEN hardByIp
                 ELSE [hardByIp EXCEPT ![ipOf[p]] = HardRecord(ipOf[p])]
  /\ announcer' = None
  /\ UNCHANGED sentence

\* Time passes: buckets are refilled, strikes age, quarantines and bans run out.
Aged(ages, window) == [i \in DOMAIN ages |-> Smaller(ages[i] + 1, window + 1)]

Tick ==
  /\ limiter' = [p \in Peers |->
       IF limiter[p] = None THEN None
       ELSE [tokens |-> Smaller(limiter[p].tokens + FrameCap, FrameBurst),
             strikes |-> Aged(limiter[p].strikes, StrikeWindow),
             softLeft |-> Less(limiter[p].softLeft), hardLeft |-> Less(limiter[p].hardLeft)]]
  /\ hardByIp' = [ip \in Ips |-> Aged(hardByIp[ip], HardHistory)]
  /\ banLeft' = [ip \in Ips |-> Less(banLeft[ip])]
  /\ sentence' = [p \in Peers |-> Less(sentence[p])]
  /\ announcer' = None
  /\ UNCHANGED <<link, banOrder>>

Next ==
  /\ \/ \E p \in Peers :
          \/ Connect(p) \/ Ready(p) \/ Disconnect(p) \/ PolicyViolation(p)
          \/ InsistentFrame(p) \/ FrameTooMany(p) \/ FramePasses(p) \/ Equivocates(p)
     \/ Tick
  /\ UNCHANGED ipOf

Spec == Init /\ [][Next]_vars

-----------------------------------------------------------------------------
(* Every variable has the type its comment gives. *)
TypeOK ==
  /\ ipOf \in Origins
  /\ link \in [Peers -> {"none", "handshake", "open", "closing"}]
  /\ limiter \in [Peers -> PeerStates \cup {None}]
  /\ hardByIp \in [Ips -> Seq(0 .. HardHistory + 1)]
  /\ banOrder \in Seq(Ips)
  /\ banLeft \in [Ips -> 0 .. PersistentBan]
  /\ announcer \in Peers \cup {None}
  /\ sentence \in [Peers -> 0 .. HardQuarantine]

\* Where the ban list has room for every IP, an IP stays out for as long as its record says:
\* HARD_QUARANTINE_MS from each hard quarantine on, PERSISTENT_BAN_MS from one
\* that made the limit, whatever shorter bans follow, earned by whichever of its
\* sessions, and however the positions in the record shift as it is pruned.
RecordKeepsOut ==
  Cardinality({ipOf[p] : p \in Peers} \ {None}) <= BanListMax =>
  \A ip \in Ips : \A i \in DOMAIN hardByIp[ip] :
    LET age == hardByIp[ip][i]
    IN  /\ age <= HardHistory =>
             banLeft[ip] >= (IF i >= HardLimit THEN PersistentBan ELSE HardQuarantine) - age

\* The memory of a peer's strikes is bounded: whatever it sends, before or
\* after its session was closed, fewer than HardThreshold are kept.
StrikesAreBounded ==
  \A p \in Peers : limiter[p] # None => Len(limiter[p].strikes) < HardThreshold

\* The list of bans has an entry for every ban in force, each IP once, and no
\* more than BanListMax.
BanListIsSound ==
  /\ IsInjective(banOrder) /\ Len(banOrder) <= BanListMax
  /\ \A ip \in Ips : banLeft[ip] > 0 => ip \in ToSet(banOrder)

-----------------------------------------------------------------------------
(* What the documents say and the code does not do. *)

\* limits.js: a hard quarantine lasts HARD_QUARANTINE_MS: until it is over, no
\* session of the peer passes anything on.
HardQuarantineHolds ==
  announcer # None /\ link[announcer] = "open" => sentence[announcer] = 0

\* SPEC-FEDERATION-v1.md 5.3: a hard quarantine terminates the session.
TerminatedIsSilent == announcer # None => link[announcer] = "open"

\* SPEC-FEDERATION-v1.md 5.3: a hard quarantine terminates a session, and it is
\* HardLimit of them that make a persistent ban: a session that was terminated
\* already is not counted again.
HardsAreSessions ==
  [][\A p \in Peers :
       /\ ipOf[p] # None /\ link[p] = "closing"
       /\ limiter[p] # None /\ limiter'[p] = None
       => Len(hardByIp'[ipOf[p]]) <= Len(hardByIp[ipOf[p]])]_vars

=============================================================================
