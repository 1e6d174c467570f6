---------------------------- MODULE FederationGates ----------------------------
(***************************************************************************)
(* How a federation node lets inbound connections in: the four gates of    *)
(* _accept in src/federation/node.js, the per-IP bookkeeping of PerIpRate  *)
(* in limits.js, and what becomes of an accepted socket until it closes.   *)
(*                                                                         *)
(* A handshake timestamp is kept as its age.  A timestamp as old as the    *)
(* window stays in the list until the next attempt of its IP filters it.   *)
(* Which IPs are banned is the environment's: see FederationLimits.        *)
(***************************************************************************)
EXTENDS FiniteSets, AgedLists

CONSTANTS
  Ips,
  Sockets,          \* bound of the model: inbound sockets alive at once
  MaxSessions,      \* MAX_PEER_SESSIONS
  HalfOpenCap,      \* IP_HALF_OPEN_CAP
  HandshakeRate,    \* IP_HANDSHAKE_RATE
  HandshakeWindow,  \* IP_HANDSHAKE_WINDOW_MS, in clock units
  None

ASSUME NumbersAssumption ==
  /\ MaxSessions \in Nat /\ HalfOpenCap \in Nat
  /\ HandshakeRate \in Nat /\ HandshakeWindow \in Nat
ASSUME SocketsAssumption == IsFiniteSet(Sockets)
ASSUME NoneAssumption == None \notin Ips

VARIABLES
  socketIp,    \* the IP of each accepted socket, None when the slot is free
  phase,       \* of an accepted socket: "handshake" or "ready"; "free" otherwise
  registered,  \* the sockets whose sessions are in _sessions
  banned,      \* the IPs the ban list refuses
  known,       \* the IPs PerIpRate keeps state for
  halfOpen,    \* halfOpen of each IP, 0 when it is not known
  handshakes,  \* ages of the handshake attempts of each IP, oldest first
  refusal      \* the gate that refused the attempt of the last step, or None

gates == <<known, halfOpen, handshakes>>
vars == <<socketIp, phase, registered, banned, gates, refusal>>

InWindow(age) == age < HandshakeWindow
Free(s) == phase[s] = "free"
Handshaking(ip) == {s \in Sockets : socketIp[s] = ip /\ phase[s] = "handshake"}
OfIp(ip) == {s \in Sockets : socketIp[s] = ip}

Init ==
  /\ socketIp = [s \in Sockets |-> None]
  /\ phase = [s \in Sockets |-> "free"]
  /\ registered = {}
  /\ banned = {}
  /\ known = {}
  /\ halfOpen = [ip \in Ips |-> 0]
  /\ handshakes = [ip \in Ips |-> <<>>]
  /\ refusal = None

-----------------------------------------------------------------------------
(* The gates, in the order of _accept. *)

Refuse(gate) ==
  /\ refusal' = gate
  /\ UNCHANGED <<socketIp, phase, registered, banned>>

RefuseBanned(ip) ==
  /\ ip \in banned
  /\ Refuse("banned")
  /\ UNCHANGED gates

RefuseFull(ip) ==
  /\ ip \notin banned /\ Cardinality(registered) >= MaxSessions
  /\ Refuse("sessions")
  /\ UNCHANGED gates

\* Mutation of RefuseHalfOpen: the attempt is counted before the cap is asked.
RefuseHalfOpenSpending(ip) ==
  /\ ip \notin banned /\ Cardinality(registered) < MaxSessions
  /\ halfOpen[ip] >= HalfOpenCap
  /\ Refuse("half-open")
  /\ known' = known \cup {ip}
  /\ handshakes' = [handshakes EXCEPT ![ip] = Append(@, 0)]
  /\ UNCHANGED halfOpen

\* acquireHalfOpen creates the state of an IP even when it refuses.
RefuseHalfOpen(ip) ==
  /\ ip \notin banned /\ Cardinality(registered) < MaxSessions
  /\ halfOpen[ip] >= HalfOpenCap
  /\ Refuse("half-open")
  /\ known' = known \cup {ip}
  /\ UNCHANGED <<halfOpen, handshakes>>

\* The list is oldest first: what its filter keeps is an end of it.
Recent(ip) ==
  FromFirst(handshakes[ip], {i \in DOMAIN handshakes[ip] : InWindow(handshakes[ip][i])})

\* Mutation of RefuseRate: the slot that was acquired is not given back.
RefuseRateLeaking(ip) ==
  /\ ip \notin banned /\ Cardinality(registered) < MaxSessions
  /\ halfOpen[ip] < HalfOpenCap
  /\ Len(Recent(ip)) >= HandshakeRate
  /\ Refuse("rate")
  /\ handshakes' = [handshakes EXCEPT ![ip] = Recent(ip)]
  /\ halfOpen' = [halfOpen EXCEPT ![ip] = @ + 1]
  /\ known' = known \cup {ip}

\* allowHandshake refuses: the slot just acquired is released, which forgets
\* an IP without open sockets or timestamps.
RefuseRate(ip) ==
  /\ ip \notin banned /\ Cardinality(registered) < MaxSessions
  /\ halfOpen[ip] < HalfOpenCap
  /\ Len(Recent(ip)) >= HandshakeRate
  /\ Refuse("rate")
  /\ handshakes' = [handshakes EXCEPT ![ip] = Recent(ip)]
  /\ known' = IF halfOpen[ip] = 0 /\ Recent(ip) = <<>> THEN known \ {ip} ELSE known \cup {ip}
  /\ UNCHANGED halfOpen

Admit(ip) ==
  /\ ip \notin banned /\ Cardinality(registered) < MaxSessions
  /\ halfOpen[ip] < HalfOpenCap
  /\ Len(Recent(ip)) < HandshakeRate
  /\ \E s \in Sockets :
       /\ Free(s)
       /\ socketIp' = [socketIp EXCEPT ![s] = ip]
       /\ phase' = [phase EXCEPT ![s] = "handshake"]
  /\ known' = known \cup {ip}
  /\ halfOpen' = [halfOpen EXCEPT ![ip] = @ + 1]
  /\ handshakes' = [handshakes EXCEPT ![ip] = Append(Recent(ip), 0)]
  /\ refusal' = None
  /\ UNCHANGED <<registered, banned>>

-----------------------------------------------------------------------------
(* What becomes of an accepted socket. *)

\* 'ready': the session is registered, unless there is one for the peer.
Ready(s) ==
  /\ phase[s] = "handshake"
  /\ phase' = [phase EXCEPT ![s] = "ready"]
  /\ registered' \in {registered, registered \cup {s}}
  /\ refusal' = None
  /\ UNCHANGED <<socketIp, banned, gates>>

\* Mutation of Closed: 'error' and 'close' both release, and nothing stops at 0.
ClosedTwice(s) ==
  LET ip == socketIp[s]
  IN  /\ ~Free(s)
      /\ socketIp' = [socketIp EXCEPT ![s] = None]
      /\ phase' = [phase EXCEPT ![s] = "free"]
      /\ registered' = registered \ {s}
      /\ halfOpen' = [halfOpen EXCEPT ![ip] = @ - 2]
      /\ known' = known \ {ip}
      /\ refusal' = None
      /\ UNCHANGED <<banned, handshakes>>

\* 'close', for whatever reason: only now the half-open slot is released.
Closed(s) ==
  LET ip == socketIp[s]
  IN  /\ ~Free(s)
      /\ socketIp' = [socketIp EXCEPT ![s] = None]
      /\ phase' = [phase EXCEPT ![s] = "free"]
      /\ registered' = registered \ {s}
      /\ halfOpen' = [halfOpen EXCEPT ![ip] = IF @ > 0 THEN @ - 1 ELSE @]
      /\ known' = IF halfOpen'[ip] = 0 /\ handshakes[ip] = <<>> THEN known \ {ip} ELSE known
      /\ refusal' = None
      /\ UNCHANGED <<banned, handshakes>>

\* The ban list bans an IP, or lets it go.
BanChanges(ip) ==
  /\ banned' \in {banned \cup {ip}, banned \ {ip}}
  /\ refusal' = None
  /\ UNCHANGED <<socketIp, phase, registered, gates>>

Tick ==
  /\ handshakes' = [ip \in Ips |->
       [i \in DOMAIN handshakes[ip] |->
          IF InWindow(handshakes[ip][i]) THEN handshakes[ip][i] + 1 ELSE handshakes[ip][i]]]
  /\ refusal' = None
  /\ UNCHANGED <<socketIp, phase, registered, banned, known, halfOpen>>

Attempt(ip) ==
  RefuseBanned(ip) \/ RefuseFull(ip) \/ RefuseHalfOpen(ip) \/ RefuseRate(ip) \/ Admit(ip)

Next ==
  \/ \E ip \in Ips : Attempt(ip) \/ BanChanges(ip)
  \/ \E s \in Sockets : Ready(s) \/ Closed(s)
  \/ Tick

Spec == Init /\ [][Next]_vars

-----------------------------------------------------------------------------
(* Every variable has the type its comment gives. *)
TypeOK ==
  /\ socketIp \in [Sockets -> Ips \cup {None}]
  /\ phase \in [Sockets -> {"free", "handshake", "ready"}]
  /\ registered \in SUBSET Sockets
  /\ banned \in SUBSET Ips
  /\ known \in SUBSET Ips
  /\ halfOpen \in [Ips -> Nat]
  /\ handshakes \in [Ips -> Seq(0 .. HandshakeWindow)]
  /\ refusal \in {None, "banned", "sessions", "half-open", "rate"}

\* No slot is stranded or given back twice, whichever gate refuses and however
\* a socket ends: an IP holds as many slots as it has accepted sockets, never
\* more than the cap, and none of its sockets outlives its state.
SlotsAreConserved ==
  \A ip \in Ips :
    /\ halfOpen[ip] = Cardinality(OfIp(ip))
    /\ halfOpen[ip] <= HalfOpenCap
    /\ OfIp(ip) # {} => ip \in known

\* Whatever refuses an attempt, the IP's budget of handshakes is spent by
\* accepted sockets alone: within a window at most HandshakeRate get in.
BudgetBuysSockets ==
  [][\A ip \in Ips :
       Len(Recent(ip)') > Len(Recent(ip))
         => /\ Cardinality(OfIp(ip)') = Cardinality(OfIp(ip)) + 1
            /\ Len(Recent(ip)') <= HandshakeRate]_vars

-----------------------------------------------------------------------------
(* What the documents say and the code does not do. *)

\* SPEC-FEDERATION-v1.md 5.5: connections beyond MAX_PEER_SESSIONS are rejected.
SessionsAreCapped == Cardinality(registered) <= MaxSessions

\* SPEC-FEDERATION-v1.md 5.2: what is capped is the concurrent half-open
\* handshakes of an IP.
OnlyHandshakesAreCapped ==
  [][\A ip \in Ips : RefuseHalfOpen(ip) => Cardinality(Handshaking(ip)) >= HalfOpenCap]_vars

\* SPEC-FEDERATION-v1.md 5.5: no data structure is unbounded.  An IP without
\* sockets whose attempts are all older than the window is not kept.
IdleIpsAreForgotten ==
  \A ip \in known : OfIp(ip) # {} \/ Recent(ip) # <<>>

=============================================================================
