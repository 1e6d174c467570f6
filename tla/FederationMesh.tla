----------------------------- MODULE FederationMesh -----------------------------
(***************************************************************************)
(* What the links are for: nodes that tell each other the block their pool *)
(* works on.  Beside each FederationNode there is a PrevhashMonitor; index *)
(* of the federation package shows how the two are wired: the monitor's    *)
(* 'announce' is broadcast, a 'prevhash-announce' is a vote, and a HELLO   *)
(* is valid if it names the block of one's own pool or of a fresh vote.    *)
(*                                                                         *)
(* A block is a prevhash, numbered in the order in which a pool comes to   *)
(* it.  How votes are counted is in PrevhashMonitor, what else a frame     *)
(* must be to be taken in FrameReception.                                  *)
(***************************************************************************)
EXTENDS FederationLink

VARIABLES
  pool,   \* the block the upstream of the node at each home works on
  told,   \* _ownPrevhash of each node's monitor: what it announced last
  votes   \* _peers of each node's monitor: peer -> block, or None

monitors == <<pool, told, votes>>
vars == <<linkVars, monitors>>

FirstBlock == 1

ASSUME BlocksAssumption ==
  /\ Blocks \subseteq Nat /\ FirstBlock \in Blocks
  /\ \A s \in Setups : 1 .. s.blocks \subseteq Blocks

\* start() of the monitor polls once, before any link is there to be told.
MeshInit ==
  /\ Init
  /\ pool = [h \in Homes |-> FirstBlock]
  /\ told = [n \in Nodes |-> IF n \in First THEN FirstBlock ELSE None]
  /\ votes = [n \in Nodes |-> [m \in Nodes |-> None]]

\* getRecentPrevhash, when a session is made.
RecentPrevhash(n) == pool[Home[n]]

\* The mining-bound check of validateHello.
Reconciled(n, block) == block = pool[Home[n]] \/ \E m \in Nodes : votes[n][m] = block

-----------------------------------------------------------------------------
MeshAccept(c) == Accept(c, RecentPrevhash(c.in)) /\ UNCHANGED monitors
MeshOpened(c) == Opened(c, RecentPrevhash(c.out)) /\ UNCHANGED monitors
MeshConnectFails(c) == ConnectFails(c) /\ UNCHANGED monitors
MeshBreak(c, arrives) == Break(c, arrives) /\ UNCHANGED monitors
MeshReconnectFires(n, h) == ReconnectFires(n, h) /\ UNCHANGED monitors
MeshHandshakeTimeout(c, side) == HandshakeTimeout(c, side) /\ UNCHANGED monitors
MeshReceiveClose(c, side) == ReceiveClose(c, side) /\ UNCHANGED monitors
MeshStop(n) == Stop(n) /\ UNCHANGED monitors

\* validateHello, its checks of form, time, signature and nonce passed.
MeshReceiveHello(c, side) ==
  /\ ReceiveHello(c, side)
  /\ Reconciled(At(c, side), Head(inbox[c][side]).block)
  /\ UNCHANGED monitors

\* A block the node does not know, or a frame before HELLO: no fault, that is how
\* it is meant.  Any other HELLO may be rejected as late or seen, as a fault.
MeshRejectHello(c, side) ==
  /\ RejectHello(c, side)
  /\ LET msg == Head(inbox[c][side])
     IN  (msg.type = "hello" /\ Reconciled(At(c, side), msg.block)) <=> faults' # faults
  /\ UNCHANGED monitors

\* Mutation of MeshReceiveFrame: the listener is there for accepted sessions only.
ReceiveInbound(c, side) ==
  /\ ReceiveFrame(c, side)
  /\ votes' = IF side = "in"
              THEN [votes EXCEPT ![At(c, side)][Peer(c, side)] = Head(inbox[c][side]).block]
              ELSE votes
  /\ UNCHANGED <<pool, told>>

\* 'prevhash-announce', onPeerAnnounce: the vote is replaced, whatever it was.
MeshReceiveFrame(c, side) ==
  /\ ReceiveFrame(c, side)
  /\ votes' = [votes EXCEPT ![At(c, side)][Peer(c, side)] = Head(inbox[c][side]).block]
  /\ UNCHANGED <<pool, told>>

\* The memory of the monitor is gone with the process.
MeshCrash(n, arrives) ==
  /\ Crash(n, arrives)
  /\ told' = [told EXCEPT ![n] = None]
  /\ votes' = [votes EXCEPT ![n] = [m \in Nodes |-> None]]
  /\ UNCHANGED pool

MeshStart(n) ==
  /\ Start(n)
  /\ told' = [told EXCEPT ![n] = pool[Home[n]]]
  /\ UNCHANGED <<pool, votes>>

\* _poll: a block that is not the last one is announced, once, to whoever is
\* linked now.
Poll(n) ==
  /\ told[n] # None /\ told[n] # pool[Home[n]]
  /\ told' = [told EXCEPT ![n] = pool[Home[n]]]
  /\ Broadcast(n, pool[Home[n]])
  /\ UNCHANGED <<pool, votes>>

\* PEER_STALE_MS after its timestamp a vote is evicted.
VoteExpires(n, m) ==
  /\ votes[n][m] # None
  /\ votes' = [votes EXCEPT ![n][m] = None]
  /\ UNCHANGED <<linkVars, pool, told>>

\* The upstream of a node goes on to the next block.
PoolMoves(h) ==
  /\ pool[h] < setup.blocks
  /\ pool' = [pool EXCEPT ![h] = @ + 1]
  /\ UNCHANGED <<linkVars, told, votes>>

-----------------------------------------------------------------------------
Next ==
  \/ \E c \in Conns : MeshAccept(c) \/ MeshOpened(c) \/ MeshConnectFails(c)
  \/ \E c \in Conns, arrives \in BOOLEAN : MeshBreak(c, arrives)
  \/ \E c \in Conns, side \in Sides :
       \/ MeshReceiveHello(c, side) \/ MeshRejectHello(c, side) \/ MeshHandshakeTimeout(c, side)
       \/ MeshReceiveFrame(c, side) \/ MeshReceiveClose(c, side)
  \/ \E n \in Nodes, h \in Homes : MeshReconnectFires(n, h)
  \/ \E n \in Nodes, arrives \in BOOLEAN : MeshCrash(n, arrives)
  \/ \E n \in Nodes : MeshStop(n) \/ MeshStart(n) \/ Poll(n)
  \/ \E n, m \in Nodes : VoteExpires(n, m)
  \/ \E h \in Homes : PoolMoves(h)

Spec == MeshInit /\ [][Next]_vars

\* What moves a connection on.
Moves(c) ==
  \/ MeshAccept(c) \/ MeshOpened(c)
  \/ (MeshConnectFails(c) /\ UNCHANGED faults)
  \/ \E side \in Sides :
       MeshReceiveHello(c, side) \/ MeshReceiveFrame(c, side) \/ MeshReceiveClose(c, side)
  \/ \E side \in Sides : MeshRejectHello(c, side) /\ UNCHANGED faults

\* Connections come about or fail and what is sent arrives, timers fire, the
\* monitor polls.  Nothing is assumed of faults, crashes, stops, pools and the age
\* of votes.
Fairness ==
  /\ \A c \in Conns : WF_vars(Moves(c))
  /\ \A n \in Nodes : WF_vars(\E h \in Homes : MeshReconnectFires(n, h))
  /\ \A n \in Nodes : WF_vars(Poll(n))

FairSpec == Spec /\ Fairness

-----------------------------------------------------------------------------
(* Every variable has the type its comment gives. *)
MeshTypeOK ==
  /\ TypeOK
  /\ pool \in [Homes -> Blocks]
  /\ told \in [Nodes -> Blocks \cup {None}]
  /\ votes \in [Nodes -> [Nodes -> Blocks \cup {None}]]

Others(n) == {m \in Nodes : Home[m] # Home[n]}
Linked(n, m) == sessions[n][m] # None /\ sessions[m][n] = sessions[n][m]

\* A node that dials a running one which does not dial it, too, ends up linked
\* to it for good, over a connection both have registered, once the network
\* stops failing: unless their pools work on different blocks, in whatever order
\* blocks, handshakes, crashes and restarts came before.
LinkHeals ==
  \A n \in Nodes : \A m \in Others(n) :
    Home[m] \in Seeds(n) /\ Home[n] \notin Seeds(m) =>
    <>[](~Running(n) \/ ~Running(m) \/ pool[Home[n]] # pool[Home[m]] \/ Linked(n, m))

\* What a node finds at its pool while it is linked comes to be its vote at the
\* peer, or the link is lost before.
AnnouncementArrives ==
  \A n \in Nodes : \A m \in Others(n), block \in Blocks \ {FirstBlock} :
    (Linked(n, m) /\ told[n] # block /\ pool[Home[n]] = block)
      ~> (votes[m][n] = block \/ pool[Home[n]] # block \/ ~Linked(n, m))

-----------------------------------------------------------------------------
(* What the documents say and the code does not do. *)

\* Linked nodes know each other's block as soon as nothing is under way.
LinkedMeansInformed ==
  (\A c \in Conns, side \in Sides : inbox[c][side] = <<>>)
    => \A n, m \in Nodes : Linked(n, m) => votes[m][n] \in {told[n], None}

\* One home has one vote.
OneVoteEach ==
  \A n, m, other \in Nodes :
    votes[n][m] # None /\ votes[n][other] # None /\ Home[m] = Home[other] => m = other

\* A vote is not replaced by an older one.
VotesMoveForward ==
  [][\A n, m \in Nodes : votes[n][m] # None /\ votes'[n][m] # None => votes'[n][m] >= votes[n][m]]_vars

=============================================================================
