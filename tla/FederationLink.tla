----------------------------- MODULE FederationLink -----------------------------
(***************************************************************************)
(* The life of the links of a federation: who dials whom, the handshake,   *)
(* the registry of sessions, duplicates, reconnects, stop(), and processes *)
(* that crash and are started again.  src/federation/node.js and the state *)
(* machine of session.js.                                                  *)
(*                                                                         *)
(* A connection has an end "out" at the node that dialed (the initiator)   *)
(* and an end "in" at the node that accepted (the responder).  Each end    *)
(* has a WebSocket; what one end sends arrives at the other in order, or   *)
(* the connection breaks and what was in flight is lost.  A WebSocket that *)
(* was closed locally still delivers what arrives until its 'close' event. *)
(* Each handler runs to its end before the next one of the same node.      *)
(*                                                                         *)
(* A node is a process: it has one identity for its whole life, so the     *)
(* peer's id is the peer.  The process that is started after a crash at    *)
(* the same URL, its home, is another node.                                *)
(*                                                                         *)
(* What HELLOs and frames say, and when a HELLO is valid, is the           *)
(* environment's choice: FederationMesh makes it.  So is whether the gates *)
(* of _accept (FederationGates) let an attempt in.                         *)
(***************************************************************************)
EXTENDS Integers, Sequences, FiniteSets

CONSTANTS
  Nodes,
  Homes,   \* the URLs nodes listen at
  Home,    \* that of each node
  First,   \* the nodes that run at first; the others may be started after a crash
  Blocks,  \* what a HELLO or a frame can say: a prevhash
  Setups,  \* the configurations to choose from, see below
  Slots,   \* bound of the model: connections between two nodes, dialed by the
           \* same one, that are not gone yet at both ends
  None

ASSUME HomesAssumption ==
  /\ Home \in [Nodes -> Homes] /\ First \subseteq Nodes
  /\ \A h \in Homes : \E n \in First : Home[n] = h
  /\ \A n, m \in First : Home[n] = Home[m] => n = m

\* seeds: the URLs each node is given.  The other fields are bounds of the model:
\* on breaks, refusals, rejected or late HELLOs; on crashes; on nodes that stop;
\* on the blocks there will be (for FederationMesh).
ASSUME SetupsAssumption ==
  \A s \in Setups :
    /\ s.seeds \in [Homes -> SUBSET Homes] /\ \A h \in Homes : h \notin s.seeds[h]
    /\ {s.faults, s.crashes, s.stops, s.blocks} \subseteq Nat

Sides == {"out", "in"}
Other(side) == IF side = "out" THEN "in" ELSE "out"
Conns == {c \in [out : Nodes, in : Nodes, slot : Slots] : Home[c.in] # Home[c.out]}

ASSUME NoneAssumption == None \notin Conns \cup Blocks

SocketStates == {"none", "connecting", "open", "closing"}
Lives == {"unborn", "running", "stopped", "crashed"}

Hello(block) == [type |-> "hello", block |-> block]
Frame(block) == [type |-> "frame", block |-> block]
Bye == [type |-> "close"]
Messages == {Hello(block) : block \in Blocks} \cup {Frame(block) : block \in Blocks} \cup {Bye}

VARIABLES
  setup,     \* never changed
  life,      \* of each process; _stopped is "stopped"
  socket,    \* the WebSocket of each end; "none" before and after its life
  session,   \* recentPrevhash of the end's Session object, or None without one
  ready,     \* Session._ready
  inbox,     \* what is on its way to each end, in order
  sessions,  \* _sessions of each node: peer -> connection, or None
  timers,    \* _reconnectTimers of each node: the URLs it will dial again
  faults     \* faults so far

ends == <<socket, session, ready, inbox>>
linkVars == <<setup, life, ends, sessions, timers, faults>>

At(c, side) == c[side]
Peer(c, side) == c[Other(side)]
Seeds(n) == setup.seeds[Home[n]]
Running(n) == life[n] = "running"
Alive(c, side) == socket[c][side] \in {"open", "closing"}
Free(c) == \A side \in Sides : socket[c][side] = "none"
Put(f, c, side, v) == [f EXCEPT ![c][side] = v]
Arrived(c, side, type) == inbox[c][side] # <<>> /\ Head(inbox[c][side]).type = type
Rest(c, side) == Put(inbox, c, side, Tail(inbox[c][side]))

\* Who has been at a URL last: the process there, if one is.
Occupants(h) ==
  LET living == {m \in Nodes : Home[m] = h /\ life[m] \in {"running", "stopped"}}
  IN  IF living # {} THEN living ELSE {m \in Nodes : Home[m] = h /\ life[m] = "crashed"}

\* The connections a node can use to dial a URL: any that are gone at both ends.
Usable(n, h) == {c \in Conns : c.out = n /\ c.in \in Occupants(h) /\ Free(c)}

\* _connectOut of several URLs at once.
Dial(n, urls) ==
  LET chosen == {CHOOSE c \in Usable(n, h) : TRUE : h \in urls}
  IN  /\ \A h \in urls : Usable(n, h) # {}
      /\ socket' = [c \in Conns |-> IF c \in chosen THEN [socket[c] EXCEPT !.out = "connecting"]
                                                     ELSE socket[c]]

\* start() has dialed every seed once.
Init ==
  /\ setup \in Setups
  /\ life = [n \in Nodes |-> IF n \in First THEN "running" ELSE "unborn"]
  /\ \E slot \in Slots :
       socket = [c \in Conns |-> [side \in Sides |->
         IF /\ side = "out" /\ c.slot = slot
            /\ {c.out, c.in} \subseteq First /\ Home[c.in] \in setup.seeds[Home[c.out]]
         THEN "connecting" ELSE "none"]]
  /\ session = [c \in Conns |-> [side \in Sides |-> None]]
  /\ ready = [c \in Conns |-> [side \in Sides |-> FALSE]]
  /\ inbox = [c \in Conns |-> [side \in Sides |-> <<>>]]
  /\ sessions = [n \in Nodes |-> [m \in Nodes |-> None]]
  /\ timers = [n \in Nodes |-> {}]
  /\ faults = 0

-----------------------------------------------------------------------------
(* What the handlers are made of. *)

\* ws.send(): nothing leaves a socket that is closing or gone, or reaches one
\* that is gone.
Send(box, c, side, msg) ==
  IF socket[c][side] = "open" /\ socket[c][Other(side)] # "none"
  THEN [box EXCEPT ![c][Other(side)] = Append(@, msg)]
  ELSE box

\* ws.close() sends a close frame, once.  box is what is on its way besides.
Close(c, side, box) ==
  /\ socket' = IF socket[c][side] = "open" THEN Put(socket, c, side, "closing") ELSE socket
  /\ inbox' = Send(box, c, side, Bye)

\* A connection that goes down: what was in flight has arrived or is lost.
CutOff(box, arrives) ==
  IF ~arrives THEN <<Bye>>
  ELSE IF \E i \in DOMAIN box : box[i] = Bye THEN box ELSE Append(box, Bye)

\* Mutation of Unregister: only sessions that were accepted are deleted.
UnregisterInbound(c, side) ==
  sessions' = [sessions EXCEPT ![At(c, side)][Peer(c, side)] = IF @ = c /\ side = "in" THEN None ELSE @]

\* Mutation of Unregister: whatever session is registered for the peer goes.
UnregisterPeer(c, side) ==
  sessions' = [sessions EXCEPT ![At(c, side)][Peer(c, side)] = None]

\* The 'close' listener of the session: it leaves the registry if it is there.
Unregister(c, side) ==
  sessions' = [sessions EXCEPT ![At(c, side)][Peer(c, side)] = IF @ = c THEN None ELSE @]

\* Mutation of ScheduleReconnect: a timer per connection instead of per seed.
ScheduleByConnection(c, side) ==
  timers' = IF side = "out" /\ Running(c.out)
            THEN [timers EXCEPT ![c.out] = @ \cup {c}]
            ELSE timers

\* _scheduleReconnect, at the end that dialed.
ScheduleReconnect(c, side) ==
  timers' = IF side = "out" /\ Running(c.out)
            THEN [timers EXCEPT ![c.out] = @ \cup {Home[c.in]}]
            ELSE timers

Fault == faults < setup.faults /\ faults' = faults + 1

-----------------------------------------------------------------------------
(* Connecting. *)

\* The server accepts (all gates of _accept let it pass): a session awaits HELLO.
Accept(c, block) ==
  /\ socket[c].out = "connecting" /\ socket[c].in = "none" /\ Running(c.in)
  /\ socket' = Put(socket, c, "in", "open")
  /\ session' = Put(session, c, "in", block)
  /\ UNCHANGED <<setup, life, ready, inbox, sessions, timers, faults>>

\* The dialer's 'open': a session that sends HELLO, unless the node has stopped.
Opened(c, block) ==
  /\ socket[c].out = "connecting" /\ socket[c].in # "none"
  /\ IF Running(c.out)
     THEN /\ socket' = Put(socket, c, "out", "open")
          /\ inbox' = [inbox EXCEPT ![c].in = Append(@, Hello(block))]
          /\ session' = Put(session, c, "out", block)
     ELSE /\ socket' = Put(socket, c, "out", "closing")
          /\ inbox' = [inbox EXCEPT ![c].in = Append(@, Bye)]
          /\ UNCHANGED session
  /\ UNCHANGED <<setup, life, ready, sessions, timers, faults>>

\* The dial comes to nothing: what the other end has accepted ends, too.
Undial(c) ==
  /\ socket[c].out = "connecting"
  /\ \/ Fault
     \/ ~Running(c.in) /\ socket[c].in = "none" /\ UNCHANGED faults
  /\ socket' = Put(socket, c, "out", "none")
  /\ inbox' = [inbox EXCEPT ![c].out = <<>>, ![c].in = IF Alive(c, "in") THEN <<Bye>> ELSE @]
  /\ UNCHANGED <<setup, life, session, ready, sessions>>

\* Mutation of ConnectFails: a dial that fails is not repeated.
ConnectGivesUp(c) == Undial(c) /\ UNCHANGED timers

\* Nobody listens, a gate refuses, or the connection breaks before 'open':
\* 'error' and 'close' at the dialer.
ConnectFails(c) == Undial(c) /\ ScheduleReconnect(c, "out")

\* Mutation of ReconnectFires: the timer stays in the map.
ReconnectKeepsTimer(n, h) ==
  /\ h \in timers[n]
  /\ Dial(n, {h})
  /\ UNCHANGED <<setup, life, session, ready, inbox, sessions, timers, faults>>

\* The reconnect timer fires: _connectOut once more.
ReconnectFires(n, h) ==
  /\ h \in timers[n]
  /\ timers' = [timers EXCEPT ![n] = @ \ {h}]
  /\ Dial(n, {h})
  /\ UNCHANGED <<setup, life, session, ready, inbox, sessions, faults>>

-----------------------------------------------------------------------------
(* The handshake, and frames. *)

\* A valid HELLO: the responder answers with its own, made when it accepted, and
\* the 'ready' handler registers the session or, when there is one for the peer,
\* closes it.
ReceiveHello(c, side) ==
  LET n == At(c, side)
      m == Peer(c, side)
      answered == IF side = "in" THEN Send(Rest(c, side), c, side, Hello(session[c][side]))
                                 ELSE Rest(c, side)
  IN  /\ Alive(c, side) /\ session[c][side] # None /\ ~ready[c][side]
      /\ Arrived(c, side, "hello")
      /\ ready' = Put(ready, c, side, TRUE)
      /\ IF sessions[n][m] # None
         THEN Close(c, side, answered) /\ UNCHANGED sessions
         ELSE /\ inbox' = answered
              /\ sessions' = [sessions EXCEPT ![n][m] = c]
              /\ UNCHANGED socket
      /\ UNCHANGED <<setup, life, session, timers, faults>>

\* A HELLO that does not validate, or whose nonce was seen before, or a frame in
\* its place.
RejectHello(c, side) ==
  /\ Alive(c, side) /\ session[c][side] # None /\ ~ready[c][side]
  /\ Arrived(c, side, "hello") \/ Arrived(c, side, "frame")
  /\ Close(c, side, Rest(c, side))
  /\ Fault \/ UNCHANGED faults
  /\ UNCHANGED <<setup, life, session, ready, sessions, timers>>

\* HANDSHAKE_TIMEOUT_MS without a HELLO.
HandshakeTimeout(c, side) ==
  /\ socket[c][side] = "open" /\ session[c][side] # None /\ ~ready[c][side]
  /\ Fault
  /\ Close(c, side, inbox)
  /\ UNCHANGED <<setup, life, session, ready, sessions, timers>>

\* Mutation of Broadcast: to every session there is, its handshake done or not.
BroadcastToAll(n, block) ==
  LET Reached(c, side) == Peer(c, side) = n /\ session[c][Other(side)] # None
                          /\ socket[c][Other(side)] = "open" /\ socket[c][side] # "none"
  IN  /\ inbox' = [c \in Conns |-> [side \in Sides |->
                     IF Reached(c, side) THEN Append(inbox[c][side], Frame(block)) ELSE inbox[c][side]]]
      /\ UNCHANGED <<setup, life, socket, session, ready, sessions, timers, faults>>

\* _broadcast: a frame to every session that is registered, and ready.
Broadcast(n, block) ==
  LET Reached(c, side) == Peer(c, side) = n /\ sessions[n][At(c, side)] = c /\ ready[c][Other(side)]
                          /\ socket[c][Other(side)] = "open" /\ socket[c][side] # "none"
  IN  /\ inbox' = [c \in Conns |-> [side \in Sides |->
                     IF Reached(c, side) THEN Append(inbox[c][side], Frame(block)) ELSE inbox[c][side]]]
      /\ UNCHANGED <<setup, life, socket, session, ready, sessions, timers, faults>>

\* A frame on a session that is ready, registered or not, closed or not.
ReceiveFrame(c, side) ==
  /\ Alive(c, side) /\ ready[c][side]
  /\ Arrived(c, side, "frame")
  /\ inbox' = Rest(c, side)
  /\ UNCHANGED <<setup, life, socket, session, ready, sessions, timers, faults>>

-----------------------------------------------------------------------------
(* The end of a connection, and of a node. *)

\* The close frame of the other end, or its answer to ours: the 'close' event.
\* What the end was sent after it is lost.
ReceiveClose(c, side) ==
  /\ Alive(c, side)
  /\ Arrived(c, side, "close")
  /\ socket' = Put(socket, c, side, "none")
  /\ inbox' = Put(Send(inbox, c, side, Bye), c, side, <<>>)
  /\ session' = Put(session, c, side, None)
  /\ ready' = Put(ready, c, side, FALSE)
  /\ IF session[c][side] # None THEN Unregister(c, side) ELSE UNCHANGED sessions
  /\ ScheduleReconnect(c, side)
  /\ UNCHANGED <<setup, life, faults>>

\* The connection breaks.  Each end notices in its own time.
Break(c, arrives) ==
  /\ socket[c].out # "connecting" /\ \E side \in Sides : socket[c][side] = "open"
  /\ Fault
  /\ inbox' = [inbox EXCEPT ![c] = [side \in Sides |->
                 IF Alive(c, side) THEN CutOff(inbox[c][side], arrives) ELSE <<>>]]
  /\ UNCHANGED <<setup, life, socket, session, ready, sessions, timers>>

\* stop(): the registered sessions are closed and forgotten, the server and the
\* timers too.  Connections that have not come to 'ready' are not touched.
Stop(n) ==
  LET Closes(c, side) == /\ At(c, side) = n /\ sessions[n][Peer(c, side)] = c
                         /\ socket[c][side] = "open"
      Hears(c, side) == Closes(c, Other(side)) /\ socket[c][side] # "none"
  IN  /\ Running(n) /\ Cardinality({m \in Nodes : life[m] = "stopped"}) < setup.stops
      /\ life' = [life EXCEPT ![n] = "stopped"]
      /\ socket' = [c \in Conns |-> [side \in Sides |->
                      IF Closes(c, side) THEN "closing" ELSE socket[c][side]]]
      /\ inbox' = [c \in Conns |-> [side \in Sides |->
                      IF Hears(c, side) THEN Append(inbox[c][side], Bye) ELSE inbox[c][side]]]
      /\ sessions' = [sessions EXCEPT ![n] = [m \in Nodes |-> None]]
      /\ timers' = [timers EXCEPT ![n] = {}]
      /\ UNCHANGED <<setup, session, ready, faults>>

\* The process dies, and with it its sockets and all its memory: nothing of a node
\* is kept on disk.  Each peer notices in its own time.  (Bound of the model: who
\* crashes has a successor.)
Crash(n, arrives) ==
  /\ Running(n) /\ Cardinality({m \in Nodes : life[m] = "crashed"}) < setup.crashes
  /\ \E m \in Nodes : life[m] = "unborn" /\ Home[m] = Home[n]
  /\ life' = [life EXCEPT ![n] = "crashed"]
  /\ LET Without(f, none) == [c \in Conns |-> [side \in Sides |->
                               IF At(c, side) = n THEN none ELSE f[c][side]]]
     IN  /\ socket' = Without(socket, "none")
         /\ session' = Without(session, None)
         /\ ready' = Without(ready, FALSE)
  /\ inbox' = [c \in Conns |-> [side \in Sides |->
                 IF At(c, side) = n THEN <<>>
                 ELSE IF Peer(c, side) = n /\ Alive(c, side) THEN CutOff(inbox[c][side], arrives)
                 ELSE inbox[c][side]]]
  /\ sessions' = [sessions EXCEPT ![n] = [m \in Nodes |-> None]]
  /\ timers' = [timers EXCEPT ![n] = {}]
  /\ UNCHANGED <<setup, faults>>

\* The process after the crashed one: a new identity, start() at the same URL.
Start(n) ==
  /\ life[n] = "unborn"
  /\ \A m \in Nodes \ {n} : Home[m] = Home[n] => life[m] \in {"unborn", "crashed"}
  /\ life' = [life EXCEPT ![n] = "running"]
  /\ Dial(n, Seeds(n))
  /\ UNCHANGED <<setup, session, ready, inbox, sessions, timers, faults>>

-----------------------------------------------------------------------------
LinkNext ==
  \/ \E c \in Conns : ConnectFails(c)
  \/ \E c \in Conns, block \in Blocks : Accept(c, block) \/ Opened(c, block)
  \/ \E c \in Conns, arrives \in BOOLEAN : Break(c, arrives)
  \/ \E c \in Conns, side \in Sides :
       \/ ReceiveHello(c, side) \/ RejectHello(c, side) \/ HandshakeTimeout(c, side)
       \/ ReceiveFrame(c, side) \/ ReceiveClose(c, side)
  \/ \E n \in Nodes, h \in Homes : ReconnectFires(n, h)
  \/ \E n \in Nodes, block \in Blocks : Broadcast(n, block)
  \/ \E n \in Nodes, arrives \in BOOLEAN : Crash(n, arrives)
  \/ \E n \in Nodes : Stop(n) \/ Start(n)

LinkSpec == Init /\ [][LinkNext]_linkVars

-----------------------------------------------------------------------------
(* Every variable has the type its comment gives. *)
TypeOK ==
  /\ setup \in Setups
  /\ life \in [Nodes -> Lives]
  /\ socket \in [Conns -> [Sides -> SocketStates]]
  /\ session \in [Conns -> [Sides -> Blocks \cup {None}]]
  /\ ready \in [Conns -> [Sides -> BOOLEAN]]
  /\ inbox \in [Conns -> [Sides -> Seq(Messages)]]
  /\ sessions \in [Nodes -> [Nodes -> Conns \cup {None}]]
  /\ timers \in [Nodes -> SUBSET Homes]
  /\ faults \in 0 .. setup.faults

\* The end of a connection at n is up, and has met m.
Up(c, n, m) ==
  \E side \in Sides : At(c, side) = n /\ Peer(c, side) = m /\ Alive(c, side) /\ ready[c][side]

\* What broadcasts go to exists: a registered session is that of a live
\* WebSocket whose handshake is done, with the peer it is registered for.
RegisteredIsLive ==
  \A n, m \in Nodes, c \in Conns : sessions[n][m] = c => Up(c, n, m)

\* No link is lost from sight: a session that is ready, and not being closed,
\* is the one its node has registered for the peer, whatever duplicates and
\* late 'close' events there were.
ReadyIsRegistered ==
  \A c \in Conns, side \in Sides :
    ready[c][side] /\ socket[c][side] = "open" => sessions[At(c, side)][Peer(c, side)] = c

\* As long as a node runs, each of its seeds is either being dialed, or
\* connected, or waits for one reconnect: never two of these, never none, though
\* the process at the seed's URL may be another one by then.
SeedIsHandledOnce ==
  \A n \in Nodes : Running(n) =>
    \A h \in Seeds(n) :
      LET dialed == {c \in Conns : c.out = n /\ Home[c.in] = h /\ socket[c].out # "none"}
      IN  Cardinality(dialed) + (IF h \in timers[n] THEN 1 ELSE 0) = 1

\* The handshake comes first: an end that waits for HELLO is never sent a frame
\* before it, which it would take for a bad HELLO and close the connection.
FramesFollowHello ==
  \A c \in Conns, side \in Sides :
    socket[c][side] = "open" /\ ~ready[c][side] => ~Arrived(c, side, "frame")

-----------------------------------------------------------------------------
(* What the documents say and the code does not do. *)

\* After stop() the registry of sessions stays empty, whatever was under way.
StopIsFinal == \A n \in Nodes : life[n] = "stopped" => \A m \in Nodes : sessions[n][m] = None

\* Of two sessions with one peer the duplicate is dropped, the other one stays:
\* when nothing is under way any more and nothing has failed, nodes that dial
\* each other are linked.
DuplicateLeavesOne ==
  /\ faults = 0
  /\ \A n \in First : Running(n)
  /\ \A c \in Conns, side \in Sides : inbox[c][side] = <<>> /\ socket[c][side] \in {"none", "open"}
  => \A n, m \in First :
       Home[m] \in Seeds(n) => sessions[n][m] # None /\ sessions[m][n] # None

=============================================================================
