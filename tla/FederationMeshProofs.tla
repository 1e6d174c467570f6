-------------------------- MODULE FederationMeshProofs --------------------------
(***************************************************************************)
(* Proofs about the links of a federation and the monitors beside them,    *)
(* for every set of nodes and homes, every configuration of seeds and      *)
(* every number of faults, crashes and stops.                              *)
(***************************************************************************)
EXTENDS FederationMesh, FiniteSetTheorems, TLAPS

\* Every connection has two ends, at two nodes.
LEMMA TwoEnds ==
  ASSUME NEW c \in Conns
  PROVE  c.out \in Nodes /\ c.in \in Nodes /\ c.out # c.in
  BY DEF Conns

LEMMA EndsAreNodes ==
  ASSUME NEW c \in Conns, NEW side \in Sides
  PROVE  At(c, side) \in Nodes /\ Peer(c, side) \in Nodes /\ Other(side) \in Sides
  BY TwoEnds DEF At, Peer, Other, Sides

\* A function of two arguments that is changed at one point.
LEMMA UpdateTypes ==
  ASSUME NEW A, NEW B, NEW S, NEW STATE f, f \in [A -> [B -> S]], NEW a \in A, NEW b \in B, NEW STATE v, v \in S
  PROVE  [f EXCEPT ![a][b] = v] \in [A -> [B -> S]]
  OBVIOUS

\* What a boxful of messages is after it was sent one more, cut off, or read from.
LEMMA SendTypes ==
  ASSUME TypeOK, NEW STATE box, box \in [Conns -> [Sides -> Seq(Messages)]],
         NEW c \in Conns, NEW side \in Sides, NEW msg \in Messages
  PROVE  Send(box, c, side, msg) \in [Conns -> [Sides -> Seq(Messages)]]
<1>1. Other(side) \in Sides /\ box[c][Other(side)] \in Seq(Messages)
  BY EndsAreNodes
<1>2. Append(box[c][Other(side)], msg) \in Seq(Messages)
  BY <1>1
<1> QED BY <1>1, <1>2 DEF Send

LEMMA CutOffTypes ==
  ASSUME NEW STATE box, box \in Seq(Messages), NEW arrives \in BOOLEAN
  PROVE  CutOff(box, arrives) \in Seq(Messages)
<1>1. Bye \in Messages
  BY DEF Messages
<1>2. <<Bye>> \in Seq(Messages) /\ Append(box, Bye) \in Seq(Messages)
  BY <1>1
<1> QED BY <1>2 DEF CutOff

LEMMA RestTypes ==
  ASSUME TypeOK, NEW c \in Conns, NEW side \in Sides, inbox[c][side] # <<>>
  PROVE  /\ Rest(c, side) \in [Conns -> [Sides -> Seq(Messages)]]
         /\ Head(inbox[c][side]) \in Messages
  BY DEF Rest, Put, TypeOK

LEMMA CloseTypes ==
  ASSUME TypeOK, NEW c \in Conns, NEW side \in Sides,
         NEW STATE box, box \in [Conns -> [Sides -> Seq(Messages)]], Close(c, side, box)
  PROVE  /\ socket' \in [Conns -> [Sides -> SocketStates]]
         /\ inbox' \in [Conns -> [Sides -> Seq(Messages)]]
<1>1. Bye \in Messages
  BY DEF Messages
<1>2. inbox' \in [Conns -> [Sides -> Seq(Messages)]]
  BY <1>1, SendTypes DEF Close
<1> QED BY <1>2 DEF Close, Put, TypeOK, SocketStates

LEMMA DialTypes ==
  ASSUME TypeOK, NEW n, NEW urls, Dial(n, urls)
  PROVE  socket' \in [Conns -> [Sides -> SocketStates]]
  BY DEF Dial, TypeOK, SocketStates, Sides

LEMMA FaultTypes ==
  ASSUME TypeOK, Fault
  PROVE  faults' \in 0 .. setup.faults
<1>1. setup.faults \in Nat
  BY SetupsAssumption DEF TypeOK
<1> QED BY <1>1 DEF TypeOK, Fault

LEMMA TimersType ==
  ASSUME TypeOK, NEW c \in Conns, NEW side \in Sides, ScheduleReconnect(c, side)
  PROVE  timers' \in [Nodes -> SUBSET Homes]
  BY TwoEnds, HomesAssumption DEF ScheduleReconnect, TypeOK

-----------------------------------------------------------------------------
(* Type correctness. *)

LEMMA InitTypes == Init => TypeOK
<1> SUFFICES ASSUME Init PROVE TypeOK
  OBVIOUS
<1>1. life \in [Nodes -> Lives]
  BY DEF Init, Lives
<1>2. socket \in [Conns -> [Sides -> SocketStates]]
  BY DEF Init, SocketStates
<1>3. faults \in 0 .. setup.faults
  BY SetupsAssumption DEF Init
<1> QED BY <1>1, <1>2, <1>3 DEF Init, TypeOK

\* Messages an end can be sent.
LEMMA MessageTypes ==
  /\ Bye \in Messages
  /\ \A block \in Blocks : Hello(block) \in Messages /\ Frame(block) \in Messages
  BY DEF Messages

LEMMA ConnectingTypes ==
  ASSUME TypeOK, NEW c \in Conns, NEW block \in Blocks,
         Accept(c, block) \/ Opened(c, block)
  PROVE  TypeOK'
<1>1. CASE Accept(c, block)
  BY <1>1 DEF Accept, TypeOK, Put, Sides, SocketStates
<1>2. CASE Opened(c, block)
  <2>1. Hello(block) \in Messages /\ Bye \in Messages
    BY MessageTypes
  <2>2. inbox[c].in \in Seq(Messages)
    BY DEF TypeOK, Sides
  <2>3. Append(inbox[c].in, Hello(block)) \in Seq(Messages) /\ Append(inbox[c].in, Bye) \in Seq(Messages)
    BY <2>1, <2>2
  <2>4. inbox \in [Conns -> [Sides -> Seq(Messages)]] /\ "in" \in Sides /\ "out" \in Sides
    BY DEF TypeOK, Sides
  <2>5. inbox' \in [Conns -> [Sides -> Seq(Messages)]]
    <3>1. \E msg \in {Hello(block), Bye} : inbox' = [inbox EXCEPT ![c]["in"] = Append(@, msg)]
      BY <1>2 DEF Opened
    <3>2. PICK msg \in {Hello(block), Bye} : inbox' = [inbox EXCEPT ![c]["in"] = Append(@, msg)]
      BY <3>1
    <3>3. Append(inbox[c]["in"], msg) \in Seq(Messages)
      BY <2>3
    <3> QED BY <2>4, <3>2, <3>3, UpdateTypes
  <2>6. socket' \in [Conns -> [Sides -> SocketStates]]
    <3>1. \E v \in {"open", "closing"} : socket' = Put(socket, c, "out", v)
      BY <1>2 DEF Opened
    <3>2. PICK v \in {"open", "closing"} : socket' = [socket EXCEPT ![c]["out"] = v]
      BY <3>1 DEF Put
    <3> QED BY <2>4, <3>2 DEF TypeOK, SocketStates
  <2>7. session' \in [Conns -> [Sides -> Blocks \cup {None}]]
    <3>1. UNCHANGED session \/ session' = [session EXCEPT ![c]["out"] = block]
      BY <1>2 DEF Opened, Put
    <3>2. session \in [Conns -> [Sides -> Blocks \cup {None}]]
      BY DEF TypeOK
    <3>3. block \in Blocks \cup {None} /\ "out" \in Sides
      BY <2>4
    <3>4. [session EXCEPT ![c]["out"] = block] \in [Conns -> [Sides -> Blocks \cup {None}]]
      BY <3>2, <3>3
    <3> QED BY <3>1, <3>2, <3>4
  <2> QED BY <1>2, <2>5, <2>6, <2>7 DEF Opened, TypeOK
<1> QED BY <1>1, <1>2

LEMMA UndialTypes ==
  ASSUME TypeOK, NEW c \in Conns, ConnectFails(c)
  PROVE  TypeOK'
<1>1. Undial(c) /\ ScheduleReconnect(c, "out")
  BY DEF ConnectFails
<1>2. <<>> \in Seq(Messages) /\ <<Bye>> \in Seq(Messages)
  BY MessageTypes
<1>3. inbox' \in [Conns -> [Sides -> Seq(Messages)]]
  BY <1>1, <1>2 DEF Undial, TypeOK
<1>4. timers' \in [Nodes -> SUBSET Homes]
  BY <1>1, TimersType DEF Sides
<1>5. faults' \in 0 .. setup.faults
  BY <1>1, FaultTypes DEF Undial, TypeOK
<1> QED BY <1>1, <1>3, <1>4, <1>5 DEF Undial, TypeOK, Put, SocketStates

LEMMA HandshakeTypes ==
  ASSUME TypeOK, NEW c \in Conns, NEW side \in Sides,
         ReceiveHello(c, side) \/ RejectHello(c, side) \/ HandshakeTimeout(c, side)
  PROVE  TypeOK'
<1>1. At(c, side) \in Nodes /\ Peer(c, side) \in Nodes /\ Other(side) \in Sides
  BY EndsAreNodes
<1>2. CASE ReceiveHello(c, side)
  <2> DEFINE answered == IF side = "in" THEN Send(Rest(c, side), c, side, Hello(session[c][side]))
                                        ELSE Rest(c, side)
  <2>1. inbox[c][side] # <<>>
    BY <1>2 DEF ReceiveHello, Arrived
  <2>2. session[c][side] \in Blocks
    BY <1>2 DEF ReceiveHello, TypeOK
  <2>3. Hello(session[c][side]) \in Messages
    BY <2>2, MessageTypes
  <2>4. Rest(c, side) \in [Conns -> [Sides -> Seq(Messages)]]
    BY <2>1, RestTypes
  <2>5. answered \in [Conns -> [Sides -> Seq(Messages)]]
    BY <2>3, <2>4, SendTypes
  <2>6. socket' \in [Conns -> [Sides -> SocketStates]] /\ inbox' \in [Conns -> [Sides -> Seq(Messages)]]
    <3> HIDE DEF answered
    <3>1. \/ Close(c, side, answered)
          \/ inbox' = answered /\ UNCHANGED socket
      BY <1>2 DEF ReceiveHello, answered
    <3> QED BY <2>5, <3>1, CloseTypes DEF TypeOK
  <2> HIDE DEF answered
  <2>7. sessions' \in [Nodes -> [Nodes -> Conns \cup {None}]]
    <3>1. \/ UNCHANGED sessions
          \/ sessions' = [sessions EXCEPT ![At(c, side)][Peer(c, side)] = c]
      BY <1>2 DEF ReceiveHello
    <3>2. sessions \in [Nodes -> [Nodes -> Conns \cup {None}]]
      BY DEF TypeOK
    <3> QED BY <1>1, <3>1, <3>2
  <2>8. ready' \in [Conns -> [Sides -> BOOLEAN]]
    BY <1>2 DEF ReceiveHello, TypeOK, Put
  <2> QED BY <1>2, <2>6, <2>7, <2>8 DEF ReceiveHello, TypeOK
<1>3. CASE RejectHello(c, side)
  <2>1. Rest(c, side) \in [Conns -> [Sides -> Seq(Messages)]]
    BY <1>3, RestTypes DEF RejectHello, Arrived
  <2>2. faults' \in 0 .. setup.faults
    BY <1>3, FaultTypes DEF RejectHello, TypeOK
  <2> QED BY <1>3, <2>1, <2>2, CloseTypes DEF RejectHello, TypeOK
<1>4. CASE HandshakeTimeout(c, side)
  <2>1. inbox \in [Conns -> [Sides -> Seq(Messages)]]
    BY DEF TypeOK
  <2>2. faults' \in 0 .. setup.faults
    BY <1>4, FaultTypes DEF HandshakeTimeout
  <2> QED BY <1>4, <2>1, <2>2, CloseTypes DEF HandshakeTimeout, TypeOK
<1> QED BY <1>2, <1>3, <1>4

LEMMA FrameTypes ==
  ASSUME TypeOK
  PROVE  /\ \A n \in Nodes, block \in Blocks : Broadcast(n, block) => TypeOK'
         /\ \A c \in Conns, side \in Sides : ReceiveFrame(c, side) => TypeOK'
<1>1. ASSUME NEW n \in Nodes, NEW block \in Blocks, Broadcast(n, block)
      PROVE  TypeOK'
  <2>1. Frame(block) \in Messages
    BY MessageTypes
  <2>2. \A c \in Conns, side \in Sides : Append(inbox[c][side], Frame(block)) \in Seq(Messages)
    BY <2>1 DEF TypeOK
  <2>3. inbox' \in [Conns -> [Sides -> Seq(Messages)]]
    BY <1>1, <2>2 DEF Broadcast, TypeOK
  <2> QED BY <1>1, <2>3 DEF Broadcast, TypeOK
<1>2. ASSUME NEW c \in Conns, NEW side \in Sides, ReceiveFrame(c, side)
      PROVE  TypeOK'
  <2>1. inbox' \in [Conns -> [Sides -> Seq(Messages)]]
    BY <1>2, RestTypes DEF ReceiveFrame, Arrived
  <2> QED BY <1>2, <2>1 DEF ReceiveFrame, TypeOK
<1> QED BY <1>1, <1>2

LEMMA CloseEventTypes ==
  ASSUME TypeOK, NEW c \in Conns, NEW side \in Sides, ReceiveClose(c, side)
  PROVE  TypeOK'
<1>1. Send(inbox, c, side, Bye) \in [Conns -> [Sides -> Seq(Messages)]]
  BY SendTypes, MessageTypes DEF TypeOK
<1>2. inbox' \in [Conns -> [Sides -> Seq(Messages)]]
  BY <1>1 DEF ReceiveClose, Put
<1>3. sessions' \in [Nodes -> [Nodes -> Conns \cup {None}]]
  <2>1. At(c, side) \in Nodes /\ Peer(c, side) \in Nodes
    BY EndsAreNodes
  <2>2. \/ UNCHANGED sessions
        \/ sessions' = [sessions EXCEPT ![At(c, side)][Peer(c, side)] = None]
    BY <2>1 DEF ReceiveClose, Unregister, TypeOK
  <2>3. sessions \in [Nodes -> [Nodes -> Conns \cup {None}]]
    BY DEF TypeOK
  <2> QED BY <2>1, <2>2, <2>3
<1>4. timers' \in [Nodes -> SUBSET Homes]
  BY TimersType DEF ReceiveClose
<1> QED BY <1>2, <1>3, <1>4 DEF ReceiveClose, TypeOK, Put, SocketStates

LEMMA BreakTypes ==
  ASSUME TypeOK, NEW c \in Conns, NEW arrives \in BOOLEAN, Break(c, arrives)
  PROVE  TypeOK'
<1>1. \A side \in Sides : CutOff(inbox[c][side], arrives) \in Seq(Messages)
  BY CutOffTypes DEF TypeOK
<1>2. inbox' \in [Conns -> [Sides -> Seq(Messages)]]
  BY <1>1 DEF Break, TypeOK
<1> QED BY <1>2, FaultTypes DEF Break, TypeOK

LEMMA StopTypes ==
  ASSUME TypeOK, NEW n \in Nodes, Stop(n)
  PROVE  TypeOK'
<1>1. \A c \in Conns, side \in Sides : Append(inbox[c][side], Bye) \in Seq(Messages)
  BY MessageTypes DEF TypeOK
<1>2. inbox' \in [Conns -> [Sides -> Seq(Messages)]]
  BY <1>1 DEF Stop, TypeOK
<1>3. socket' \in [Conns -> [Sides -> SocketStates]]
  BY DEF Stop, TypeOK, SocketStates
<1>4. life' \in [Nodes -> Lives] /\ sessions' \in [Nodes -> [Nodes -> Conns \cup {None}]]
        /\ timers' \in [Nodes -> SUBSET Homes]
  BY DEF Stop, TypeOK, Lives
<1> QED BY <1>2, <1>3, <1>4 DEF Stop, TypeOK

LEMMA CrashTypes ==
  ASSUME TypeOK, NEW n \in Nodes, NEW arrives \in BOOLEAN, Crash(n, arrives)
  PROVE  TypeOK'
<1>1. \A c \in Conns, side \in Sides : CutOff(inbox[c][side], arrives) \in Seq(Messages)
  BY CutOffTypes DEF TypeOK
<1>2. inbox' \in [Conns -> [Sides -> Seq(Messages)]]
  BY <1>1 DEF Crash, TypeOK
<1>3. /\ socket' \in [Conns -> [Sides -> SocketStates]]
      /\ session' \in [Conns -> [Sides -> Blocks \cup {None}]]
      /\ ready' \in [Conns -> [Sides -> BOOLEAN]]
  BY DEF Crash, TypeOK, SocketStates
<1>4. life' \in [Nodes -> Lives] /\ sessions' \in [Nodes -> [Nodes -> Conns \cup {None}]]
        /\ timers' \in [Nodes -> SUBSET Homes]
  BY DEF Crash, TypeOK, Lives
<1> QED BY <1>2, <1>3, <1>4 DEF Crash, TypeOK

LEMMA DialingTypes ==
  ASSUME TypeOK
  PROVE  /\ \A n \in Nodes, h \in Homes : ReconnectFires(n, h) => TypeOK'
         /\ \A n \in Nodes : Start(n) => TypeOK'
<1>1. ASSUME NEW n \in Nodes, NEW h \in Homes, ReconnectFires(n, h)
      PROVE  TypeOK'
  BY <1>1, DialTypes DEF ReconnectFires, TypeOK
<1>2. ASSUME NEW n \in Nodes, Start(n)
      PROVE  TypeOK'
  BY <1>2, DialTypes DEF Start, TypeOK, Lives
<1> QED BY <1>1, <1>2

LEMMA NextTypes == TypeOK /\ [LinkNext]_linkVars => TypeOK'
<1> SUFFICES ASSUME TypeOK, [LinkNext]_linkVars PROVE TypeOK'
  OBVIOUS
<1>1. CASE UNCHANGED linkVars
  BY <1>1 DEF linkVars, ends, TypeOK
<1>2. CASE LinkNext
  BY <1>2, ConnectingTypes, UndialTypes, HandshakeTypes, FrameTypes, CloseEventTypes, BreakTypes,
     StopTypes, CrashTypes, DialingTypes DEF LinkNext
<1> QED BY <1>1, <1>2

\* Every variable of the links keeps its type.
THEOREM LinkTypeCorrect == LinkSpec => []TypeOK
  BY InitTypes, NextTypes, PTL DEF LinkSpec

-----------------------------------------------------------------------------
(* The registry of sessions. *)

\* Who has had a HELLO has a session, and a WebSocket that is not gone.
ReadyIsAlive ==
  \A c \in Conns, side \in Sides :
    ready[c][side] => Alive(c, side) /\ session[c][side] # None

Registry == TypeOK /\ ReadyIsAlive /\ RegisteredIsLive /\ ReadyIsRegistered

\* A step that no session enters or leaves by: whoever is ready stays what it was, or
\* begins to close.
Calm ==
  /\ UNCHANGED <<ready, sessions>>
  /\ \A c \in Conns, side \in Sides :
       ready[c][side] /\ Alive(c, side) =>
         /\ session'[c][side] = session[c][side] \/ session'[c][side] # None
         /\ socket'[c][side] = socket[c][side] \/ socket'[c][side] = "closing"

LEMMA CalmKeeps ==
  ASSUME Registry, Calm, TypeOK'
  PROVE  Registry'
<1>1. ReadyIsAlive'
  BY DEF Registry, Calm, ReadyIsAlive, Alive
<1>2. RegisteredIsLive'
  <2>1. \A c \in Conns, side \in Sides :
          ready[c][side] /\ Alive(c, side) => ready'[c][side] /\ Alive(c, side)'
    BY DEF Calm, Alive
  <2>2. \A c \in Conns, n, m \in Nodes : Up(c, n, m) => Up(c, n, m)'
    BY <2>1 DEF Up
  <2> QED BY <2>2 DEF Registry, TypeOK, Calm, RegisteredIsLive
<1>3. ReadyIsRegistered'
  BY DEF Registry, Calm, ReadyIsRegistered, ReadyIsAlive, Alive
<1> QED BY <1>1, <1>2, <1>3 DEF Registry

\* Dialing takes connections that are free.
LEMMA DialTakesFree ==
  ASSUME NEW n, NEW urls, Dial(n, urls), NEW c \in Conns, TypeOK
  PROVE  /\ socket'[c]["in"] = socket[c]["in"]
         /\ socket'[c]["out"] = socket[c]["out"] \/ (Free(c) /\ socket'[c]["out"] = "connecting")
<1> DEFINE choice(h) == CHOOSE d \in Usable(n, h) : TRUE
           chosen == {choice(h) : h \in urls}
<1>1. \A d \in chosen : Free(d)
  <2>1. \A h \in urls : choice(h) \in Usable(n, h)
    BY DEF Dial
  <2> HIDE DEF choice
  <2>2. \A h \in urls : Free(choice(h))
    BY <2>1 DEF Usable
  <2> QED BY <2>2
<1>2. socket'[c] = IF c \in chosen THEN [socket[c] EXCEPT !["out"] = "connecting"] ELSE socket[c]
  BY DEF Dial
<1>3. socket[c] \in [Sides -> SocketStates]
  BY DEF TypeOK
<1> HIDE DEF chosen
<1> QED BY <1>1, <1>2, <1>3 DEF Sides

\* Registering, closing, stopping and crashing are the steps that are not calm.
LEMMA CalmSteps ==
  ASSUME Registry,
         \/ UNCHANGED linkVars
         \/ \E c \in Conns, block \in Blocks : Accept(c, block) \/ Opened(c, block)
         \/ \E c \in Conns : ConnectFails(c)
         \/ \E c \in Conns, arrives \in BOOLEAN : Break(c, arrives)
         \/ \E c \in Conns, side \in Sides :
              RejectHello(c, side) \/ HandshakeTimeout(c, side) \/ ReceiveFrame(c, side)
         \/ \E n \in Nodes, h \in Homes : ReconnectFires(n, h)
         \/ \E n \in Nodes, block \in Blocks : Broadcast(n, block)
         \/ \E n \in Nodes : Start(n)
  PROVE  Calm
<1>1. CASE UNCHANGED linkVars
  BY <1>1 DEF linkVars, ends, Calm
<1>2. ASSUME NEW c \in Conns, NEW block \in Blocks, Accept(c, block) PROVE Calm
  BY <1>2, NoneAssumption DEF Accept, Calm, Registry, ReadyIsAlive, TypeOK, Put, Alive, Sides
<1>3. ASSUME NEW c \in Conns, NEW block \in Blocks, Opened(c, block) PROVE Calm
  <2>1. UNCHANGED <<ready, sessions>> /\ ~Alive(c, "out")
    BY <1>3 DEF Opened, Alive
  <2>2. \A d \in Conns, s \in Sides : d # c \/ s # "out" => socket'[d][s] = socket[d][s] /\ session'[d][s] = session[d][s]
    BY <1>3 DEF Opened, Put, Registry, TypeOK
  <2> QED BY <2>1, <2>2 DEF Calm
<1>4. ASSUME NEW c \in Conns, ConnectFails(c) PROVE Calm
  <2>1. UNCHANGED <<session, ready, sessions>> /\ ~Alive(c, "out")
    BY <1>4 DEF ConnectFails, Undial, Alive
  <2>2. \A d \in Conns, s \in Sides : d # c \/ s # "out" => socket'[d][s] = socket[d][s]
    BY <1>4 DEF ConnectFails, Undial, Put, Registry, TypeOK
  <2> QED BY <2>1, <2>2 DEF Calm
<1>5. ASSUME NEW c \in Conns, NEW side \in Sides, RejectHello(c, side) \/ HandshakeTimeout(c, side)
      PROVE  Calm
  <2>1. UNCHANGED <<session, ready, sessions>>
    BY <1>5 DEF RejectHello, HandshakeTimeout
  <2>2. socket' = IF socket[c][side] = "open" THEN [socket EXCEPT ![c][side] = "closing"] ELSE socket
    BY <1>5 DEF RejectHello, HandshakeTimeout, Close, Put
  <2>3. socket \in [Conns -> [Sides -> SocketStates]]
    BY DEF Registry, TypeOK
  <2> QED BY <2>1, <2>2, <2>3 DEF Calm
<1>6. CASE \/ \E c \in Conns, arrives \in BOOLEAN : Break(c, arrives)
           \/ \E c \in Conns, side \in Sides : ReceiveFrame(c, side)
           \/ \E n \in Nodes, block \in Blocks : Broadcast(n, block)
  BY <1>6 DEF Break, ReceiveFrame, Broadcast, Calm
<1>7. ASSUME NEW n \in Nodes, NEW urls, Dial(n, urls), UNCHANGED <<session, ready, sessions>>
      PROVE  Calm
  <2>1. \A c \in Conns : /\ socket'[c]["in"] = socket[c]["in"]
                         /\ socket'[c]["out"] = socket[c]["out"] \/ Free(c)
    BY <1>7, DialTakesFree DEF Registry
  <2> QED BY <1>7, <2>1 DEF Calm, Free, Alive, Sides
<1>8. CASE \E n \in Nodes, h \in Homes : ReconnectFires(n, h)
  BY <1>7, <1>8 DEF ReconnectFires
<1>9. CASE \E n \in Nodes : Start(n)
  BY <1>7, <1>9 DEF Start
<1> QED BY <1>1, <1>2, <1>3, <1>4, <1>5, <1>6, <1>8, <1>9

\* 'ready': the session that comes in is registered, or there is another one and it
\* begins to close.
LEMMA ReadyKeepsRegistry ==
  ASSUME Registry, TypeOK', NEW c \in Conns, NEW side \in Sides, ReceiveHello(c, side)
  PROVE  Registry'
<1> DEFINE n == At(c, side)
           m == Peer(c, side)
<1>1. n \in Nodes /\ m \in Nodes /\ n # m /\ Other(side) \in Sides
  BY EndsAreNodes, TwoEnds DEF At, Peer, Other, Sides
<1>2. /\ Alive(c, side) /\ session[c][side] # None /\ ~ready[c][side]
      /\ ready' = [ready EXCEPT ![c][side] = TRUE]
      /\ UNCHANGED session
  BY DEF ReceiveHello, Put
<1>3. \/ /\ sessions[n][m] # None /\ UNCHANGED sessions
         /\ socket' = IF socket[c][side] = "open" THEN [socket EXCEPT ![c][side] = "closing"] ELSE socket
      \/ /\ sessions[n][m] = None /\ UNCHANGED socket
         /\ sessions' = [sessions EXCEPT ![n][m] = c]
  BY DEF ReceiveHello, Close, Put
<1> HIDE DEF n, m
<1>4. ASSUME NEW d \in Conns, NEW s \in Sides
      PROVE  /\ Alive(d, s)' <=> Alive(d, s)
             /\ socket'[d][s] = "open" => socket[d][s] = "open"
             /\ ready'[d][s] <=> (ready[d][s] \/ (d = c /\ s = side))
  <2>1. socket \in [Conns -> [Sides -> SocketStates]] /\ ready \in [Conns -> [Sides -> BOOLEAN]]
    BY DEF Registry, TypeOK
  <2>2. socket'[d][s] = socket[d][s] \/ (socket[d][s] = "open" /\ socket'[d][s] = "closing")
    BY <1>3, <2>1
  <2> QED BY <1>2, <2>1, <2>2 DEF Alive
<1>5. ReadyIsAlive'
  BY <1>2, <1>4 DEF Registry, ReadyIsAlive
<1>6. RegisteredIsLive'
  <2>1. \A d \in Conns, k, l \in Nodes : Up(d, k, l) => Up(d, k, l)'
    BY <1>4 DEF Up
  <2>2. Up(c, n, m)'
    BY <1>2, <1>4 DEF Up, n, m
  <2>3. ASSUME NEW k \in Nodes, NEW l \in Nodes
        PROVE  sessions'[k][l] = sessions[k][l] \/ (k = n /\ l = m /\ sessions'[k][l] = c)
    BY <1>1, <1>3 DEF Registry, TypeOK
  <2> QED BY <2>1, <2>2, <2>3 DEF Registry, TypeOK, RegisteredIsLive
<1>7. ReadyIsRegistered'
  <2> SUFFICES ASSUME NEW d \in Conns, NEW s \in Sides, ready'[d][s], socket'[d][s] = "open"
               PROVE  sessions'[At(d, s)][Peer(d, s)] = d
    BY DEF ReadyIsRegistered, At, Peer
  <2>1. At(d, s) \in Nodes /\ Peer(d, s) \in Nodes
    BY EndsAreNodes
  <2>2. CASE d = c /\ s = side
    <3>1. sessions[n][m] = None
      <4>1. socket \in [Conns -> [Sides -> SocketStates]]
        BY DEF Registry, TypeOK
      <4> QED BY <1>3, <2>2, <4>1
    <3>2. sessions' = [sessions EXCEPT ![n][m] = c]
      BY <1>3, <3>1
    <3> QED BY <1>1, <2>2, <3>2 DEF Registry, TypeOK, n, m
  <2>3. CASE ~(d = c /\ s = side)
    <3>1. sessions[At(d, s)][Peer(d, s)] = d
      BY <1>4, <2>3 DEF Registry, ReadyIsRegistered
    <3>2. d # None
      BY NoneAssumption
    <3>3. sessions \in [Nodes -> [Nodes -> Conns \cup {None}]]
      BY DEF Registry, TypeOK
    <3> QED BY <1>1, <1>3, <2>1, <3>1, <3>2, <3>3
  <2> QED BY <2>2, <2>3
<1> QED BY <1>5, <1>6, <1>7 DEF Registry

\* 'close': the session leaves the registry, if it is the one that is there.
LEMMA CloseKeepsRegistry ==
  ASSUME Registry, TypeOK', NEW c \in Conns, NEW side \in Sides, ReceiveClose(c, side)
  PROVE  Registry'
<1> DEFINE n == At(c, side)
           m == Peer(c, side)
<1>1. n \in Nodes /\ m \in Nodes
  BY EndsAreNodes
<1>2. /\ socket' = [socket EXCEPT ![c][side] = "none"]
      /\ session' = [session EXCEPT ![c][side] = None]
      /\ ready' = [ready EXCEPT ![c][side] = FALSE]
  BY DEF ReceiveClose, Put
<1>3. IF session[c][side] # None
      THEN sessions' = [sessions EXCEPT ![n][m] = IF @ = c THEN None ELSE @]
      ELSE UNCHANGED sessions
  BY DEF ReceiveClose, Unregister
<1> HIDE DEF n, m
<1>4. /\ socket \in [Conns -> [Sides -> SocketStates]]
      /\ session \in [Conns -> [Sides -> Blocks \cup {None}]]
      /\ ready \in [Conns -> [Sides -> BOOLEAN]]
      /\ sessions \in [Nodes -> [Nodes -> Conns \cup {None}]]
  BY DEF Registry, TypeOK
<1>5. ASSUME NEW d \in Conns, NEW s \in Sides
      PROVE  IF d = c /\ s = side THEN ~ready'[d][s]
             ELSE socket'[d][s] = socket[d][s] /\ session'[d][s] = session[d][s] /\ ready'[d][s] = ready[d][s]
  BY <1>2, <1>4
<1>6. ReadyIsAlive'
  BY <1>5 DEF Registry, ReadyIsAlive, Alive
<1>7. ASSUME NEW k \in Nodes, NEW l \in Nodes, sessions'[k][l] # None
      PROVE  sessions'[k][l] = sessions[k][l] /\ ~(session[c][side] # None /\ k = n /\ l = m /\ sessions[k][l] = c)
  BY <1>1, <1>3, <1>4, <1>7
<1>8. RegisteredIsLive'
  <2> SUFFICES ASSUME NEW k \in Nodes, NEW l \in Nodes, NEW d \in Conns, sessions'[k][l] = d
               PROVE  Up(d, k, l)'
    BY DEF RegisteredIsLive
  <2>1. sessions[k][l] = d /\ ~(session[c][side] # None /\ k = n /\ l = m /\ d = c)
    BY <1>7, NoneAssumption
  <2>2. PICK s \in Sides : At(d, s) = k /\ Peer(d, s) = l /\ Alive(d, s) /\ ready[d][s]
    BY <2>1 DEF Registry, RegisteredIsLive, Up
  <2>3. session[d][s] # None
    BY <2>1, <2>2 DEF Registry, ReadyIsAlive
  <2>4. ~(d = c /\ s = side)
    BY <2>1, <2>2, <2>3 DEF n, m
  <2>5. Alive(d, s)' /\ ready'[d][s]
    BY <1>5, <2>1, <2>2, <2>4 DEF Alive
  <2> QED BY <2>2, <2>5 DEF Up, At, Peer
<1>9. ReadyIsRegistered'
  <2> SUFFICES ASSUME NEW d \in Conns, NEW s \in Sides, ready'[d][s], socket'[d][s] = "open"
               PROVE  sessions'[At(d, s)][Peer(d, s)] = d
    BY DEF ReadyIsRegistered, At, Peer
  <2>1. ~(d = c /\ s = side) /\ ready[d][s] /\ socket[d][s] = "open"
    BY <1>5
  <2>2. sessions[At(d, s)][Peer(d, s)] = d
    BY <2>1 DEF Registry, ReadyIsRegistered
  <2>3. At(d, s) \in Nodes /\ Peer(d, s) \in Nodes
    BY EndsAreNodes
  <2>4. ~(d = c /\ At(d, s) = n /\ Peer(d, s) = m)
    BY <2>1, TwoEnds DEF n, m, At, Peer, Other, Sides
  <2> QED BY <1>1, <1>3, <1>4, <2>2, <2>3, <2>4
<1> QED BY <1>6, <1>8, <1>9 DEF Registry

\* stop(): whatever is registered begins to close.
LEMMA StopKeepsRegistry ==
  ASSUME Registry, TypeOK', NEW n \in Nodes, Stop(n)
  PROVE  Registry'
<1>1. ASSUME NEW d \in Conns, NEW s \in Sides
      PROVE  socket'[d][s] = IF At(d, s) = n /\ sessions[n][Peer(d, s)] = d /\ socket[d][s] = "open"
                             THEN "closing" ELSE socket[d][s]
  BY DEF Stop
<1>2. UNCHANGED <<session, ready>>
  BY DEF Stop
<1>3. ASSUME NEW k \in Nodes, NEW l \in Nodes
      PROVE  sessions'[k][l] = IF k = n THEN None ELSE sessions[k][l]
  BY DEF Stop, Registry, TypeOK
<1>4. ReadyIsAlive'
  BY <1>1, <1>2 DEF Registry, ReadyIsAlive, Alive
<1>5. RegisteredIsLive'
  <2>1. \A d \in Conns, k, l \in Nodes : Up(d, k, l) => Up(d, k, l)'
    BY <1>1, <1>2 DEF Up, Alive
  <2> QED BY <1>3, <2>1, NoneAssumption DEF Registry, RegisteredIsLive
<1>6. ReadyIsRegistered'
  <2> SUFFICES ASSUME NEW d \in Conns, NEW s \in Sides, ready'[d][s], socket'[d][s] = "open"
               PROVE  sessions'[At(d, s)][Peer(d, s)] = d
    BY DEF ReadyIsRegistered, At, Peer
  <2>1. socket[d][s] = "open" /\ ready[d][s]
    BY <1>1, <1>2
  <2>2. sessions[At(d, s)][Peer(d, s)] = d
    BY <2>1 DEF Registry, ReadyIsRegistered
  <2>3. At(d, s) # n
    BY <1>1, <2>1, <2>2
  <2> QED BY <1>3, <2>2, <2>3, EndsAreNodes
<1> QED BY <1>4, <1>5, <1>6 DEF Registry

\* A crash takes the ends at its node, and all the node remembers.
LEMMA CrashKeepsRegistry ==
  ASSUME Registry, TypeOK', NEW n \in Nodes, NEW arrives \in BOOLEAN, Crash(n, arrives)
  PROVE  Registry'
<1>1. ASSUME NEW d \in Conns, NEW s \in Sides
      PROVE  /\ socket'[d][s] = IF At(d, s) = n THEN "none" ELSE socket[d][s]
             /\ session'[d][s] = IF At(d, s) = n THEN None ELSE session[d][s]
             /\ ready'[d][s] = IF At(d, s) = n THEN FALSE ELSE ready[d][s]
  BY DEF Crash
<1>2. ASSUME NEW k \in Nodes, NEW l \in Nodes
      PROVE  sessions'[k][l] = IF k = n THEN None ELSE sessions[k][l]
  BY DEF Crash, Registry, TypeOK
<1>3. ReadyIsAlive'
  BY <1>1 DEF Registry, ReadyIsAlive, Alive
<1>4. RegisteredIsLive'
  <2>1. ASSUME NEW d \in Conns, NEW k \in Nodes, NEW l \in Nodes, k # n, Up(d, k, l)
        PROVE  Up(d, k, l)'
    <3>1. PICK s \in Sides : At(d, s) = k /\ Peer(d, s) = l /\ Alive(d, s) /\ ready[d][s]
      BY <2>1 DEF Up
    <3>2. Alive(d, s)' /\ ready'[d][s]
      BY <1>1, <2>1, <3>1 DEF Alive
    <3> QED BY <3>1, <3>2 DEF Up, At, Peer
  <2> QED BY <1>2, <2>1, NoneAssumption DEF Registry, RegisteredIsLive
<1>5. ReadyIsRegistered'
  <2> SUFFICES ASSUME NEW d \in Conns, NEW s \in Sides, ready'[d][s], socket'[d][s] = "open"
               PROVE  sessions'[At(d, s)][Peer(d, s)] = d
    BY DEF ReadyIsRegistered, At, Peer
  <2>1. At(d, s) # n /\ socket[d][s] = "open" /\ ready[d][s]
    BY <1>1
  <2>2. sessions[At(d, s)][Peer(d, s)] = d
    BY <2>1 DEF Registry, ReadyIsRegistered
  <2> QED BY <1>2, <2>1, <2>2, EndsAreNodes
<1> QED BY <1>3, <1>4, <1>5 DEF Registry

LEMMA InitRegistry == Init => Registry
  BY InitTypes, NoneAssumption DEF Init, Registry, ReadyIsAlive, RegisteredIsLive, ReadyIsRegistered

LEMMA NextRegistry == Registry /\ [LinkNext]_linkVars => Registry'
<1> SUFFICES ASSUME Registry, [LinkNext]_linkVars PROVE Registry'
  OBVIOUS
<1>1. TypeOK'
  BY NextTypes DEF Registry
<1>2. \/ Calm
      \/ \E c \in Conns, side \in Sides : ReceiveHello(c, side) \/ ReceiveClose(c, side)
      \/ \E n \in Nodes, arrives \in BOOLEAN : Crash(n, arrives)
      \/ \E n \in Nodes : Stop(n)
  BY CalmSteps DEF LinkNext
<1> QED BY <1>1, <1>2, CalmKeeps, ReadyKeepsRegistry, CloseKeepsRegistry, StopKeepsRegistry, CrashKeepsRegistry

LEMMA RegistryHolds == LinkSpec => []Registry
  BY InitRegistry, NextRegistry, PTL DEF LinkSpec

\* A session that is registered is that of a live WebSocket whose handshake with the
\* peer is done, however connections break and nodes crash, stop and come back.
THEOREM RegisteredAlive == LinkSpec => []RegisteredIsLive
  BY RegistryHolds, PTL DEF Registry

\* No session that is ready and open is missing from its node's registry.
THEOREM ReadyRegistered == LinkSpec => []ReadyIsRegistered
  BY RegistryHolds, PTL DEF Registry

-----------------------------------------------------------------------------
(* Dialing. *)

Dials(n, h) == {c \in Conns : c.out = n /\ Home[c.in] = h}

\* A seed waits for a reconnect and is not dialed, or one connection dials it.
HandledOnce(n, h) ==
  IF h \in timers[n]
  THEN \A c \in Dials(n, h) : socket[c]["out"] = "none"
  ELSE \E c \in Dials(n, h) : \A d \in Dials(n, h) : socket[d]["out"] # "none" <=> d = c

\* A node that is still to be started dials nobody, and its timers are not set.
Handled(n) ==
  /\ life[n] = "unborn" =>
       timers[n] = {} /\ \A c \in Conns : c.out = n => socket[c]["out"] = "none"
  /\ Running(n) => \A h \in Seeds(n) : HandledOnce(n, h)

SeedsHandled == TypeOK /\ \A n \in Nodes : Handled(n)

LEMMA SeedsAreHomes ==
  ASSUME TypeOK, NEW n \in Nodes
  PROVE  Seeds(n) \subseteq Homes
  BY SetupsAssumption, HomesAssumption DEF TypeOK, Seeds

\* What is handled once is counted once.
LEMMA HandledIsCounted ==
  ASSUME SeedsHandled
  PROVE  SeedIsHandledOnce
<1> SUFFICES ASSUME NEW n \in Nodes, Running(n), NEW h \in Seeds(n)
             PROVE  Cardinality({c \in Conns : c.out = n /\ Home[c.in] = h /\ socket[c]["out"] # "none"})
                      + (IF h \in timers[n] THEN 1 ELSE 0) = 1
  BY DEF SeedIsHandledOnce
<1> DEFINE dialed == {c \in Conns : c.out = n /\ Home[c.in] = h /\ socket[c]["out"] # "none"}
<1>1. HandledOnce(n, h)
  BY DEF SeedsHandled, Handled
<1>2. CASE h \in timers[n]
  <2>1. dialed = {}
    BY <1>1, <1>2 DEF HandledOnce, Dials
  <2>2. Cardinality(dialed) = 0
    BY <2>1, FS_EmptySet
  <2> QED BY <1>2, <2>2
<1>3. CASE h \notin timers[n]
  <2>1. \E c \in Conns : dialed = {c}
    BY <1>1, <1>3 DEF HandledOnce, Dials
  <2>2. Cardinality(dialed) = 1
    BY <2>1, FS_Singleton
  <2> QED BY <1>3, <2>2
<1> QED BY <1>2, <1>3

\* A step that neither begins nor ends a connection n has dialed.
LEMMA KeepsHandled ==
  ASSUME NEW n \in Nodes, Handled(n), UNCHANGED setup, timers'[n] = timers[n],
         life'[n] = life[n] \/ life'[n] \in {"stopped", "crashed"},
         \A c \in Conns : c.out = n => (socket'[c]["out"] = "none" <=> socket[c]["out"] = "none")
  PROVE  Handled(n)'
<1>1. \A h : HandledOnce(n, h) => HandledOnce(n, h)'
  BY DEF HandledOnce, Dials
<1>2. Seeds(n)' = Seeds(n)
  BY DEF Seeds
<1>3. (Running(n)' => Running(n)) /\ (life'[n] = "unborn" => life[n] = "unborn")
  BY DEF Running
<1> QED BY <1>1, <1>2, <1>3 DEF Handled

\* A connection that was dialed ends, and the reconnect is scheduled.
LEMMA EndKeepsHandled ==
  ASSUME TypeOK, NEW c \in Conns, Handled(c.out), socket[c]["out"] # "none",
         UNCHANGED <<setup, life>>, ScheduleReconnect(c, "out"),
         socket' = [socket EXCEPT ![c]["out"] = "none"]
  PROVE  \A n \in Nodes : Handled(n) => Handled(n)'
<1> SUFFICES ASSUME NEW n \in Nodes, Handled(n) PROVE Handled(n)'
  OBVIOUS
<1>1. /\ timers'[n] = IF n = c.out /\ Running(n) THEN timers[n] \cup {Home[c.in]} ELSE timers[n]
      /\ \A d \in Conns : socket'[d]["out"] = IF d = c THEN "none" ELSE socket[d]["out"]
  BY TwoEnds DEF ScheduleReconnect, TypeOK, Sides
<1>2. CASE n # c.out
  BY <1>1, <1>2, KeepsHandled
<1>3. CASE n = c.out /\ ~Running(n)
  BY <1>1, <1>3 DEF Handled, Running
<1>4. CASE n = c.out /\ Running(n)
  <2> SUFFICES ASSUME NEW h \in Seeds(n) PROVE HandledOnce(n, h)'
    BY <1>4 DEF Handled, Running, Seeds
  <2>1. HandledOnce(n, h)
    BY <1>4 DEF Handled
  <2>2. CASE h = Home[c.in]
    <3>1. c \in Dials(n, h)
      BY <1>4, <2>2 DEF Dials
    <3>2. \A d \in Dials(n, h) : socket[d]["out"] # "none" => d = c
      BY <2>1, <3>1 DEF HandledOnce
    <3>3. \A d \in Dials(n, h) : socket'[d]["out"] = "none"
      BY <1>1, <3>2 DEF Dials
    <3>4. h \in timers'[n]
      BY <1>1, <1>4, <2>2
    <3> QED BY <3>3, <3>4 DEF HandledOnce, Dials
  <2>3. CASE h # Home[c.in]
    BY <1>1, <2>1, <2>3 DEF HandledOnce, Dials
  <2> QED BY <2>2, <2>3
<1> QED BY <1>2, <1>3, <1>4

\* A node that dials some URLs begins one connection to each.
LEMMA DialsOneEach ==
  ASSUME TypeOK, NEW n \in Nodes, NEW urls, Dial(n, urls)
  PROVE  /\ \A h \in urls : \E c \in Dials(n, h) : \A d \in Dials(n, h) :
              /\ socket[c]["out"] = "none"
              /\ socket'[d]["out"] = IF d = c THEN "connecting" ELSE socket[d]["out"]
         /\ \A d \in Conns : d.out # n \/ Home[d.in] \notin urls => socket'[d]["out"] = socket[d]["out"]
<1> DEFINE choice(h) == CHOOSE d \in Usable(n, h) : TRUE
           chosen == {choice(h) : h \in urls}
<1>1. \A h \in urls : choice(h) \in Usable(n, h)
  BY DEF Dial
<1>2. \A d \in Conns : socket'[d] = IF d \in chosen THEN [socket[d] EXCEPT !["out"] = "connecting"] ELSE socket[d]
  BY DEF Dial
<1>3. \A d \in Conns : socket[d] \in [Sides -> SocketStates]
  BY DEF TypeOK
<1> HIDE DEF choice
<1>4. \A d \in Conns : socket'[d]["out"] = IF d \in chosen THEN "connecting" ELSE socket[d]["out"]
  BY <1>2, <1>3 DEF Sides
<1>5. \A h \in urls : choice(h) \in Dials(n, h) /\ socket[choice(h)]["out"] = "none"
  BY <1>1 DEF Usable, Dials, Occupants, Free, Sides
<1>6. \A h \in urls : \A d \in Dials(n, h) : d \in chosen <=> d = choice(h)
  BY <1>5 DEF Dials
<1>7. \A d \in chosen : d.out = n /\ Home[d.in] \in urls
  BY <1>5 DEF Dials
<1> HIDE DEF chosen
<1>8. \A h \in urls : \A d \in Dials(n, h) : socket'[d]["out"] = IF d = choice(h) THEN "connecting" ELSE socket[d]["out"]
  BY <1>4, <1>6 DEF Dials
<1> QED BY <1>4, <1>5, <1>7, <1>8

LEMMA ReconnectKeepsHandled ==
  ASSUME SeedsHandled, NEW k \in Nodes, NEW u \in Homes, ReconnectFires(k, u)
  PROVE  \A n \in Nodes : Handled(n)'
<1> SUFFICES ASSUME NEW n \in Nodes PROVE Handled(n)'
  OBVIOUS
<1>1. /\ u \in timers[k] /\ Dial(k, {u}) /\ UNCHANGED <<setup, life>>
      /\ timers'[n] = IF n = k THEN timers[n] \ {u} ELSE timers[n]
  BY DEF ReconnectFires, SeedsHandled, TypeOK
<1>2. CASE n # k
  <2>1. \A c \in Conns : c.out = n => socket'[c]["out"] = socket[c]["out"]
    BY <1>1, <1>2, DialsOneEach DEF SeedsHandled
  <2> QED BY <1>1, <1>2, <2>1, KeepsHandled DEF SeedsHandled
<1>3. CASE n = k
  <2>1. life[n] # "unborn"
    BY <1>1, <1>3 DEF SeedsHandled, Handled
  <2> SUFFICES ASSUME Running(n), NEW h \in Seeds(n) PROVE HandledOnce(n, h)'
    BY <1>1, <2>1 DEF Handled, Running, Seeds
  <2>2. HandledOnce(n, h)
    BY DEF SeedsHandled, Handled
  <2>3. CASE h = u
    <3>1. \A d \in Dials(n, h) : socket[d]["out"] = "none"
      BY <1>1, <1>3, <2>2, <2>3 DEF HandledOnce
    <3>2. PICK c \in Dials(n, h) : \A d \in Dials(n, h) :
            socket'[d]["out"] = IF d = c THEN "connecting" ELSE socket[d]["out"]
      BY <1>1, <1>3, <2>3, DialsOneEach DEF SeedsHandled
    <3>3. \A d \in Dials(n, h) : socket'[d]["out"] # "none" <=> d = c
      BY <3>1, <3>2
    <3>4. h \notin timers'[n]
      BY <1>1, <1>3, <2>3
    <3> QED BY <3>3, <3>4 DEF HandledOnce, Dials
  <2>4. CASE h # u
    <3>1. \A d \in Dials(n, h) : socket'[d]["out"] = socket[d]["out"]
      BY <1>1, <1>3, <2>4, DialsOneEach DEF SeedsHandled, Dials
    <3>2. h \in timers'[n] <=> h \in timers[n]
      BY <1>1, <1>3, <2>4
    <3> QED BY <2>2, <3>1, <3>2 DEF HandledOnce, Dials
  <2> QED BY <2>3, <2>4
<1> QED BY <1>2, <1>3

LEMMA StartKeepsHandled ==
  ASSUME SeedsHandled, NEW k \in Nodes, Start(k)
  PROVE  \A n \in Nodes : Handled(n)'
<1> SUFFICES ASSUME NEW n \in Nodes PROVE Handled(n)'
  OBVIOUS
<1>1. /\ life[k] = "unborn" /\ Dial(k, Seeds(k)) /\ UNCHANGED <<setup, timers>>
      /\ life'[n] = IF n = k THEN "running" ELSE life[n]
  BY DEF Start, SeedsHandled, TypeOK
<1>2. CASE n # k
  <2>1. \A c \in Conns : c.out = n => socket'[c]["out"] = socket[c]["out"]
    BY <1>1, <1>2, DialsOneEach DEF SeedsHandled
  <2> QED BY <1>1, <1>2, <2>1, KeepsHandled DEF SeedsHandled
<1>3. CASE n = k
  <2>1. timers[n] = {} /\ \A c \in Conns : c.out = n => socket[c]["out"] = "none"
    BY <1>1, <1>3 DEF SeedsHandled, Handled
  <2> SUFFICES ASSUME NEW h \in Seeds(n) PROVE HandledOnce(n, h)'
    BY <1>1, <1>3 DEF Handled, Running, Seeds
  <2>2. PICK c \in Dials(n, h) : \A d \in Dials(n, h) :
          socket'[d]["out"] = IF d = c THEN "connecting" ELSE socket[d]["out"]
    BY <1>1, <1>3, DialsOneEach DEF SeedsHandled
  <2>3. \A d \in Dials(n, h) : socket'[d]["out"] # "none" <=> d = c
    BY <2>1, <2>2 DEF Dials
  <2> QED BY <1>1, <2>1, <2>3 DEF HandledOnce, Dials
<1> QED BY <1>2, <1>3

\* A step in which no connection that was dialed begins or ends.
Steady ==
  /\ UNCHANGED <<setup, life, timers>>
  /\ \A c \in Conns : socket'[c]["out"] = "none" <=> socket[c]["out"] = "none"

LEMMA SteadySteps ==
  ASSUME TypeOK,
         \/ UNCHANGED linkVars
         \/ \E c \in Conns, block \in Blocks : Accept(c, block) \/ Opened(c, block)
         \/ \E c \in Conns, arrives \in BOOLEAN : Break(c, arrives)
         \/ \E c \in Conns, side \in Sides :
              ReceiveHello(c, side) \/ RejectHello(c, side) \/ HandshakeTimeout(c, side) \/ ReceiveFrame(c, side)
         \/ \E c \in Conns : ReceiveClose(c, "in")
         \/ \E n \in Nodes, block \in Blocks : Broadcast(n, block)
  PROVE  Steady
<1>1. socket \in [Conns -> [Sides -> SocketStates]]
  BY DEF TypeOK
<1>2. ASSUME NEW c \in Conns, NEW block \in Blocks, Accept(c, block) \/ Opened(c, block) PROVE Steady
  <2>1. CASE Accept(c, block)
    <3>1. socket' = [socket EXCEPT ![c]["in"] = "open"] /\ UNCHANGED <<setup, life, timers>>
      BY <2>1 DEF Accept, Put
    <3> QED BY <1>1, <3>1 DEF Steady, Sides
  <2>2. CASE Opened(c, block)
    <3>1. /\ UNCHANGED <<setup, life, timers>> /\ socket[c]["out"] = "connecting"
          /\ \E v \in {"open", "closing"} : socket' = [socket EXCEPT ![c]["out"] = v]
      BY <2>2 DEF Opened, Put
    <3> QED BY <1>1, <3>1 DEF Steady, Sides
  <2> QED BY <1>2, <2>1, <2>2
<1>3. ASSUME NEW c \in Conns, NEW side \in Sides,
             ReceiveHello(c, side) \/ RejectHello(c, side) \/ HandshakeTimeout(c, side)
      PROVE  Steady
  <2>1. UNCHANGED <<setup, life, timers>>
    BY <1>3 DEF ReceiveHello, RejectHello, HandshakeTimeout
  <2>2. \/ UNCHANGED socket
        \/ socket[c][side] = "open" /\ socket' = [socket EXCEPT ![c][side] = "closing"]
    BY <1>3 DEF ReceiveHello, RejectHello, HandshakeTimeout, Close, Put
  <2> QED BY <1>1, <2>1, <2>2 DEF Steady, Sides
<1>4. ASSUME NEW c \in Conns, ReceiveClose(c, "in") PROVE Steady
  <2>1. socket' = [socket EXCEPT ![c]["in"] = "none"] /\ UNCHANGED <<setup, life, timers>>
    BY <1>4 DEF ReceiveClose, Put, ScheduleReconnect
  <2> QED BY <1>1, <2>1 DEF Steady, Sides
<1>5. CASE \/ UNCHANGED linkVars
           \/ \E c \in Conns, arrives \in BOOLEAN : Break(c, arrives)
           \/ \E c \in Conns, side \in Sides : ReceiveFrame(c, side)
           \/ \E n \in Nodes, block \in Blocks : Broadcast(n, block)
  BY <1>5 DEF linkVars, ends, Break, ReceiveFrame, Broadcast, Steady
<1> QED BY <1>2, <1>3, <1>4, <1>5

\* stop() and a crash: the node at which they happen is not running any more.
LEMMA EndOfNodeKeepsHandled ==
  ASSUME SeedsHandled, NEW k \in Nodes,
         Stop(k) \/ (\E arrives \in BOOLEAN : Crash(k, arrives))
  PROVE  \A n \in Nodes : Handled(n)'
<1> SUFFICES ASSUME NEW n \in Nodes PROVE Handled(n)'
  OBVIOUS
<1>1. /\ UNCHANGED setup
      /\ timers'[n] = IF n = k THEN {} ELSE timers[n]
      /\ n # k => life'[n] = life[n]
      /\ life'[k] \in {"stopped", "crashed"}
  BY DEF Stop, Crash, SeedsHandled, TypeOK
<1>2. CASE n = k
  BY <1>1, <1>2 DEF Handled, Running
<1>3. CASE n # k
  <2>1. \A c \in Conns : c.out = n => (socket'[c]["out"] = "none" <=> socket[c]["out"] = "none")
    <3>1. CASE Stop(k)
      BY <3>1 DEF Stop, Sides
    <3>2. CASE \E arrives \in BOOLEAN : Crash(k, arrives)
      BY <1>3, <3>2 DEF Crash, At, Sides
    <3> QED BY <3>1, <3>2
  <2> QED BY <1>1, <1>3, <2>1, KeepsHandled DEF SeedsHandled
<1> QED BY <1>2, <1>3

LEMMA InitHandled == Init => SeedsHandled
<1> SUFFICES ASSUME Init, NEW n \in Nodes PROVE Handled(n)
  BY InitTypes DEF SeedsHandled
<1>1. timers[n] = {} /\ life[n] = IF n \in First THEN "running" ELSE "unborn"
  BY DEF Init
<1>2. PICK slot \in Slots : \A c \in Conns :
        socket[c]["out"] = IF /\ c.slot = slot
                              /\ {c.out, c.in} \subseteq First /\ Home[c.in] \in setup.seeds[Home[c.out]]
                           THEN "connecting" ELSE "none"
  BY DEF Init, Sides
<1>3. CASE n \notin First
  BY <1>1, <1>2, <1>3 DEF Handled, Running
<1>4. CASE n \in First
  <2> SUFFICES ASSUME NEW h \in Seeds(n) PROVE HandledOnce(n, h)
    BY <1>1, <1>4 DEF Handled
  <2>1. h \in Homes /\ h \in setup.seeds[Home[n]] /\ h # Home[n]
    BY SetupsAssumption, HomesAssumption DEF Seeds, Init
  <2>2. PICK m \in First : Home[m] = h
    BY <2>1, HomesAssumption
  <2> DEFINE c == [out |-> n, in |-> m, slot |-> slot]
  <2>3. c \in Dials(n, h)
    BY <2>1, <2>2, HomesAssumption DEF Conns, Dials
  <2>4. ASSUME NEW d \in Dials(n, h)
        PROVE  socket[d]["out"] # "none" <=> d = c
    <3>1. d \in Conns /\ d.out = n /\ Home[d.in] = h
      BY DEF Dials
    <3>2. d = c <=> d.slot = slot /\ d.in = m
      BY <3>1 DEF Conns
    <3>3. d.in \in First => d.in = m
      BY <2>2, <3>1, HomesAssumption
    <3> HIDE DEF c
    <3> QED BY <1>2, <1>4, <2>1, <2>2, <3>1, <3>2, <3>3
  <2> HIDE DEF c
  <2> QED BY <1>1, <2>3, <2>4 DEF HandledOnce
<1> QED BY <1>3, <1>4

LEMMA NextHandled == SeedsHandled /\ [LinkNext]_linkVars => SeedsHandled'
<1> SUFFICES ASSUME SeedsHandled, [LinkNext]_linkVars PROVE \A n \in Nodes : Handled(n)'
  BY NextTypes DEF SeedsHandled
<1>1. CASE Steady
  BY <1>1, KeepsHandled DEF Steady, SeedsHandled
<1>2. ASSUME NEW c \in Conns, ConnectFails(c) \/ ReceiveClose(c, "out")
      PROVE  \A n \in Nodes : Handled(n)'
  <2>1. /\ socket[c]["out"] # "none" /\ UNCHANGED <<setup, life>> /\ ScheduleReconnect(c, "out")
        /\ socket' = [socket EXCEPT ![c]["out"] = "none"]
    BY <1>2 DEF ConnectFails, Undial, ReceiveClose, Alive, Put
  <2> QED BY <2>1, TwoEnds, EndKeepsHandled DEF SeedsHandled
<1>3. \/ Steady
      \/ \E c \in Conns : ConnectFails(c) \/ ReceiveClose(c, "out")
      \/ \E n \in Nodes, h \in Homes : ReconnectFires(n, h)
      \/ \E n \in Nodes : Start(n)
      \/ \E n \in Nodes : Stop(n) \/ \E arrives \in BOOLEAN : Crash(n, arrives)
  BY SteadySteps DEF LinkNext, Sides, SeedsHandled
<1> QED BY <1>1, <1>2, <1>3, ReconnectKeepsHandled, StartKeepsHandled, EndOfNodeKeepsHandled

\* As long as a node runs, each of its seeds is dialed or connected by one connection,
\* or waits for one reconnect, however many processes have come and gone at its URL.
THEOREM SeedHandledOnce == LinkSpec => []SeedIsHandledOnce
  BY InitHandled, NextHandled, HandledIsCounted, PTL DEF LinkSpec

-----------------------------------------------------------------------------
(* HELLO comes before any frame. *)

\* An end has not sent HELLO: it is not open, or is the responder and awaits one.
Silent(c, side) == socket[c][side] = "open" => side = "in" /\ ~ready[c][side]

\* An end that will take what comes for a HELLO.
Waits(c, side) == socket[c][side] \in {"connecting", "open"} /\ ~ready[c][side]

\* To an end that waits nothing was sent by a silent one, or no frame first.
Greeted(c, side) ==
  Waits(c, side) => IF inbox[c][side] = <<>> THEN Silent(c, Other(side))
                    ELSE Head(inbox[c][side]).type # "frame"

\* What a connection is by the time it is dialed, and what it becomes.
HelloFirst(c) ==
  /\ socket[c]["in"] # "connecting"
  /\ socket[c]["out"] = "connecting" => inbox[c]["in"] = <<>> /\ ~ready[c]["in"]
  /\ \A side \in Sides : Greeted(c, side) /\ (socket[c][side] = "none" => inbox[c][side] = <<>>)

Greetings == TypeOK /\ ReadyIsAlive /\ \A c \in Conns : HelloFirst(c)

LEMMA HeadOfMore ==
  ASSUME NEW box \in Seq(Messages), NEW msg \in Messages
  PROVE  Append(box, msg) # <<>> /\ Head(Append(box, msg)) = IF box = <<>> THEN msg ELSE Head(box)
<1>1. Len(Append(box, msg)) = Len(box) + 1 /\ Len(box) \in Nat
  OBVIOUS
<1>2. Append(box, msg) # <<>>
  BY <1>1
<1>3. CASE box = <<>>
  BY <1>3
<1>4. CASE box # <<>>
  <2>1. Len(box) >= 1
    BY <1>1, <1>4
  <2>2. Append(box, msg)[1] = box[1]
    BY <2>1
  <2>3. Append(box, msg) \in Seq(Messages)
    OBVIOUS
  <2> QED BY <1>2, <1>4, <2>2, <2>3
<1> QED BY <1>2, <1>3, <1>4

LEMMA HeadOfCut ==
  ASSUME NEW box \in Seq(Messages), NEW arrives \in BOOLEAN
  PROVE  /\ CutOff(box, arrives) # <<>>
         /\ Head(CutOff(box, arrives)) = Bye
            \/ (box # <<>> /\ Head(CutOff(box, arrives)) = Head(box))
<1>1. Bye \in Messages
  BY DEF Messages
<1>2. CASE ~arrives
  BY <1>2 DEF CutOff
<1>3. CASE arrives /\ \E i \in DOMAIN box : box[i] = Bye
  BY <1>3 DEF CutOff
<1>4. CASE arrives /\ ~\E i \in DOMAIN box : box[i] = Bye
  <2>1. CutOff(box, arrives) = Append(box, Bye)
    BY <1>4 DEF CutOff
  <2> QED BY <1>1, <2>1, HeadOfMore
<1> QED BY <1>2, <1>3, <1>4

\* What a step sent to an end, if anything: a frame only if the other end is ready.
Told(c, side) ==
  \/ inbox'[c][side] = inbox[c][side]
  \/ /\ socket[c][Other(side)] = "open" /\ socket[c][side] # "none"
     /\ \E msg \in Messages : /\ inbox'[c][side] = Append(inbox[c][side], msg)
                              /\ msg.type = "frame" => ready[c][Other(side)]

\* A step by which no end becomes ready and open ends may begin to close.
LEMMA TellingKeepsFirst ==
  ASSUME TypeOK, NEW c \in Conns, HelloFirst(c), ready'[c] = ready[c],
         \A side \in Sides :
           /\ Told(c, side)
           /\ \/ socket'[c][side] = socket[c][side]
              \/ socket[c][side] = "open" /\ socket'[c][side] = "closing"
  PROVE  HelloFirst(c)'
<1>1. "in" \in Sides /\ "out" \in Sides /\ Other("in") = "out" /\ Other("out") = "in"
  BY DEF Sides, Other
<1>2. socket'[c]["in"] # "connecting"
  BY <1>1 DEF HelloFirst
<1>3. socket'[c]["out"] = "connecting" => inbox'[c]["in"] = <<>> /\ ~ready'[c]["in"]
  BY <1>1 DEF HelloFirst, Told
<1>4. ASSUME NEW side \in Sides
      PROVE  Greeted(c, side)' /\ (socket'[c][side] = "none" => inbox'[c][side] = <<>>)
  <2>1. Greeted(c, side) /\ (socket[c][side] = "none" => inbox[c][side] = <<>>)
    BY DEF HelloFirst
  <2>2. socket'[c][side] = "none" => inbox'[c][side] = <<>>
    BY <2>1 DEF Told
  <2>3. (Waits(c, side)' => Waits(c, side)) /\ Other(side) \in Sides
    BY DEF Waits, Other, Sides
  <2>4. Silent(c, Other(side)) => Silent(c, Other(side))'
    BY <2>3 DEF Silent
  <2>5. CASE inbox'[c][side] = inbox[c][side]
    BY <2>1, <2>2, <2>3, <2>4, <2>5 DEF Greeted
  <2>6. CASE inbox'[c][side] # inbox[c][side]
    <3>1. socket[c][Other(side)] = "open"
      BY <2>6 DEF Told
    <3>2. PICK msg \in Messages : /\ inbox'[c][side] = Append(inbox[c][side], msg)
                                  /\ msg.type = "frame" => ready[c][Other(side)]
      BY <2>6 DEF Told
    <3>3. inbox[c][side] \in Seq(Messages)
      BY DEF TypeOK
    <3>4. /\ inbox'[c][side] # <<>>
          /\ Head(inbox'[c][side]) = IF inbox[c][side] = <<>> THEN msg ELSE Head(inbox[c][side])
      BY <3>2, <3>3, HeadOfMore
    <3>5. Waits(c, side) => Head(inbox'[c][side]).type # "frame"
      <4>1. CASE inbox[c][side] = <<>>
        BY <2>1, <3>1, <3>2, <3>4, <4>1 DEF Greeted, Silent
      <4>2. CASE inbox[c][side] # <<>>
        BY <2>1, <3>4, <4>2 DEF Greeted
      <4> QED BY <4>1, <4>2
    <3> QED BY <2>2, <2>3, <3>4, <3>5 DEF Greeted
  <2> QED BY <2>5, <2>6
<1> QED BY <1>2, <1>3, <1>4 DEF HelloFirst

\* What a step made of what an end has to hear: not less than there was, and no frame
\* in front of it.
HearsOn(c, side) ==
  IF inbox'[c][side] = <<>> THEN inbox[c][side] = <<>>
  ELSE \/ Head(inbox'[c][side]).type # "frame"
       \/ inbox[c][side] # <<>> /\ Head(inbox'[c][side]) = Head(inbox[c][side])

\* An end takes what has arrived and does not wait any more.
LEMMA HearingKeepsFirst ==
  ASSUME NEW c \in Conns, NEW side \in Sides, HelloFirst(c),
         Alive(c, side), inbox[c][side] # <<>>, ~Waits(c, side)',
         socket'[c][side] \in {socket[c][side], "closing", "none"},
         socket'[c][side] = "none" => inbox'[c][side] = <<>>,
         socket'[c][Other(side)] = socket[c][Other(side)],
         ready'[c][Other(side)] = ready[c][Other(side)],
         HearsOn(c, Other(side)),
         socket[c][Other(side)] = "none" => inbox'[c][Other(side)] = inbox[c][Other(side)],
         inbox'[c][Other(side)] = <<>> /\ Waits(c, Other(side)) => Silent(c, side)'
  PROVE  HelloFirst(c)'
<1>1. /\ (side = "in" /\ Other(side) = "out") \/ (side = "out" /\ Other(side) = "in")
      /\ Other(side) \in Sides /\ Other(Other(side)) = side
  BY DEF Sides, Other
<1>2. socket[c][side] \in {"open", "closing"} /\ socket'[c][side] # "connecting"
  BY DEF Alive
<1>3. socket'[c]["in"] # "connecting"
  BY <1>1, <1>2 DEF HelloFirst
<1>4. socket'[c]["out"] # "connecting"
  BY <1>1, <1>2 DEF HelloFirst
<1>5. Greeted(c, side)' /\ (socket'[c][side] = "none" => inbox'[c][side] = <<>>)
  BY DEF Greeted
<1>6. Greeted(c, Other(side)) /\ (socket[c][Other(side)] = "none" => inbox[c][Other(side)] = <<>>)
  BY <1>1 DEF HelloFirst
<1>7. Greeted(c, Other(side))'
  <2>1. Waits(c, Other(side))' <=> Waits(c, Other(side))
    BY DEF Waits
  <2>2. CASE inbox'[c][Other(side)] = <<>>
    BY <1>1, <2>1, <2>2 DEF Greeted
  <2>3. CASE inbox'[c][Other(side)] # <<>>
    BY <1>6, <2>1, <2>3 DEF Greeted, HearsOn
  <2> QED BY <2>2, <2>3
<1>8. \A s \in Sides : s = side \/ s = Other(side)
  BY <1>1 DEF Sides
<1> QED BY <1>3, <1>4, <1>5, <1>6, <1>7, <1>8 DEF HelloFirst

LEMMA SendElsewhere ==
  ASSUME NEW STATE box, box \in [Conns -> [Sides -> Seq(Messages)]],
         NEW c \in Conns, NEW side \in Sides, NEW msg \in Messages, NEW d \in Conns, d # c
  PROVE  Send(box, c, side, msg)[d] = box[d]
  BY DEF Send

LEMMA SendReaches ==
  ASSUME NEW STATE box, box \in [Conns -> [Sides -> Seq(Messages)]],
         NEW c \in Conns, NEW side \in Sides, NEW msg \in Messages
  PROVE  /\ Send(box, c, side, msg)[c][side] = box[c][side]
         /\ Send(box, c, side, msg)[c][Other(side)] =
              IF socket[c][side] = "open" /\ socket[c][Other(side)] # "none"
              THEN Append(box[c][Other(side)], msg) ELSE box[c][Other(side)]
<1>1. Other(side) \in Sides /\ Other(side) # side
  BY DEF Other, Sides
<1> QED BY <1>1 DEF Send

LEMMA ElsewhereKeepsFirst ==
  ASSUME Greetings, NEW d \in Conns,
         socket'[d] = socket[d], ready'[d] = ready[d], inbox'[d] = inbox[d]
  PROVE  HelloFirst(d)'
  BY TellingKeepsFirst DEF Greetings, Told

\* What is left to hear at one end while the other one reads.
LEMMA RestIsTail ==
  ASSUME TypeOK, NEW c \in Conns, NEW side \in Sides
  PROVE  /\ Other(side) \in Sides /\ Other(side) # side
         /\ \A d \in Conns \ {c} : Rest(c, side)[d] = inbox[d]
         /\ Rest(c, side)[c][Other(side)] = inbox[c][Other(side)]
  BY DEF Rest, Put, TypeOK, Other, Sides

\* Closing says one more thing, and only while the socket is open.
LEMMA CloseElsewhere ==
  ASSUME TypeOK, NEW c \in Conns, NEW side \in Sides,
         NEW STATE box, box \in [Conns -> [Sides -> Seq(Messages)]], Close(c, side, box),
         NEW d \in Conns, d # c
  PROVE  socket'[d] = socket[d] /\ inbox'[d] = box[d]
<1>1. Bye \in Messages
  BY DEF Messages
<1>2. inbox' = Send(box, c, side, Bye)
  BY DEF Close
<1>3. Send(box, c, side, Bye)[d] = box[d]
  BY <1>1, SendElsewhere
<1>4. socket'[d] = socket[d]
  BY DEF Close, Put
<1> QED BY <1>2, <1>3, <1>4

LEMMA CloseSays ==
  ASSUME TypeOK, NEW c \in Conns, NEW side \in Sides,
         NEW STATE box, box \in [Conns -> [Sides -> Seq(Messages)]], Close(c, side, box)
  PROVE  /\ socket'[c][Other(side)] = socket[c][Other(side)]
         /\ socket'[c][side] = IF socket[c][side] = "open" THEN "closing" ELSE socket[c][side]
         /\ inbox'[c][side] = box[c][side]
         /\ inbox'[c][Other(side)] =
              IF socket[c][side] = "open" /\ socket[c][Other(side)] # "none"
              THEN Append(box[c][Other(side)], Bye) ELSE box[c][Other(side)]
<1>1. Bye \in Messages /\ Other(side) \in Sides /\ Other(side) # side
  BY DEF Messages, Other, Sides
<1>2. socket' = IF socket[c][side] = "open" THEN [socket EXCEPT ![c][side] = "closing"] ELSE socket
  BY DEF Close, Put
<1>3. socket \in [Conns -> [Sides -> SocketStates]]
  BY DEF TypeOK
<1>4. /\ socket'[c][Other(side)] = socket[c][Other(side)]
      /\ socket'[c][side] = IF socket[c][side] = "open" THEN "closing" ELSE socket[c][side]
  BY <1>1, <1>2, <1>3
<1>5. inbox' = Send(box, c, side, Bye)
  BY DEF Close
<1>6. /\ Send(box, c, side, Bye)[c][side] = box[c][side]
      /\ Send(box, c, side, Bye)[c][Other(side)] =
           IF socket[c][side] = "open" /\ socket[c][Other(side)] # "none"
           THEN Append(box[c][Other(side)], Bye) ELSE box[c][Other(side)]
  BY <1>1, SendReaches
<1> QED BY <1>4, <1>5, <1>6

\* A HELLO that is taken: the responder's answer is the first thing the dialer hears.
LEMMA AnswerKeepsFirst ==
  ASSUME Greetings, NEW c \in Conns, NEW side \in Sides, ReceiveHello(c, side)
  PROVE  \A d \in Conns : HelloFirst(d)'
<1> DEFINE o == Other(side)
<1>1. /\ Alive(c, side) /\ ~ready[c][side] /\ inbox[c][side] # <<>> /\ session[c][side] # None
      /\ ready' = [ready EXCEPT ![c][side] = TRUE]
  BY DEF ReceiveHello, Arrived, Put
<1>2. /\ TypeOK /\ HelloFirst(c) /\ o \in Sides /\ o # side
      /\ ready \in [Conns -> [Sides -> BOOLEAN]] /\ inbox \in [Conns -> [Sides -> Seq(Messages)]]
  BY RestIsTail DEF Greetings, TypeOK
<1>3. PICK answer \in Messages : answer = Hello(session[c][side]) /\ answer.type = "hello"
  <2>1. session[c][side] \in Blocks
    BY <1>1, <1>2 DEF TypeOK
  <2>2. Hello(session[c][side]) \in Messages /\ Hello(session[c][side]).type = "hello"
    BY <2>1 DEF Messages, Hello
  <2> QED BY <2>2
<1>4. PICK rest : rest = Rest(c, side)
  OBVIOUS
<1>5. PICK said : said = IF side = "in" THEN Send(rest, c, side, answer) ELSE rest
  OBVIOUS
<1>6. /\ rest \in [Conns -> [Sides -> Seq(Messages)]]
      /\ \A d \in Conns \ {c} : rest[d] = inbox[d]
      /\ rest[c][o] = inbox[c][o]
  BY <1>1, <1>2, <1>4, RestTypes, RestIsTail
<1>7. /\ said \in [Conns -> [Sides -> Seq(Messages)]]
      /\ \A d \in Conns \ {c} : said[d] = inbox[d]
      /\ said[c][o] = IF side = "in" /\ socket[c][side] = "open" /\ socket[c][o] # "none"
                      THEN Append(inbox[c][o], answer) ELSE inbox[c][o]
  <2>1. CASE side = "in"
    <3>1. said = Send(rest, c, side, answer) /\ rest \in [Conns -> [Sides -> Seq(Messages)]]
      BY <1>5, <1>6, <2>1
    <3>2. said \in [Conns -> [Sides -> Seq(Messages)]]
      BY <1>2, <3>1, SendTypes
    <3>3. ASSUME NEW d \in Conns \ {c} PROVE said[d] = rest[d]
      <4>1. Send(rest, c, side, answer)[d] = rest[d]
        BY <3>1 DEF Send
      <4> QED BY <3>1, <4>1
    <3>4. said[c][o] = IF socket[c][side] = "open" /\ socket[c][o] # "none"
                      THEN Append(rest[c][o], answer) ELSE rest[c][o]
      BY <3>1, SendReaches
    <3> QED BY <1>6, <2>1, <3>2, <3>3, <3>4
  <2>2. CASE side # "in"
    BY <1>5, <1>6, <2>2
  <2> QED BY <2>1, <2>2
<1>8. \/ Close(c, side, said)
      \/ inbox' = said /\ UNCHANGED socket
  BY <1>3, <1>4, <1>5 DEF ReceiveHello
<1>9. /\ \A d \in Conns \ {c} : socket'[d] = socket[d] /\ inbox'[d] = said[d]
      /\ socket'[c][o] = socket[c][o]
      /\ socket'[c][side] = socket[c][side] \/ socket'[c][side] = "closing"
      /\ inbox'[c][o] = said[c][o] \/ (socket[c][o] # "none" /\ inbox'[c][o] = Append(said[c][o], Bye))
  <2>1. CASE Close(c, side, said)
    <3>1. TypeOK /\ said \in [Conns -> [Sides -> Seq(Messages)]]
      BY <1>2, <1>7
    <3>2. \A d \in Conns \ {c} : socket'[d] = socket[d] /\ inbox'[d] = said[d]
      BY <2>1, <3>1, CloseElsewhere
    <3>3. /\ socket'[c][o] = socket[c][o]
          /\ socket'[c][side] = IF socket[c][side] = "open" THEN "closing" ELSE socket[c][side]
          /\ inbox'[c][o] = IF socket[c][side] = "open" /\ socket[c][o] # "none"
                           THEN Append(said[c][o], Bye) ELSE said[c][o]
      BY <2>1, <3>1, CloseSays
    <3> QED BY <3>2, <3>3
  <2>2. CASE inbox' = said /\ UNCHANGED socket
    BY <2>2
  <2> QED BY <1>8, <2>1, <2>2
<1>10. Bye \in Messages /\ Bye.type # "frame"
  BY DEF Messages, Bye
<1>11. IF said[c][o] = <<>> THEN inbox[c][o] = <<>>
       ELSE \/ Head(said[c][o]).type # "frame"
            \/ inbox[c][o] # <<>> /\ Head(said[c][o]) = Head(inbox[c][o])
  <2>1. inbox[c][o] \in Seq(Messages)
    BY <1>2
  <2>2. CASE said[c][o] = inbox[c][o] /\ inbox[c][o] = <<>>
    BY <2>2
  <2>3. CASE said[c][o] = inbox[c][o] /\ inbox[c][o] # <<>>
    BY <2>3
  <2>4. CASE said[c][o] = Append(inbox[c][o], answer)
    BY <1>3, <2>1, <2>4, HeadOfMore
  <2> QED BY <1>7, <2>2, <2>3, <2>4
<1>12. said[c][o] \in Seq(Messages)
  BY <1>2, <1>7
<1>13. HearsOn(c, o)
  BY <1>9, <1>10, <1>11, <1>12, HeadOfMore DEF HearsOn
<1>14. inbox'[c][o] = <<>> /\ Waits(c, o) => Silent(c, side)'
  <2> SUFFICES ASSUME inbox'[c][o] = <<>>, Waits(c, o), socket'[c][side] = "open" PROVE FALSE
    BY DEF Silent
  <2>1. said[c][o] = <<>> /\ inbox[c][o] = <<>>
    BY <1>9, <1>10, <1>11, <1>12, HeadOfMore
  <2>2. socket[c][side] = "open" /\ socket[c][o] # "none"
    BY <1>9 DEF Waits
  <2>3. side # "in"
    BY <1>2, <1>3, <1>7, <2>1, <2>2, HeadOfMore
  <2>4. Silent(c, Other(o))
    BY <1>2, <2>1 DEF HelloFirst, Greeted
  <2>5. Other(o) = side
    BY DEF Other, Sides
  <2> QED BY <2>2, <2>3, <2>4, <2>5 DEF Silent
<1>15. HelloFirst(c)'
  <2>1. ready'[c][side] /\ ready'[c][o] = ready[c][o]
    BY <1>1, <1>2
  <2>2. socket'[c][side] # "none" /\ (socket[c][o] = "none" => inbox'[c][o] = inbox[c][o])
    BY <1>1, <1>7, <1>9 DEF Alive
  <2> QED BY <1>1, <1>2, <1>9, <1>13, <1>14, <2>1, <2>2, HearingKeepsFirst DEF Waits
<1>16. ASSUME NEW d \in Conns \ {c} PROVE HelloFirst(d)'
  BY <1>1, <1>2, <1>7, <1>9, <1>16, ElsewhereKeepsFirst
<1> QED BY <1>15, <1>16

\* A HELLO that is rejected: the end closes, and says nothing else.
LEMMA RejectKeepsFirst ==
  ASSUME Greetings, NEW c \in Conns, NEW side \in Sides, RejectHello(c, side)
  PROVE  \A d \in Conns : HelloFirst(d)'
<1> DEFINE o == Other(side)
<1>1. /\ Alive(c, side) /\ inbox[c][side] # <<>> /\ UNCHANGED ready
      /\ Close(c, side, Rest(c, side))
  BY DEF RejectHello, Arrived
<1>2. /\ TypeOK /\ HelloFirst(c) /\ o \in Sides /\ o # side /\ inbox \in [Conns -> [Sides -> Seq(Messages)]]
  BY RestIsTail DEF Greetings, TypeOK
<1>3. PICK rest : rest = Rest(c, side)
  OBVIOUS
<1>4. /\ rest \in [Conns -> [Sides -> Seq(Messages)]]
      /\ \A d \in Conns \ {c} : rest[d] = inbox[d]
      /\ rest[c][o] = inbox[c][o]
  BY <1>1, <1>2, <1>3, RestTypes, RestIsTail
<1>5. /\ socket'[c][o] = socket[c][o]
      /\ socket'[c][side] = IF socket[c][side] = "open" THEN "closing" ELSE socket[c][side]
      /\ inbox'[c][o] = IF socket[c][side] = "open" /\ socket[c][o] # "none"
                        THEN Append(rest[c][o], Bye) ELSE rest[c][o]
  BY <1>1, <1>2, <1>3, <1>4, CloseSays
<1>6. \A d \in Conns \ {c} : socket'[d] = socket[d] /\ inbox'[d] = rest[d]
  <2>1. TypeOK /\ Close(c, side, rest) /\ rest \in [Conns -> [Sides -> Seq(Messages)]]
    BY <1>1, <1>2, <1>3, <1>4
  <2> QED BY <2>1, CloseElsewhere
<1>7. Bye \in Messages /\ Bye.type # "frame" /\ inbox[c][o] \in Seq(Messages)
  BY <1>2 DEF Messages, Bye
<1>8. HearsOn(c, o)
  <2>1. CASE inbox'[c][o] = inbox[c][o]
    BY <2>1 DEF HearsOn
  <2>2. CASE inbox'[c][o] = Append(inbox[c][o], Bye)
    BY <1>7, <2>2, HeadOfMore DEF HearsOn
  <2> QED BY <1>4, <1>5, <2>1, <2>2
<1>9. socket'[c][side] = "closing"
  BY <1>1, <1>5 DEF Alive
<1>10. HelloFirst(c)'
  <2>1. ~Waits(c, side)' /\ Silent(c, side)'
    BY <1>9 DEF Waits, Silent
  <2>2. socket[c][o] = "none" => inbox'[c][o] = inbox[c][o]
    BY <1>4, <1>5
  <2> QED BY <1>1, <1>2, <1>5, <1>8, <1>9, <2>1, <2>2, HearingKeepsFirst
<1> QED BY <1>1, <1>4, <1>6, <1>10, ElsewhereKeepsFirst

\* A frame that is read, by an end that is ready.
LEMMA FrameKeepsFirst ==
  ASSUME Greetings, NEW c \in Conns, NEW side \in Sides, ReceiveFrame(c, side)
  PROVE  \A d \in Conns : HelloFirst(d)'
<1> DEFINE o == Other(side)
<1>1. /\ Alive(c, side) /\ inbox[c][side] # <<>> /\ ready[c][side]
      /\ UNCHANGED <<socket, ready>> /\ inbox' = Rest(c, side)
  BY DEF ReceiveFrame, Arrived
<1>2. /\ TypeOK /\ HelloFirst(c) /\ o \in Sides /\ Other(o) = side
      /\ inbox'[c][o] = inbox[c][o] /\ \A d \in Conns \ {c} : inbox'[d] = inbox[d]
  BY <1>1, RestIsTail DEF Greetings, Other, Sides
<1>3. HearsOn(c, o)
  BY <1>2 DEF HearsOn
<1>4. inbox'[c][o] = <<>> /\ Waits(c, o) => Silent(c, side)'
  <2>1. Greeted(c, o)
    BY <1>2 DEF HelloFirst
  <2>2. Silent(c, side)' <=> Silent(c, side)
    BY <1>1 DEF Silent
  <2> QED BY <1>2, <2>1, <2>2 DEF Greeted
<1>5. HelloFirst(c)'
  <2>1. ~Waits(c, side)' /\ socket'[c][side] # "none"
    BY <1>1 DEF Waits, Alive
  <2> QED BY <1>1, <1>2, <1>3, <1>4, <2>1, HearingKeepsFirst
<1> QED BY <1>1, <1>2, <1>5, ElsewhereKeepsFirst

\* The 'close' event: the end is gone, and with it what it has not heard.
LEMMA CloseKeepsFirst ==
  ASSUME Greetings, NEW c \in Conns, NEW side \in Sides, ReceiveClose(c, side)
  PROVE  \A d \in Conns : HelloFirst(d)'
<1> DEFINE o == Other(side)
<1>1. /\ Alive(c, side) /\ inbox[c][side] # <<>>
      /\ socket' = [socket EXCEPT ![c][side] = "none"] /\ ready' = [ready EXCEPT ![c][side] = FALSE]
      /\ inbox' = [Send(inbox, c, side, Bye) EXCEPT ![c][side] = <<>>]
  BY DEF ReceiveClose, Arrived, Put
<1>2. /\ TypeOK /\ HelloFirst(c) /\ o \in Sides /\ o # side
      /\ socket \in [Conns -> [Sides -> SocketStates]] /\ ready \in [Conns -> [Sides -> BOOLEAN]]
      /\ inbox \in [Conns -> [Sides -> Seq(Messages)]]
  BY RestIsTail DEF Greetings, TypeOK
<1>3. Bye \in Messages /\ Bye.type # "frame" /\ inbox[c][o] \in Seq(Messages)
  BY <1>2 DEF Messages, Bye
<1>4. PICK box : box = Send(inbox, c, side, Bye)
  OBVIOUS
<1>5. /\ box \in [Conns -> [Sides -> Seq(Messages)]]
      /\ \A d \in Conns \ {c} : box[d] = inbox[d]
      /\ box[c][o] = IF socket[c][side] = "open" /\ socket[c][o] # "none"
                     THEN Append(inbox[c][o], Bye) ELSE inbox[c][o]
  <2>1. box \in [Conns -> [Sides -> Seq(Messages)]]
    BY <1>2, <1>3, <1>4, SendTypes
  <2>2. \A d \in Conns \ {c} : box[d] = inbox[d]
    BY <1>2, <1>4 DEF Send
  <2>3. Send(inbox, c, side, Bye)[c][o] = IF socket[c][side] = "open" /\ socket[c][o] # "none"
                     THEN Append(inbox[c][o], Bye) ELSE inbox[c][o]
    BY <1>2 DEF Send
  <2> QED BY <1>4, <2>1, <2>2, <2>3
<1>6. /\ inbox'[c][o] = box[c][o] /\ inbox'[c][side] = <<>>
      /\ \A d \in Conns \ {c} : inbox'[d] = inbox[d] /\ socket'[d] = socket[d] /\ ready'[d] = ready[d]
      /\ socket'[c][o] = socket[c][o] /\ ready'[c][o] = ready[c][o] /\ socket'[c][side] = "none"
  BY <1>1, <1>2, <1>4, <1>5
<1>7. HearsOn(c, o)
  <2>1. CASE inbox'[c][o] = inbox[c][o]
    BY <2>1 DEF HearsOn
  <2>2. CASE inbox'[c][o] = Append(inbox[c][o], Bye)
    BY <1>3, <2>2, HeadOfMore DEF HearsOn
  <2> QED BY <1>5, <1>6, <2>1, <2>2
<1>8. HelloFirst(c)'
  <2>1. ~Waits(c, side)' /\ Silent(c, side)'
    BY <1>6 DEF Waits, Silent
  <2>2. socket[c][o] = "none" => inbox'[c][o] = inbox[c][o]
    BY <1>5, <1>6
  <2> QED BY <1>1, <1>2, <1>6, <1>7, <2>1, <2>2, HearingKeepsFirst
<1> QED BY <1>6, <1>8, ElsewhereKeepsFirst

LEMMA TimeoutKeepsFirst ==
  ASSUME Greetings, NEW c \in Conns, NEW side \in Sides, HandshakeTimeout(c, side)
  PROVE  \A d \in Conns : HelloFirst(d)'
<1> DEFINE o == Other(side)
<1>1. /\ Close(c, side, inbox) /\ UNCHANGED ready
      /\ TypeOK /\ inbox \in [Conns -> [Sides -> Seq(Messages)]]
  BY DEF HandshakeTimeout, Greetings, TypeOK
<1>2. Bye \in Messages /\ Bye.type # "frame" /\ o \in Sides /\ o # side /\ Other(o) = side
  BY DEF Messages, Bye, Other, Sides
<1>3. /\ socket'[c][o] = socket[c][o]
      /\ socket'[c][side] = IF socket[c][side] = "open" THEN "closing" ELSE socket[c][side]
      /\ inbox'[c][side] = inbox[c][side]
      /\ inbox'[c][o] = IF socket[c][side] = "open" /\ socket[c][o] # "none"
                        THEN Append(inbox[c][o], Bye) ELSE inbox[c][o]
  BY <1>1, CloseSays
<1>4. Told(c, side) /\ Told(c, o)
  BY <1>2, <1>3 DEF Told
<1>5. \A s \in Sides : s = side \/ s = o
  BY <1>2 DEF Sides, Other
<1>6. HelloFirst(c)'
  BY <1>1, <1>3, <1>4, <1>5, TellingKeepsFirst DEF Greetings
<1>7. \A d \in Conns \ {c} : socket'[d] = socket[d] /\ inbox'[d] = inbox[d]
  BY <1>1, CloseElsewhere
<1> QED BY <1>1, <1>6, <1>7, ElsewhereKeepsFirst

\* A broadcast goes out by ends that are ready.
LEMMA BroadcastKeepsFirst ==
  ASSUME Greetings, NEW n \in Nodes, NEW block \in Blocks, Broadcast(n, block), NEW c \in Conns
  PROVE  HelloFirst(c)'
<1>1. Frame(block) \in Messages
  BY DEF Messages
<1>2. UNCHANGED <<socket, ready>>
  BY DEF Broadcast
<1>3. ASSUME NEW side \in Sides PROVE Told(c, side)
  <2>1. \/ inbox'[c][side] = inbox[c][side]
        \/ /\ inbox'[c][side] = Append(inbox[c][side], Frame(block))
           /\ ready[c][Other(side)] /\ socket[c][Other(side)] = "open" /\ socket[c][side] # "none"
    BY DEF Broadcast
  <2> QED BY <1>1, <2>1 DEF Told
<1> QED BY <1>2, <1>3, TellingKeepsFirst DEF Greetings

LEMMA StopKeepsFirst ==
  ASSUME Greetings, NEW n \in Nodes, Stop(n), NEW c \in Conns
  PROVE  HelloFirst(c)'
<1>1. Bye \in Messages /\ Bye.type # "frame" /\ UNCHANGED ready
  BY DEF Messages, Bye, Stop
<1>2. ASSUME NEW side \in Sides
      PROVE  /\ Told(c, side)
             /\ \/ socket'[c][side] = socket[c][side]
                \/ socket[c][side] = "open" /\ socket'[c][side] = "closing"
  <2>1. \/ socket'[c][side] = socket[c][side]
        \/ socket[c][side] = "open" /\ socket'[c][side] = "closing"
    BY DEF Stop
  <2>2. \/ inbox'[c][side] = inbox[c][side]
        \/ /\ inbox'[c][side] = Append(inbox[c][side], Bye)
           /\ socket[c][Other(side)] = "open" /\ socket[c][side] # "none"
    BY DEF Stop
  <2> QED BY <1>1, <2>1, <2>2 DEF Told
<1> QED BY <1>1, <1>2, TellingKeepsFirst DEF Greetings

-----------------------------------------------------------------------------
(* Connections that come about, and that end. *)

LEMMA AcceptKeepsFirst ==
  ASSUME Greetings, NEW c \in Conns, NEW block \in Blocks, Accept(c, block)
  PROVE  \A d \in Conns : HelloFirst(d)'
<1>1. /\ socket[c]["out"] = "connecting" /\ socket' = [socket EXCEPT ![c]["in"] = "open"]
      /\ UNCHANGED <<ready, inbox>> /\ socket \in [Conns -> [Sides -> SocketStates]]
  BY DEF Accept, Put, Greetings, TypeOK
<1>2. /\ socket'[c]["in"] = "open" /\ socket'[c]["out"] = "connecting"
      /\ \A d \in Conns \ {c} : socket'[d] = socket[d]
      /\ "in" \in Sides /\ "out" \in Sides /\ Other("in") = "out" /\ Other("out") = "in"
  BY <1>1 DEF Sides, Other
<1>3. HelloFirst(c) /\ inbox[c]["in"] = <<>> /\ ~ready[c]["in"]
  BY <1>1 DEF Greetings, HelloFirst
<1>4. Greeted(c, "in")'
  BY <1>1, <1>2, <1>3 DEF Greeted, Silent
<1>5. Greeted(c, "out")'
  BY <1>1, <1>2, <1>3 DEF HelloFirst, Greeted, Waits, Silent
<1>6. HelloFirst(c)'
  BY <1>1, <1>2, <1>3, <1>4, <1>5 DEF HelloFirst, Sides
<1> QED BY <1>1, <1>2, <1>6, ElsewhereKeepsFirst

\* The dialer's HELLO is the first thing the responder hears.
LEMMA OpenedKeepsFirst ==
  ASSUME Greetings, NEW c \in Conns, NEW block \in Blocks, Opened(c, block)
  PROVE  \A d \in Conns : HelloFirst(d)'
<1>1. /\ socket[c]["out"] = "connecting" /\ socket[c]["in"] # "none" /\ UNCHANGED ready
      /\ \/ /\ socket' = [socket EXCEPT ![c]["out"] = "open"]
            /\ inbox' = [inbox EXCEPT ![c]["in"] = Append(@, Hello(block))]
         \/ /\ socket' = [socket EXCEPT ![c]["out"] = "closing"]
            /\ inbox' = [inbox EXCEPT ![c]["in"] = Append(@, Bye)]
  BY DEF Opened, Put
<1>2. /\ socket \in [Conns -> [Sides -> SocketStates]] /\ inbox \in [Conns -> [Sides -> Seq(Messages)]]
      /\ HelloFirst(c)
  BY DEF Greetings, TypeOK
<1>3. inbox[c]["in"] = <<>> /\ ~ready[c]["in"]
  BY <1>1, <1>2 DEF HelloFirst
<1>4. ~ready[c]["out"]
  BY <1>1 DEF Greetings, ReadyIsAlive, Alive, Sides
<1>5. PICK msg \in {Hello(block), Bye} : inbox' = [inbox EXCEPT ![c]["in"] = Append(@, msg)]
  BY <1>1
<1>6. /\ inbox'[c]["in"] = Append(inbox[c]["in"], msg) /\ inbox'[c]["out"] = inbox[c]["out"]
      /\ socket'[c]["in"] = socket[c]["in"] /\ socket'[c]["out"] \in {"open", "closing"}
      /\ \A d \in Conns \ {c} : socket'[d] = socket[d] /\ inbox'[d] = inbox[d]
      /\ "in" \in Sides /\ "out" \in Sides /\ Other("in") = "out" /\ Other("out") = "in"
  BY <1>1, <1>2, <1>5 DEF Sides, Other
<1>7. msg \in Messages /\ msg.type # "frame"
  BY DEF Messages, Hello, Bye
<1>8. inbox'[c]["in"] # <<>> /\ Head(inbox'[c]["in"]) = msg
  BY <1>2, <1>3, <1>6, <1>7, HeadOfMore
<1>9. Greeted(c, "in")'
  BY <1>7, <1>8 DEF Greeted
<1>10. Greeted(c, "out")'
  BY <1>1, <1>2, <1>3, <1>4, <1>6 DEF HelloFirst, Greeted, Waits, Silent
<1>11. HelloFirst(c)'
  BY <1>1, <1>2, <1>6, <1>9, <1>10 DEF HelloFirst, Sides
<1> QED BY <1>1, <1>6, <1>11, ElsewhereKeepsFirst

LEMMA UndialKeepsFirst ==
  ASSUME Greetings, NEW c \in Conns, ConnectFails(c)
  PROVE  \A d \in Conns : HelloFirst(d)'
<1>1. /\ socket[c]["out"] = "connecting" /\ UNCHANGED ready
      /\ socket' = [socket EXCEPT ![c]["out"] = "none"]
      /\ inbox' = [inbox EXCEPT ![c]["out"] = <<>>, ![c]["in"] = IF Alive(c, "in") THEN <<Bye>> ELSE @]
  BY DEF ConnectFails, Undial, Put
<1>2. /\ socket \in [Conns -> [Sides -> SocketStates]] /\ inbox \in [Conns -> [Sides -> Seq(Messages)]]
      /\ HelloFirst(c)
  BY DEF Greetings, TypeOK
<1>3. /\ inbox'[c]["in"] = IF Alive(c, "in") THEN <<Bye>> ELSE inbox[c]["in"]
      /\ inbox'[c]["out"] = <<>> /\ socket'[c]["out"] = "none" /\ socket'[c]["in"] = socket[c]["in"]
      /\ \A d \in Conns \ {c} : socket'[d] = socket[d] /\ inbox'[d] = inbox[d]
      /\ "in" \in Sides /\ "out" \in Sides /\ Other("in") = "out" /\ Other("out") = "in"
  BY <1>1, <1>2 DEF Sides, Other
<1>4. Greeted(c, "in")' /\ (socket'[c]["in"] = "none" => inbox'[c]["in"] = <<>>)
  <2>1. CASE Alive(c, "in")
    BY <1>3, <2>1 DEF Greeted, Bye, Alive
  <2>2. CASE ~Alive(c, "in")
    <3>1. socket'[c]["in"] = "none" /\ inbox'[c]["in"] = <<>>
      BY <1>2, <1>3, <2>2 DEF Alive, HelloFirst, SocketStates
    <3> QED BY <3>1 DEF Greeted, Waits
  <2> QED BY <2>1, <2>2
<1>5. Greeted(c, "out")'
  BY <1>3 DEF Greeted, Waits
<1>6. HelloFirst(c)'
  BY <1>2, <1>3, <1>4, <1>5 DEF HelloFirst, Sides
<1> QED BY <1>1, <1>3, <1>6, ElsewhereKeepsFirst

\* A connection that is cut off: each end hears of it, after what has arrived.
LEMMA BreakKeepsFirst ==
  ASSUME Greetings, NEW c \in Conns, NEW arrives \in BOOLEAN, Break(c, arrives)
  PROVE  \A d \in Conns : HelloFirst(d)'
<1>1. /\ socket[c]["out"] # "connecting" /\ UNCHANGED <<socket, ready>>
      /\ inbox' = [inbox EXCEPT ![c] = [side \in Sides |->
                     IF Alive(c, side) THEN CutOff(inbox[c][side], arrives) ELSE <<>>]]
  BY DEF Break
<1>2. /\ socket \in [Conns -> [Sides -> SocketStates]] /\ inbox \in [Conns -> [Sides -> Seq(Messages)]]
      /\ HelloFirst(c)
  BY DEF Greetings, TypeOK
<1>3. /\ \A d \in Conns \ {c} : inbox'[d] = inbox[d]
      /\ \A s \in Sides : inbox'[c][s] = IF Alive(c, s) THEN CutOff(inbox[c][s], arrives) ELSE <<>>
  BY <1>1, <1>2
<1>4. ASSUME NEW s \in Sides
      PROVE  Greeted(c, s)' /\ (socket'[c][s] = "none" => inbox'[c][s] = <<>>)
  <2>1. Greeted(c, s) /\ inbox[c][s] \in Seq(Messages) /\ socket[c][s] # "connecting"
    BY <1>1, <1>2 DEF HelloFirst, Sides
  <2>2. CASE Alive(c, s)
    <3>1. inbox'[c][s] # <<>> /\ \/ Head(inbox'[c][s]) = Bye
                                 \/ inbox[c][s] # <<>> /\ Head(inbox'[c][s]) = Head(inbox[c][s])
      BY <1>3, <2>1, <2>2, HeadOfCut
    <3> QED BY <1>1, <2>1, <2>2, <3>1 DEF Greeted, Waits, Alive, Bye
  <2>3. CASE ~Alive(c, s)
    BY <1>1, <1>3, <2>1, <2>3 DEF Greeted, Waits, Alive
  <2> QED BY <2>2, <2>3
<1>5. HelloFirst(c)'
  BY <1>1, <1>2, <1>4 DEF HelloFirst
<1> QED BY <1>1, <1>3, <1>5, ElsewhereKeepsFirst

LEMMA DialKeepsFirst ==
  ASSUME Greetings, NEW n, NEW urls, Dial(n, urls), UNCHANGED <<ready, inbox>>, NEW c \in Conns
  PROVE  HelloFirst(c)'
<1>1. /\ socket'[c]["in"] = socket[c]["in"]
      /\ socket'[c]["out"] = socket[c]["out"] \/ (Free(c) /\ socket'[c]["out"] = "connecting")
      /\ socket' \in [Conns -> [Sides -> SocketStates]] /\ socket \in [Conns -> [Sides -> SocketStates]]
  BY DialTakesFree, DialTypes DEF Greetings, TypeOK
<1>2. HelloFirst(c) /\ "in" \in Sides /\ "out" \in Sides /\ Other("in") = "out" /\ Other("out") = "in"
  BY DEF Greetings, Sides, Other
<1>3. CASE socket'[c]["out"] = socket[c]["out"]
  <2>1. socket'[c] = socket[c]
    BY <1>1, <1>3 DEF Sides
  <2> QED BY <2>1, ElsewhereKeepsFirst
<1>4. CASE Free(c) /\ socket'[c]["out"] = "connecting"
  <2>1. inbox[c]["in"] = <<>> /\ inbox[c]["out"] = <<>> /\ socket[c]["in"] = "none"
    BY <1>2, <1>4 DEF HelloFirst, Free
  <2>2. ~ready[c]["in"] /\ ~ready[c]["out"]
    BY <1>2, <1>4 DEF Greetings, ReadyIsAlive, Free, Alive
  <2>3. Greeted(c, "in")' /\ Greeted(c, "out")'
    BY <1>1, <1>2, <2>1, <2>2 DEF Greeted, Waits, Silent
  <2> QED BY <1>1, <1>2, <1>4, <2>1, <2>2, <2>3 DEF HelloFirst, Sides
<1> QED BY <1>1, <1>3, <1>4

\* A crash takes one end of each of the node's connections; the other end hears of it.
LEMMA CrashKeepsFirst ==
  ASSUME Greetings, NEW n \in Nodes, NEW arrives \in BOOLEAN, Crash(n, arrives), NEW c \in Conns
  PROVE  HelloFirst(c)'
<1>1. ASSUME NEW s \in Sides
      PROVE  /\ socket'[c][s] = IF At(c, s) = n THEN "none" ELSE socket[c][s]
             /\ ready'[c][s] = IF At(c, s) = n THEN FALSE ELSE ready[c][s]
             /\ inbox'[c][s] = IF At(c, s) = n THEN <<>>
                               ELSE IF Peer(c, s) = n /\ Alive(c, s) THEN CutOff(inbox[c][s], arrives)
                               ELSE inbox[c][s]
  BY DEF Crash
<1>2. HelloFirst(c) /\ "in" \in Sides /\ "out" \in Sides
  BY DEF Greetings, Sides
<1>3. ASSUME NEW s \in Sides
      PROVE  Greeted(c, s)' /\ (socket'[c][s] = "none" => inbox'[c][s] = <<>>)
  <2>1. /\ Greeted(c, s) /\ (socket[c][s] = "none" => inbox[c][s] = <<>>)
        /\ inbox[c][s] \in Seq(Messages) /\ Other(s) \in Sides
    BY DEF Greetings, TypeOK, HelloFirst, Other, Sides
  <2>2. At(c, Other(s)) = Peer(c, s)
    BY DEF At, Peer
  <2>3. CASE At(c, s) = n
    BY <1>1, <2>3 DEF Greeted, Waits
  <2>4. CASE At(c, s) # n /\ Peer(c, s) = n /\ Alive(c, s)
    <3>1. inbox'[c][s] # <<>> /\ \/ Head(inbox'[c][s]) = Bye
                                 \/ inbox[c][s] # <<>> /\ Head(inbox'[c][s]) = Head(inbox[c][s])
      BY <1>1, <2>1, <2>4, HeadOfCut
    <3>2. socket'[c][s] \in {"open", "closing"} /\ ready'[c][s] = ready[c][s]
      BY <1>1, <2>4 DEF Alive
    <3>3. Waits(c, s)' => socket[c][s] \in {"connecting", "open"} /\ ~ready[c][s]
      BY <1>1, <2>4 DEF Waits
    <3>4. Bye.type # "frame"
      BY DEF Bye
    <3> QED BY <2>1, <3>1, <3>2, <3>3, <3>4 DEF Greeted, Waits
  <2>5. CASE At(c, s) # n /\ ~(Peer(c, s) = n /\ Alive(c, s))
    <3>1. socket'[c][s] = socket[c][s] /\ ready'[c][s] = ready[c][s] /\ inbox'[c][s] = inbox[c][s]
      BY <1>1, <2>5
    <3>2. Silent(c, Other(s)) => Silent(c, Other(s))'
      BY <1>1, <2>1 DEF Silent
    <3> QED BY <2>1, <3>1, <3>2 DEF Greeted, Waits
  <2> QED BY <2>3, <2>4, <2>5
<1>4. socket'[c]["in"] # "connecting"
  BY <1>1, <1>2 DEF HelloFirst
<1>5. socket'[c]["out"] = "connecting" => inbox'[c]["in"] = <<>> /\ ~ready'[c]["in"]
  <2> SUFFICES ASSUME socket'[c]["out"] = "connecting" PROVE inbox'[c]["in"] = <<>> /\ ~ready'[c]["in"]
    OBVIOUS
  <2>1. socket[c]["out"] = "connecting" /\ At(c, "out") # n
    BY <1>1, <1>2
  <2>2. inbox[c]["in"] = <<>> /\ ~ready[c]["in"] /\ Peer(c, "in") # n
    BY <1>2, <2>1 DEF HelloFirst, Peer, At, Other
  <2> QED BY <1>1, <1>2, <2>2
<1> QED BY <1>3, <1>4, <1>5 DEF HelloFirst

LEMMA InitGreetings == Init => Greetings
<1> SUFFICES ASSUME Init PROVE Greetings
  OBVIOUS
<1>1. TypeOK /\ ReadyIsAlive
  BY InitRegistry DEF Registry
<1>2. ASSUME NEW c \in Conns, NEW s \in Sides
      PROVE  /\ inbox[c][s] = <<>> /\ ~ready[c][s]
             /\ socket[c][s] = "none" \/ (s = "out" /\ socket[c][s] = "connecting")
  BY DEF Init
<1>3. ASSUME NEW c \in Conns, NEW s \in Sides PROVE Greeted(c, s)
  <2>1. Other(s) \in Sides
    BY DEF Other, Sides
  <2> QED BY <1>2, <2>1 DEF Greeted, Silent
<1>4. "in" \in Sides /\ "out" \in Sides
  BY DEF Sides
<1> QED BY <1>1, <1>2, <1>3, <1>4 DEF Greetings, HelloFirst

LEMMA NextGreetings == Registry /\ Greetings /\ [LinkNext]_linkVars => Greetings'
<1> SUFFICES ASSUME Registry, Greetings, [LinkNext]_linkVars PROVE Greetings'
  OBVIOUS
<1>1. TypeOK' /\ ReadyIsAlive'
  BY NextRegistry DEF Registry
<1>2. CASE UNCHANGED linkVars
  BY <1>1, <1>2, ElsewhereKeepsFirst DEF Greetings, linkVars, ends
<1>3. ASSUME NEW n \in Nodes, Start(n) \/ \E h \in Homes : ReconnectFires(n, h)
      PROVE  \A c \in Conns : HelloFirst(c)'
  BY <1>3, DialKeepsFirst DEF Start, ReconnectFires
<1>4. CASE LinkNext
  <2>1. \A c \in Conns : HelloFirst(c)'
    BY <1>3, <1>4, AcceptKeepsFirst, OpenedKeepsFirst, UndialKeepsFirst, BreakKeepsFirst, AnswerKeepsFirst,
       RejectKeepsFirst, TimeoutKeepsFirst, FrameKeepsFirst, CloseKeepsFirst, BroadcastKeepsFirst,
       StopKeepsFirst, CrashKeepsFirst DEF LinkNext
  <2> QED BY <1>1, <2>1 DEF Greetings
<1> QED BY <1>2, <1>4

LEMMA GreetingsShow == Greetings => FramesFollowHello
  BY DEF Greetings, HelloFirst, Greeted, Waits, FramesFollowHello, Arrived

\* An end that waits for HELLO never has a frame before it, whichever node dialed,
\* however late the answer and whatever was broadcast in between.
THEOREM HelloBeforeFrames == LinkSpec => []FramesFollowHello
  BY InitGreetings, NextGreetings, RegistryHolds, GreetingsShow, PTL DEF LinkSpec

-----------------------------------------------------------------------------
(* The links with the monitors beside them. *)

LEMMA MeshSteps == MeshTypeOK /\ [Next]_vars => [LinkNext]_linkVars
<1> SUFFICES ASSUME MeshTypeOK, [Next]_vars PROVE [LinkNext]_linkVars
  OBVIOUS
<1>1. CASE UNCHANGED vars
  BY <1>1 DEF vars
<1>2. ASSUME NEW n \in Nodes, Poll(n) PROVE LinkNext
  <2>1. pool[Home[n]] \in Blocks
    BY HomesAssumption DEF MeshTypeOK
  <2> QED BY <1>2, <2>1 DEF Poll, LinkNext
<1>3. ASSUME NEW c \in Conns, MeshAccept(c) \/ MeshOpened(c) PROVE LinkNext
  <2>1. pool[Home[c.in]] \in Blocks /\ pool[Home[c.out]] \in Blocks
    BY TwoEnds, HomesAssumption DEF MeshTypeOK
  <2> QED BY <1>3, <2>1 DEF MeshAccept, MeshOpened, RecentPrevhash, LinkNext
<1>4. CASE Next
  BY <1>2, <1>3, <1>4 DEF Next, LinkNext, MeshConnectFails, MeshBreak, MeshReceiveHello, MeshRejectHello,
     MeshHandshakeTimeout, MeshReceiveFrame, MeshReceiveClose, MeshReconnectFires, MeshCrash, MeshStop,
     MeshStart, VoteExpires, PoolMoves
<1> QED BY <1>1, <1>4

LEMMA MeshNextTypes == MeshTypeOK /\ [Next]_vars => MeshTypeOK'
<1> SUFFICES ASSUME MeshTypeOK, [Next]_vars PROVE MeshTypeOK'
  OBVIOUS
<1>1. TypeOK'
  BY MeshSteps, NextTypes DEF MeshTypeOK
<1> DEFINE MonitorsOK == /\ pool \in [Homes -> Blocks]
                         /\ told \in [Nodes -> Blocks \cup {None}]
                         /\ votes \in [Nodes -> [Nodes -> Blocks \cup {None}]]
<1>2. MonitorsOK
  BY DEF MeshTypeOK
<1>3. ASSUME UNCHANGED monitors PROVE MonitorsOK'
  BY <1>2, <1>3 DEF monitors
<1>4. ASSUME NEW c \in Conns, NEW side \in Sides, MeshReceiveFrame(c, side) PROVE MonitorsOK'
  <2>1. At(c, side) \in Nodes /\ Peer(c, side) \in Nodes
    BY EndsAreNodes
  <2>2. inbox[c][side] # <<>> /\ Head(inbox[c][side]).type = "frame"
    BY <1>4 DEF MeshReceiveFrame, ReceiveFrame, Arrived
  <2>3. Head(inbox[c][side]) \in Messages
    BY <2>2, RestTypes DEF MeshTypeOK
  <2>4. Head(inbox[c][side]).block \in Blocks
    BY <2>2, <2>3 DEF Messages, Hello, Frame, Bye
  <2>5. votes' \in [Nodes -> [Nodes -> Blocks \cup {None}]]
    BY <1>2, <1>4, <2>1, <2>4, UpdateTypes DEF MeshReceiveFrame
  <2> QED BY <1>2, <1>4, <2>5 DEF MeshReceiveFrame
<1>5. ASSUME NEW n \in Nodes, NEW arrives \in BOOLEAN, MeshCrash(n, arrives) PROVE MonitorsOK'
  BY <1>2, <1>5 DEF MeshCrash
<1>6. ASSUME NEW n \in Nodes, MeshStart(n) \/ Poll(n) PROVE MonitorsOK'
  <2>1. pool[Home[n]] \in Blocks
    BY <1>2, HomesAssumption
  <2>2. told' = [told EXCEPT ![n] = pool[Home[n]]] /\ UNCHANGED <<pool, votes>>
    BY <1>6 DEF MeshStart, Poll
  <2> QED BY <1>2, <2>1, <2>2
<1>7. ASSUME NEW n \in Nodes, NEW m \in Nodes, VoteExpires(n, m) PROVE MonitorsOK'
  BY <1>2, <1>7 DEF VoteExpires
<1>8. ASSUME NEW h \in Homes, PoolMoves(h) PROVE MonitorsOK'
  <2>1. pool[h] \in Nat /\ pool[h] < setup.blocks /\ setup.blocks \in Nat /\ setup \in Setups
    BY <1>2, <1>8, BlocksAssumption, SetupsAssumption DEF PoolMoves, MeshTypeOK, TypeOK
  <2>2. pool[h] + 1 \in 1 .. setup.blocks
    BY <2>1
  <2>3. pool[h] + 1 \in Blocks
    BY <2>1, <2>2, BlocksAssumption
  <2> QED BY <1>2, <1>8, <2>3 DEF PoolMoves
<1>9. \/ UNCHANGED monitors
      \/ \E c \in Conns, side \in Sides : MeshReceiveFrame(c, side)
      \/ \E n \in Nodes, arrives \in BOOLEAN : MeshCrash(n, arrives)
      \/ \E n \in Nodes : MeshStart(n) \/ Poll(n)
      \/ \E n, m \in Nodes : VoteExpires(n, m)
      \/ \E h \in Homes : PoolMoves(h)
  <2>1. CASE UNCHANGED vars
    BY <2>1 DEF vars, monitors
  <2>2. CASE Next
    BY <2>2 DEF Next, MeshAccept, MeshOpened, MeshConnectFails, MeshBreak, MeshReceiveHello, MeshRejectHello,
       MeshHandshakeTimeout, MeshReceiveClose, MeshReconnectFires, MeshStop
  <2> QED BY <2>1, <2>2
<1>10. MonitorsOK'
  <2> HIDE DEF MonitorsOK
  <2> QED BY <1>3, <1>4, <1>5, <1>6, <1>7, <1>8, <1>9
<1> QED BY <1>1, <1>10 DEF MeshTypeOK

LEMMA MeshInitTypes == MeshInit => MeshTypeOK
  BY InitTypes, BlocksAssumption DEF MeshInit, MeshTypeOK

\* Every variable of the links and of the monitors keeps its type.
THEOREM MeshTypeCorrect == Spec => []MeshTypeOK
  BY MeshInitTypes, MeshNextTypes, PTL DEF Spec

\* The federation implements its links: which block a HELLO names, whether it is taken
\* and when something is broadcast are choices the links leave open.
THEOREM MeshImplementsLinks == Spec => LinkSpec
<1>1. MeshInit => Init
  BY DEF MeshInit
<1> QED BY <1>1, MeshSteps, MeshTypeCorrect, PTL DEF Spec, LinkSpec

\* So what holds of the links holds of the federation.
THEOREM MeshLinks ==
  Spec => [](RegisteredIsLive /\ ReadyIsRegistered /\ SeedIsHandledOnce /\ FramesFollowHello)
  BY MeshImplementsLinks, RegisteredAlive, ReadyRegistered, SeedHandledOnce, HelloBeforeFrames, PTL

=============================================================================
