-------------------------- MODULE FederationGatesProofs --------------------------
(***************************************************************************)
(* Proofs about the gates of a federation node: the half-open slots and    *)
(* the handshake budget, for any number of IPs and sockets and any caps.   *)
(***************************************************************************)
EXTENDS FederationGates, AgedListsProofs

\* A socket that was let in has an IP, and nothing else has.
OccupiedHasIp == \A s \in Sockets : Free(s) <=> socketIp[s] = None

\* What the slots rest on.  The list of attempts is left out: whichever gate
\* refuses, the slots are the same.
SlotInv ==
  /\ socketIp \in [Sockets -> Ips \cup {None}]
  /\ phase \in [Sockets -> {"free", "handshake", "ready"}]
  /\ known \in SUBSET Ips
  /\ halfOpen \in [Ips -> Nat]
  /\ OccupiedHasIp
  /\ SlotsAreConserved

LEMMA OfIpIsFinite ==
  ASSUME NEW ip \in Ips
  PROVE  IsFiniteSet(OfIp(ip)) /\ Cardinality(OfIp(ip)) \in Nat
<1>1. IsFiniteSet(OfIp(ip))
  BY SocketsAssumption, FS_Subset DEF OfIp
<1> QED BY <1>1, FS_CardinalityType

LEMMA InitSlots ==
  ASSUME Init
  PROVE  SlotInv
<1>1. \A ip \in Ips : OfIp(ip) = {}
  BY NoneAssumption DEF Init, OfIp
<1>2. Cardinality({}) = 0
  BY FS_EmptySet
<1>3. \A ip \in Ips : Cardinality(OfIp(ip)) = 0
  BY <1>1, <1>2
<1>4. SlotsAreConserved
  BY <1>1, <1>3, NumbersAssumption DEF Init, SlotsAreConserved
<1> QED BY <1>4 DEF Init, SlotInv, OccupiedHasIp, Free

\* What a step that moves no socket and no count must not do to the rest.
LEMMA SameSlots ==
  ASSUME SlotInv, UNCHANGED <<socketIp, phase, halfOpen>>,
         known' \in SUBSET Ips,
         \A ip \in known \ known' : OfIp(ip) = {}
  PROVE  SlotInv'
<1>1. \A ip \in Ips : OfIp(ip)' = OfIp(ip)
  BY DEF OfIp
<1>2. SlotsAreConserved'
  BY <1>1 DEF SlotInv, SlotsAreConserved
<1> QED BY <1>2 DEF SlotInv, OccupiedHasIp, Free

LEMMA AttemptKeepsSlots ==
  ASSUME SlotInv, NEW ip \in Ips, Attempt(ip)
  PROVE  SlotInv'
<1> USE DEF gates, Refuse
<1>1. CASE RefuseBanned(ip)
  BY <1>1, SameSlots DEF RefuseBanned, SlotInv
<1>2. CASE RefuseFull(ip)
  BY <1>2, SameSlots DEF RefuseFull, SlotInv
<1>3. CASE RefuseHalfOpen(ip)
  BY <1>3, SameSlots DEF RefuseHalfOpen, SlotInv
<1>4. CASE RefuseRate(ip)
  <2>1. halfOpen[ip] = 0 => OfIp(ip) = {}
    BY OfIpIsFinite, FS_EmptySet DEF SlotInv, SlotsAreConserved
  <2> QED BY <2>1, <1>4, SameSlots DEF RefuseRate, SlotInv
<1>5. CASE Admit(ip)
  <2>1. PICK s \in Sockets :
          /\ Free(s)
          /\ socketIp' = [socketIp EXCEPT ![s] = ip]
          /\ phase' = [phase EXCEPT ![s] = "handshake"]
    BY <1>5 DEF Admit
  <2>2. s \notin OfIp(ip) /\ socketIp[s] = None
    BY <2>1, NoneAssumption DEF SlotInv, OccupiedHasIp, OfIp
  <2>3. OfIp(ip)' = OfIp(ip) \cup {s}
    BY <2>1 DEF OfIp, SlotInv
  <2>4. \A other \in Ips \ {ip} : OfIp(other)' = OfIp(other)
    BY <2>1, <2>2, NoneAssumption DEF OfIp, SlotInv
  <2>5. Cardinality(OfIp(ip)') = Cardinality(OfIp(ip)) + 1
    BY <2>2, <2>3, OfIpIsFinite, FS_AddElement
  <2>6. /\ halfOpen' = [halfOpen EXCEPT ![ip] = @ + 1]
        /\ halfOpen[ip] < HalfOpenCap
        /\ known' = known \cup {ip}
    BY <1>5 DEF Admit
  <2>7. SlotsAreConserved'
    <3> SUFFICES ASSUME NEW other \in Ips
                 PROVE  /\ halfOpen'[other] = Cardinality(OfIp(other)')
                        /\ halfOpen'[other] <= HalfOpenCap
                        /\ OfIp(other)' # {} => other \in known'
      BY DEF SlotsAreConserved
    <3>1. CASE other = ip
      BY <3>1, <2>5, <2>6, NumbersAssumption DEF SlotInv, SlotsAreConserved
    <3>2. CASE other # ip
      BY <3>2, <2>4, <2>6 DEF SlotInv, SlotsAreConserved
    <3> QED BY <3>1, <3>2
  <2>8. OccupiedHasIp'
    BY <2>1, NoneAssumption DEF OccupiedHasIp, Free, SlotInv
  <2> QED BY <2>1, <2>6, <2>7, <2>8 DEF SlotInv
<1> QED BY <1>1, <1>2, <1>3, <1>4, <1>5 DEF Attempt

LEMMA ClosedKeepsSlots ==
  ASSUME SlotInv, NEW s \in Sockets, Closed(s)
  PROVE  SlotInv'
<1>0. PICK ip \in Ips : ip = socketIp[s]
  BY DEF Closed, SlotInv, OccupiedHasIp
<1>1. ip \in Ips /\ s \in OfIp(ip)
  BY <1>0 DEF OfIp
<1>2. /\ socketIp' = [socketIp EXCEPT ![s] = None]
      /\ phase' = [phase EXCEPT ![s] = "free"]
      /\ halfOpen' = [halfOpen EXCEPT ![ip] = IF @ > 0 THEN @ - 1 ELSE @]
      /\ known' = IF halfOpen'[ip] = 0 /\ handshakes[ip] = <<>> THEN known \ {ip} ELSE known
  BY <1>0 DEF Closed
<1>3. OfIp(ip)' = OfIp(ip) \ {s}
  BY <1>1, <1>2, NoneAssumption DEF OfIp, SlotInv
<1>4. \A other \in Ips \ {ip} : OfIp(other)' = OfIp(other)
  BY <1>0, <1>2, NoneAssumption DEF OfIp, SlotInv
<1>5. Cardinality(OfIp(ip)') = Cardinality(OfIp(ip)) - 1 /\ Cardinality(OfIp(ip)) > 0
  <2>1. Cardinality(OfIp(ip)') = Cardinality(OfIp(ip)) - 1
    BY <1>1, <1>3, OfIpIsFinite, FS_RemoveElement
  <2>2. Cardinality(OfIp(ip)) # 0
    BY <1>1, OfIpIsFinite, FS_EmptySet
  <2> QED BY <1>1, <2>1, <2>2, OfIpIsFinite
<1>6. halfOpen[ip] > 0 /\ halfOpen[ip] = Cardinality(OfIp(ip)) /\ halfOpen[ip] <= HalfOpenCap
  BY <1>1, <1>5 DEF SlotInv, SlotsAreConserved
<1>7. /\ halfOpen' = [halfOpen EXCEPT ![ip] = @ - 1]
      /\ halfOpen' \in [Ips -> Nat]
  BY <1>1, <1>2, <1>6 DEF SlotInv
<1>8. OfIp(ip)' # {} => ip \in known'
  <2> SUFFICES ASSUME OfIp(ip)' # {} PROVE ip \in known'
    OBVIOUS
  <2>1. IsFiniteSet(OfIp(ip)')
    BY <1>1, <1>3, OfIpIsFinite, FS_RemoveElement
  <2>2. halfOpen'[ip] # 0
    BY <1>1, <1>5, <1>6, <1>7, <2>1, FS_EmptySet DEF SlotInv
  <2> QED BY <1>1, <1>2, <2>2 DEF SlotInv, SlotsAreConserved
<1>9. SlotsAreConserved'
  <2> SUFFICES ASSUME NEW other \in Ips
               PROVE  /\ halfOpen'[other] = Cardinality(OfIp(other)')
                      /\ halfOpen'[other] <= HalfOpenCap
                      /\ OfIp(other)' # {} => other \in known'
    BY DEF SlotsAreConserved
  <2>1. CASE other = ip
    BY <2>1, <1>1, <1>5, <1>6, <1>7, <1>8, NumbersAssumption DEF SlotInv
  <2>2. CASE other # ip
    BY <2>2, <1>1, <1>2, <1>4, <1>7 DEF SlotInv, SlotsAreConserved
  <2> QED BY <2>1, <2>2
<1>10. OccupiedHasIp'
  BY <1>2, NoneAssumption DEF OccupiedHasIp, Free, SlotInv
<1> QED BY <1>2, <1>7, <1>9, <1>10 DEF SlotInv

LEMMA NextKeepsSlots ==
  ASSUME SlotInv, [Next]_vars
  PROVE  SlotInv'
<1> USE DEF gates
<1>1. CASE \E ip \in Ips : Attempt(ip)
  BY <1>1, AttemptKeepsSlots
<1>2. ASSUME NEW ip \in Ips, BanChanges(ip) PROVE SlotInv'
  BY <1>2, SameSlots DEF BanChanges, SlotInv
<1>3. ASSUME NEW s \in Sockets, Ready(s) PROVE SlotInv'
  <2>1. \A ip \in Ips : OfIp(ip)' = OfIp(ip)
    BY <1>3 DEF Ready, OfIp
  <2>2. SlotsAreConserved'
    BY <1>3, <2>1 DEF Ready, SlotInv, SlotsAreConserved
  <2>3. OccupiedHasIp'
    BY <1>3 DEF Ready, OccupiedHasIp, Free, SlotInv
  <2> QED BY <1>3, <2>2, <2>3 DEF Ready, SlotInv
<1>4. ASSUME NEW s \in Sockets, Closed(s) PROVE SlotInv'
  BY <1>4, ClosedKeepsSlots
<1>5. CASE Tick
  BY <1>5, SameSlots DEF Tick, SlotInv
<1>6. CASE UNCHANGED vars
  BY <1>6, SameSlots DEF vars, SlotInv
<1> QED BY <1>1, <1>2, <1>3, <1>4, <1>5, <1>6 DEF Next

\* No half-open slot is stranded or given back twice, whichever gate refuses and
\* however a socket ends: for any number of IPs and sockets (acquireHalfOpen,
\* allowHandshake, releaseHalfOpen).
THEOREM SlotsConserved == Spec => []SlotsAreConserved
<1>1. SlotInv => SlotsAreConserved
  BY DEF SlotInv
<1> QED BY <1>1, InitSlots, NextKeepsSlots, PTL DEF Spec

-----------------------------------------------------------------------------
(* The handshake budget. *)

Ages == 0 .. HandshakeWindow
Lists == handshakes \in [Ips -> Seq(Ages)]

LEMMA RecentType ==
  ASSUME Lists, NEW ip \in Ips
  PROVE  /\ Recent(ip) \in Seq(Ages) /\ Len(Recent(ip)) \in Nat
         /\ Append(Recent(ip), 0) \in Seq(Ages)
         /\ Len(Append(Recent(ip), 0)) = Len(Recent(ip)) + 1
<1> PICK places : places = {i \in DOMAIN handshakes[ip] : InWindow(handshakes[ip][i])}
  OBVIOUS
<1>1. /\ handshakes[ip] \in Seq(Ages) /\ places \in SUBSET (1 .. Len(handshakes[ip]))
      /\ Recent(ip) = FromFirst(handshakes[ip], places)
  BY DEF Lists, Recent
<1>2. Recent(ip) \in Seq(Ages)
  BY <1>1, FromFirstIsEnd
<1>3. 0 \in Ages
  BY NumbersAssumption DEF Ages
<1> QED BY <1>2, <1>3, AppendProperties

\* A list that is cut in the same place or later has no more in the window.
LEMMA FewerRecent ==
  ASSUME Lists, Lists', NEW ip \in Ips, Len(handshakes'[ip]) = Len(handshakes[ip]),
         \A i \in DOMAIN handshakes[ip] : InWindow(handshakes'[ip][i]) => InWindow(handshakes[ip][i])
  PROVE  Len(Recent(ip)') <= Len(Recent(ip))
<1> PICK before : before = {i \in DOMAIN handshakes[ip] : InWindow(handshakes[ip][i])}
  OBVIOUS
<1> PICK after : after = {i \in DOMAIN handshakes'[ip] : InWindow(handshakes'[ip][i])}
  OBVIOUS
<1>1. /\ Recent(ip) = FromFirst(handshakes[ip], before)
      /\ Recent(ip)' = FromFirst(handshakes'[ip], after)
  BY DEF Recent
<1>2. handshakes[ip] \in Seq(Ages) /\ handshakes'[ip] \in Seq(Ages)
  BY DEF Lists, Ages
<1>3. before \in SUBSET (1 .. Len(handshakes[ip])) /\ after \subseteq before
  BY <1>2
<1> QED BY <1>1, <1>2, <1>3, FromFirstIsShorter

\* Nor has a list that starts with what was in the window.
LEMMA NoMoreRecent ==
  ASSUME Lists, Lists', NEW ip \in Ips
  PROVE  Len(Recent(ip)') <= Len(handshakes'[ip])
<1> PICK list \in Seq(Ages) : list = handshakes'[ip]
  BY DEF Lists, Ages
<1> PICK places : places = {i \in DOMAIN list : InWindow(list[i])}
  OBVIOUS
<1>0. places \in SUBSET (1 .. Len(list))
  OBVIOUS
<1>1. Recent(ip)' = FromFirst(list, places)
  BY DEF Recent
<1>2. PICK k \in 0 .. Len(list) : IsEnd(FromFirst(list, places), list, k)
  BY <1>0, FromFirstIsEnd
<1> QED BY <1>1, <1>2 DEF IsEnd

\* What a step may do to the lists: leave the IP's, let it age, cut it to what is in
\* the window, or add one attempt to that, and then there is a socket more.
LEMMA StepLists ==
  ASSUME SlotInv, Lists, [Next]_vars
  PROVE  /\ Lists'
         /\ \A ip \in Ips :
              \/ Len(Recent(ip)') <= Len(Recent(ip))
              \/ /\ Cardinality(OfIp(ip)') = Cardinality(OfIp(ip)) + 1
                 /\ Len(Recent(ip)') <= HandshakeRate
<1>1. CASE UNCHANGED handshakes
  <2>1. Lists' /\ \A ip \in Ips : Recent(ip)' = Recent(ip)
    BY <1>1 DEF Lists, Recent
  <2> QED BY <2>1, RecentType
<1>2. ASSUME NEW ip \in Ips, RefuseRate(ip)
      PROVE  Lists' /\ \A other \in Ips : Len(Recent(other)') <= Len(Recent(other))
  <2>1. handshakes' = [handshakes EXCEPT ![ip] = Recent(ip)]
    BY <1>2 DEF RefuseRate
  <2>2. Lists'
    BY <2>1, RecentType DEF Lists, Ages
  <2>3. \A other \in Ips \ {ip} : Recent(other)' = Recent(other)
    BY <2>1 DEF Lists, Recent
  <2>4. Len(Recent(ip)') <= Len(Recent(ip))
    BY <2>1, <2>2, NoMoreRecent DEF Lists
  <2> QED BY <2>2, <2>3, <2>4, RecentType
<1>3. ASSUME NEW ip \in Ips, Admit(ip)
      PROVE  /\ Lists'
             /\ \A other \in Ips \ {ip} : Len(Recent(other)') <= Len(Recent(other))
             /\ Cardinality(OfIp(ip)') = Cardinality(OfIp(ip)) + 1
             /\ Len(Recent(ip)') <= HandshakeRate
  <2>1. handshakes' = [handshakes EXCEPT ![ip] = Append(Recent(ip), 0)]
    BY <1>3 DEF Admit
  <2>2. Lists'
    BY <2>1, RecentType DEF Lists, Ages
  <2>3. \A other \in Ips \ {ip} : Recent(other)' = Recent(other)
    BY <2>1 DEF Lists, Recent
  <2>4. Len(Recent(ip)') <= Len(Recent(ip)) + 1
    BY <2>1, <2>2, NoMoreRecent, RecentType DEF Lists
  <2>5. Len(Recent(ip)) < HandshakeRate /\ HandshakeRate \in Nat
    BY <1>3, NumbersAssumption DEF Admit
  <2>6. Len(Recent(ip)') \in Nat
    BY <2>2, RecentType
  <2>7. Cardinality(OfIp(ip)') = Cardinality(OfIp(ip)) + 1
    <3>1. SlotsAreConserved'
      BY <1>3, AttemptKeepsSlots DEF Attempt, SlotInv
    <3>2. halfOpen'[ip] = halfOpen[ip] + 1
      BY <1>3 DEF Admit, SlotInv
    <3> QED BY <3>1, <3>2 DEF SlotInv, SlotsAreConserved
  <2>8. \A other \in Ips \ {ip} : Len(Recent(other)') <= Len(Recent(other))
    BY <2>3, RecentType
  <2> QED BY <2>2, <2>4, <2>5, <2>6, <2>7, <2>8, RecentType
<1>4. CASE Tick
  <2>1. handshakes' = [ip \in Ips |->
          [i \in DOMAIN handshakes[ip] |->
             IF InWindow(handshakes[ip][i]) THEN handshakes[ip][i] + 1 ELSE handshakes[ip][i]]]
    BY <1>4 DEF Tick
  <2>2. ASSUME NEW ip \in Ips
        PROVE  /\ handshakes'[ip] \in Seq(Ages) /\ Len(handshakes'[ip]) = Len(handshakes[ip])
               /\ \A i \in DOMAIN handshakes[ip] :
                    InWindow(handshakes'[ip][i]) => InWindow(handshakes[ip][i])
    <3> PICK list \in Seq(Ages) : list = handshakes[ip]
      BY DEF Lists
    <3> DEFINE older(age) == IF InWindow(age) THEN age + 1 ELSE age
    <3>1. \A age \in Ages : older(age) \in Ages /\ (InWindow(older(age)) => InWindow(age))
      BY NumbersAssumption DEF Ages, InWindow
    <3>2. handshakes'[ip] = [i \in 1 .. Len(list) |-> older(list[i])]
      BY <2>1
    <3>3. \A i \in 1 .. Len(list) : list[i] \in Ages
      OBVIOUS
    <3> HIDE DEF older
    <3> QED BY <3>1, <3>2, <3>3
  <2>3. Lists'
    <3>1. handshakes' = [ip \in Ips |-> handshakes'[ip]]
      BY <2>1
    <3> QED BY <2>2, <3>1 DEF Lists, Ages
  <2>4. \A ip \in Ips : Len(Recent(ip)') <= Len(Recent(ip))
    BY <2>2, <2>3, FewerRecent
  <2> QED BY <2>3, <2>4
<1>5. [Next]_vars => \/ UNCHANGED handshakes \/ Tick
                    \/ \E ip \in Ips : RefuseRate(ip) \/ Admit(ip)
  BY DEF Next, Attempt, vars, gates, RefuseBanned, RefuseFull, RefuseHalfOpen, BanChanges, Ready, Closed
<1>6. CASE \E ip \in Ips : RefuseRate(ip)
  BY <1>2, <1>6
<1>7. CASE \E ip \in Ips : Admit(ip)
  <2>1. PICK ip \in Ips : Admit(ip)
    BY <1>7
  <2> QED BY <1>3, <2>1
<1> QED BY <1>1, <1>4, <1>5, <1>6, <1>7

\* limits.js, allowHandshake and acquireHalfOpen: whichever gate refuses an attempt, an
\* IP's handshake budget is spent by accepted sockets alone, and within its bound.
THEOREM BudgetIsForSockets == Spec => BudgetBuysSockets
<1>1. Init => Lists
  BY DEF Init, Lists
<1>2. SlotInv /\ Lists /\ [Next]_vars => SlotInv' /\ Lists'
  BY NextKeepsSlots, StepLists
<1>3. SlotInv /\ Lists /\ [Next]_vars =>
        \A ip \in Ips :
          Len(Recent(ip)') > Len(Recent(ip))
            => /\ Cardinality(OfIp(ip)') = Cardinality(OfIp(ip)) + 1
               /\ Len(Recent(ip)') <= HandshakeRate
  <2> SUFFICES ASSUME SlotInv, Lists, [Next]_vars, NEW ip \in Ips,
                      Len(Recent(ip)') > Len(Recent(ip))
               PROVE  /\ Cardinality(OfIp(ip)') = Cardinality(OfIp(ip)) + 1
                      /\ Len(Recent(ip)') <= HandshakeRate
    OBVIOUS
  <2>1. Lists' /\ Len(Recent(ip)) \in Nat /\ Len(Recent(ip)') \in Nat
    BY StepLists, RecentType
  <2>2. ~(Len(Recent(ip)') <= Len(Recent(ip)))
    BY <2>1
  <2> QED BY <2>2, StepLists
<1> QED BY <1>1, <1>2, <1>3, InitSlots, PTL DEF Spec, BudgetBuysSockets

\* What the gates keep of IPs and sockets has its type.
THEOREM GatesTypes == Spec => []TypeOK
<1> DEFINE Rest == /\ registered \in SUBSET Sockets /\ banned \in SUBSET Ips
                   /\ refusal \in {None, "banned", "sessions", "half-open", "rate"}
<1>1. Init => SlotInv /\ Lists /\ Rest
  BY InitSlots DEF Init, Lists
<1>2. SlotInv /\ Lists /\ Rest /\ [Next]_vars => SlotInv' /\ Lists' /\ Rest'
  <2> SUFFICES ASSUME SlotInv, Lists, Rest, [Next]_vars PROVE Rest'
    BY NextKeepsSlots, StepLists
  <2>1. ASSUME NEW ip \in Ips, Attempt(ip) PROVE Rest'
    BY <2>1 DEF Attempt, RefuseBanned, RefuseFull, RefuseHalfOpen, RefuseRate, Admit, Refuse
  <2>2. ASSUME NEW ip \in Ips, BanChanges(ip) PROVE Rest'
    BY <2>2 DEF BanChanges
  <2>3. ASSUME NEW s \in Sockets, Ready(s) \/ Closed(s) PROVE Rest'
    BY <2>3 DEF Ready, Closed
  <2>4. CASE Tick
    BY <2>4 DEF Tick
  <2>5. CASE UNCHANGED vars
    BY <2>5 DEF vars
  <2> QED BY <2>1, <2>2, <2>3, <2>4, <2>5 DEF Next
<1>3. SlotInv /\ Lists /\ Rest => TypeOK
  BY DEF SlotInv, Lists, Ages, TypeOK
<1> QED BY <1>1, <1>2, <1>3, PTL DEF Spec
=============================================================================
