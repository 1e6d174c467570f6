-------------------------- MODULE FrameReceptionProofs --------------------------
(***************************************************************************)
(* Proofs about what a session takes from its peer, for every set of       *)
(* messages and whatever they say: a HELLO opens one session, a frame that *)
(* is taken says what was sent, and only what was taken before is called a *)
(* replay.                                                                 *)
(***************************************************************************)
EXTENDS FrameReception, AgedListsProofs

-----------------------------------------------------------------------------
(* The nonces. *)

Remembered == [nonce : Nonces, age : 0 .. 2 * Tolerance + 1]

\* What evicting by age leaves of the nonces is their end, and what it takes away
\* has expired.
LEMMA UnexpiredIsEnd ==
  ASSUME nonces \in Seq(Remembered)
  PROVE  /\ Unexpired \in Seq(Remembered)
         /\ \E k \in 0 .. Len(nonces) :
              /\ Len(Unexpired) = Len(nonces) - k
              /\ \A i \in 1 .. Len(Unexpired) : Unexpired[i] = nonces[i + k]
              /\ \A i \in 1 .. k : Expired(nonces[i])
<1> DEFINE young == {i \in DOMAIN nonces : ~Expired(nonces[i])}
<1>1. young \in SUBSET (1 .. Len(nonces)) /\ Unexpired = FromFirst(nonces, young)
  BY DEF Unexpired
<1>2. \A i \in 1 .. Len(nonces) : i \notin young => Expired(nonces[i])
  OBVIOUS
<1> HIDE DEF young
<1>3. Unexpired \in Seq(Remembered)
  BY <1>1, FromFirstIsEnd
<1>4. PICK k \in 0 .. Len(nonces) :
        IsEnd(FromFirst(nonces, young), nonces, k) /\ \A i \in 1 .. k : i \notin young
  BY <1>1, FromFirstIsEnd
<1> QED BY <1>1, <1>2, <1>3, <1>4 DEF IsEnd

-----------------------------------------------------------------------------
(* Steps and types. *)

\* What any step does to what is remembered, with a session around the guard or
\* without.
GuardStep ==
  \/ \E h \in Hellos : NewHello(h) \/ ReplayedHello(h)
  \/ \E f \in Frames : NewFrame(f)
  \/ struck' \in BOOLEAN /\ UNCHANGED <<lead, nonces, seen, taken>>
  \/ Tick

LEMMA GuardSteps ==
  ASSUME TypeOK
  PROVE  [Next]_vars \/ [ReceptionNext]_receptionVars => GuardStep
<1>1. [Next]_vars => GuardStep
  BY DEF Next, vars, GuardStep, ReplayedFrame, SkewedFrame, TypeOK
<1>2. ASSUME NEW c \in PassingCopies, IF c.of \in Hellos THEN ReceiveHello(c) ELSE ReceiveFrame(c)
      PROVE  GuardStep
  <2>1. c.of \in Hellos \cup Frames
    BY DEF PassingCopies, Copies, Messages
  <2> QED BY <1>2, <2>1 DEF ReceiveHello, ReceiveFrame, GuardStep, ReplayedFrame
<1>3. ASSUME NEW h \in Hellos, RefuseHello(h) PROVE GuardStep
  BY <1>3 DEF RefuseHello, GuardStep
<1>4. ASSUME NEW f \in Frames, RefuseFrame(f) PROVE GuardStep
  BY <1>4 DEF RefuseFrame, SkewedFrame, GuardStep
<1>5. [ReceptionNext]_receptionVars => GuardStep
  BY <1>2, <1>3, <1>4 DEF ReceptionNext, receptionVars, vars, GuardStep, TypeOK
<1> QED BY <1>1, <1>5

LEMMA InitTypes == ASSUME Init PROVE TypeOK
<1>1. nonces \in Seq(Remembered) /\ Len(nonces) <= MaxNonces
  BY NumbersAssumption DEF Init
<1>2. seen \in Seq({FrameKey[f] : f \in Frames}) /\ Len(seen) <= MaxSeen
  BY NumbersAssumption DEF Init
<1>3. taken \in [Hellos \cup Frames -> 0 .. 2] /\ struck \in BOOLEAN
  <2>1. taken = [m \in Hellos \cup Frames |-> 0] /\ struck = FALSE
    BY DEF Init
  <2>2. 0 \in 0 .. 2
    OBVIOUS
  <2> QED BY <2>1, <2>2
<1>4. lead \in [Hellos \cup Frames -> Leads]
  BY DEF Init
<1>5. Remembered = [nonce : Nonces, age : 0 .. 2 * Tolerance + 1]
  BY DEF Remembered
<1> QED BY <1>1, <1>2, <1>3, <1>4, <1>5 DEF TypeOK

\* The nonces after a new HELLO: what was not evicted and the new one, at least.
LEMMA NewNonce ==
  ASSUME TypeOK, NEW h \in Hellos, NewHello(h)
  PROVE  /\ nonces' \in Seq(Remembered)
         /\ Len(nonces') <= MaxNonces
         /\ \A i \in DOMAIN nonces' :
              \/ \E j \in DOMAIN nonces : nonces'[i] = nonces[j]
              \/ nonces'[i] = [nonce |-> HelloKey[h], age |-> 0]
         /\ Len(Unexpired) < MaxNonces => nonces' = Append(Unexpired, [nonce |-> HelloKey[h], age |-> 0])
<1> DEFINE new == [nonce |-> HelloKey[h], age |-> 0]
           grown == Append(Unexpired, new)
<1>1. nonces \in Seq(Remembered) /\ new \in Remembered
  BY NumbersAssumption DEF TypeOK, Remembered, Nonces
<1>2. PICK k \in 0 .. Len(nonces) :
        /\ Len(Unexpired) = Len(nonces) - k
        /\ \A i \in 1 .. Len(Unexpired) : Unexpired[i] = nonces[i + k]
  BY <1>1, UnexpiredIsEnd
<1>3. Unexpired \in Seq(Remembered)
  BY <1>1, UnexpiredIsEnd
<1>4. /\ grown \in Seq(Remembered)
      /\ Len(grown) = Len(Unexpired) + 1
      /\ \A i \in 1 .. Len(Unexpired) : grown[i] = Unexpired[i]
      /\ grown[Len(Unexpired) + 1] = new
  BY <1>1, <1>3, AppendProperties
<1>5. nonces' = Latest(grown, MaxNonces)
  BY DEF NewHello
<1> HIDE DEF grown
<1>6. MaxNonces \in Nat
  BY NumbersAssumption
<1>7. /\ nonces' \in Seq(Remembered)
      /\ Len(nonces') <= MaxNonces
      /\ Len(grown) <= MaxNonces => nonces' = grown
  BY <1>4, <1>5, <1>6, LatestIsEnd
<1>8. PICK d \in 0 .. Len(grown) :
        /\ Len(nonces') = Len(grown) - d
        /\ \A i \in 1 .. Len(nonces') : nonces'[i] = grown[i + d]
  <2>1. \E d \in 0 .. Len(grown) : IsEnd(nonces', grown, d)
    BY <1>4, <1>5, <1>6, LatestIsEnd
  <2> QED BY <2>1 DEF IsEnd
<1>9. ASSUME NEW i \in DOMAIN nonces'
      PROVE  \/ \E j \in DOMAIN nonces : nonces'[i] = nonces[j]
             \/ nonces'[i] = new
  <2>1. i + d \in 1 .. Len(Unexpired) + 1 /\ nonces'[i] = grown[i + d]
    BY <1>4, <1>7, <1>8, <1>9
  <2>2. CASE i + d = Len(Unexpired) + 1
    BY <1>4, <2>1, <2>2
  <2>3. CASE i + d # Len(Unexpired) + 1
    <3>1. i + d \in 1 .. Len(Unexpired)
      BY <2>1, <2>3, <1>3
    <3>2. i + d + k \in DOMAIN nonces
      BY <3>1, <1>1, <1>2
    <3> QED BY <1>2, <1>4, <2>1, <3>1, <3>2
  <2> QED BY <2>2, <2>3
<1>10. Len(Unexpired) < MaxNonces => Len(grown) <= MaxNonces
  BY <1>3, <1>4, <1>6
<1> QED BY <1>7, <1>9, <1>10 DEF grown

LEMMA StepTypes ==
  ASSUME TypeOK, GuardStep
  PROVE  TypeOK'
<1> USE NumbersAssumption, KindsAssumption
<1>0. nonces \in Seq(Remembered)
  BY DEF TypeOK, Remembered
<1>1. ASSUME NEW h \in Hellos, NewHello(h) PROVE TypeOK'
  <2>1. taken' \in [Hellos \cup Frames -> 0 .. 2]
    BY <1>1 DEF NewHello, Take, Smaller, TypeOK
  <2> QED BY <1>1, <2>1, NewNonce DEF NewHello, TypeOK, Remembered
<1>2. ASSUME NEW h \in Hellos, ReplayedHello(h) PROVE TypeOK'
  <2>1. Unexpired \in Seq(Remembered) /\ Len(Unexpired) <= Len(nonces)
    BY <1>0, UnexpiredIsEnd
  <2>2. Len(Unexpired) <= MaxNonces
    BY <2>1, <1>0 DEF TypeOK
  <2> QED BY <1>2, <2>1, <2>2 DEF ReplayedHello, TypeOK, Remembered
<1>3. ASSUME NEW f \in Frames, NewFrame(f) PROVE TypeOK'
  <2> DEFINE keys == {FrameKey[g] : g \in Frames}
  <2>1. taken' \in [Hellos \cup Frames -> 0 .. 2]
    BY <1>3 DEF NewFrame, Take, Smaller, TypeOK
  <2>2. seen \in Seq(keys) /\ FrameKey[f] \in keys
    BY DEF TypeOK
  <2> HIDE DEF keys
  <2>3. Append(seen, FrameKey[f]) \in Seq(keys)
    BY <2>2, AppendProperties
  <2>4. seen' \in Seq(keys) /\ Len(seen') <= MaxSeen
    BY <1>3, <2>3, LatestIsEnd DEF NewFrame
  <2> QED BY <1>3, <2>1, <2>4 DEF NewFrame, TypeOK, keys
<1>4. CASE struck' \in BOOLEAN /\ UNCHANGED <<lead, nonces, seen, taken>>
  BY <1>4 DEF TypeOK
<1>5. CASE Tick
  <2>1. lead' \in [Hellos \cup Frames -> Leads]
    BY <1>5 DEF Tick, TypeOK, Leads
  <2>2. \A i \in 1 .. Len(nonces) : nonces'[i] \in Remembered
    <3> SUFFICES ASSUME NEW i \in 1 .. Len(nonces) PROVE nonces'[i] \in Remembered
      OBVIOUS
    <3>1. nonces[i] \in Remembered
      BY <1>0
    <3>2. CASE Expired(nonces[i])
      BY <1>0, <1>5, <3>1, <3>2 DEF Tick
    <3>3. CASE ~Expired(nonces[i])
      <4>1. nonces'[i] = [nonces[i] EXCEPT !.age = @ + 1]
        <5>1. i \in DOMAIN nonces
          BY <1>0
        <5>2. nonces' = [j \in DOMAIN nonces |->
                IF Expired(nonces[j]) THEN nonces[j] ELSE [nonces[j] EXCEPT !.age = @ + 1]]
          BY <1>5 DEF Tick
        <5> QED BY <3>3, <5>1, <5>2
      <4> QED BY <3>1, <3>3, <4>1 DEF Expired, Remembered
    <3> QED BY <3>2, <3>3
  <2>3. nonces' = [i \in 1 .. Len(nonces) |-> nonces'[i]]
    BY <1>0, <1>5 DEF Tick
  <2>4. nonces' \in Seq(Remembered) /\ Len(nonces') = Len(nonces)
    BY <1>0, <2>2, <2>3
  <2> QED BY <1>5, <2>1, <2>4 DEF Tick, TypeOK, Remembered
<1> QED BY <1>1, <1>2, <1>3, <1>4, <1>5 DEF GuardStep

\* Every variable of the guard keeps its type, whoever calls it.
THEOREM GuardTypes == Spec => []TypeOK
<1>1. TypeOK /\ [Next]_vars => TypeOK'
  BY GuardSteps, StepTypes
<1> QED BY <1>1, InitTypes, PTL DEF Spec

THEOREM ReceptionTypes == ReceptionSpec => []TypeOK
<1>1. ReceptionInit => TypeOK
  BY InitTypes DEF ReceptionInit
<1>2. TypeOK /\ [ReceptionNext]_receptionVars => TypeOK'
  BY GuardSteps, StepTypes
<1> QED BY <1>1, <1>2, PTL DEF ReceptionSpec

-----------------------------------------------------------------------------
(* No HELLO opens two sessions. *)

\* The cache of nonces has room for every nonce that is new.
Roomy == \A h \in Hellos : NewHello(h) => Len(Unexpired) < MaxNonces

\* What was taken is too old to be taken again, or its nonce is remembered in an entry
\* that is no younger than the time the HELLO has lost: when it goes, the HELLO is too old.
Outlives(i, h) == nonces[i].nonce = HelloKey[h] /\ lead[h] <= Tolerance - nonces[i].age
TakenIsKept ==
  \A h \in Hellos : taken[h] > 0 => lead[h] < -Tolerance \/ \E i \in DOMAIN nonces : Outlives(i, h)
NonceInv == TypeOK /\ TakenIsKept /\ NonceOnce

\* What was taken and may still be accepted is still remembered.
LEMMA TakenIsSeen ==
  ASSUME NonceInv, NEW h \in Hellos, taken[h] > 0, Acceptable(h)
  PROVE  NonceSeen(h)
<1> USE NumbersAssumption
<1>0. nonces \in Seq(Remembered) /\ lead[h] >= -Tolerance /\ lead[h] \in Int
  BY DEF NonceInv, TypeOK, Remembered, Acceptable, Leads
<1>1. PICK i \in DOMAIN nonces : Outlives(i, h)
  BY <1>0 DEF NonceInv, TakenIsKept
<1>2. lead[h] <= Tolerance - nonces[i].age /\ nonces[i].age \in Int /\ nonces[i].nonce = HelloKey[h]
  <2>1. nonces[i] \in Remembered
    BY <1>0
  <2>2. nonces[i].age \in Int
    BY <2>1 DEF Remembered
  <2> QED BY <1>1, <2>2 DEF Outlives
<1>3. ~Expired(nonces[i])
  BY <1>0, <1>2 DEF Expired
<1>4. PICK k \in 0 .. Len(nonces) :
        /\ Len(Unexpired) = Len(nonces) - k
        /\ \A j \in 1 .. Len(Unexpired) : Unexpired[j] = nonces[j + k]
        /\ \A j \in 1 .. k : Expired(nonces[j])
  BY <1>0, UnexpiredIsEnd
<1>5. Unexpired \in Seq(Remembered)
  BY <1>0, UnexpiredIsEnd
<1> DEFINE j == i - k
<1>6. j \in 1 .. Len(Unexpired) /\ Unexpired[j] = nonces[i]
  <2>1. i \in 1 .. Len(nonces) /\ ~(i \in 1 .. k)
    BY <1>0, <1>3, <1>4
  <2>2. j \in 1 .. Len(Unexpired)
    BY <1>0, <1>4, <2>1
  <2> QED BY <1>4, <2>2
<1> HIDE DEF j
<1>7. Unexpired[j] \in ToSet(Unexpired)
  BY <1>5, <1>6 DEF ToSet
<1> QED BY <1>2, <1>6, <1>7 DEF NonceSeen

LEMMA NonceStep ==
  ASSUME NonceInv, Roomy, GuardStep
  PROVE  NonceInv'
<1> USE NumbersAssumption, KindsAssumption
<1>0. TypeOK /\ nonces \in Seq(Remembered) /\ TypeOK'
  BY StepTypes DEF NonceInv, TypeOK, Remembered
<1>u. PICK k \in 0 .. Len(nonces) :
        /\ Len(Unexpired) = Len(nonces) - k
        /\ \A i \in 1 .. Len(Unexpired) : Unexpired[i] = nonces[i + k]
        /\ \A i \in 1 .. k : Expired(nonces[i])
  BY <1>0, UnexpiredIsEnd
<1>s. Unexpired \in Seq(Remembered)
  BY <1>0, UnexpiredIsEnd
<1>t. /\ \A i \in DOMAIN nonces : nonces[i].age \in Int
      /\ \A h \in Hellos : lead[h] \in Int /\ lead[h] >= -Tolerance - 1
  <2>1. ASSUME NEW i \in DOMAIN nonces PROVE nonces[i].age \in Int
    <3>1. nonces[i] \in Remembered
      BY <1>0
    <3> QED BY <3>1 DEF Remembered
  <2>2. ASSUME NEW h \in Hellos PROVE lead[h] \in Int /\ lead[h] >= -Tolerance - 1
    BY <1>0 DEF TypeOK, Leads
  <2> QED BY <2>1, <2>2
\* What was taken and is not too old, and where its entry is found again.
<1>f. ASSUME NEW h \in Hellos, taken[h] > 0, lead[h] >= -Tolerance
      PROVE  \E i \in 1 .. Len(Unexpired) :
               Unexpired[i].nonce = HelloKey[h] /\ lead[h] <= Tolerance - Unexpired[i].age
  <2>1. PICK i \in DOMAIN nonces : Outlives(i, h)
    BY <1>t, <1>f DEF NonceInv, TakenIsKept
  <2>2. ~Expired(nonces[i])
    BY <1>t, <1>f, <2>1 DEF Expired, Outlives
  <2>3. i - k \in 1 .. Len(Unexpired) /\ Unexpired[i - k] = nonces[i]
    BY <1>0, <1>u, <2>2
  <2> QED BY <2>1, <2>3 DEF Outlives
<1>1. ASSUME NEW h \in Hellos, NewHello(h) PROVE NonceInv'
  <2> DEFINE new == [nonce |-> HelloKey[h], age |-> 0]
  <2>1. nonces' = Append(Unexpired, new)
    BY <1>0, <1>1, NewNonce DEF Roomy
  <2>2. new \in Remembered /\ new.nonce = HelloKey[h] /\ new.age = 0
    BY DEF Remembered, Nonces
  <2> HIDE DEF new
  <2>3. /\ DOMAIN nonces' = 1 .. Len(Unexpired) + 1
        /\ \A i \in 1 .. Len(Unexpired) : nonces'[i] = Unexpired[i]
        /\ nonces'[Len(Unexpired) + 1] = new
    BY <1>s, <2>1, <2>2, AppendProperties
  <2>4. lead' = lead /\ taken[h] = 0 /\ lead[h] <= Tolerance
    <3>1. Acceptable(h) /\ ~NonceSeen(h) /\ taken[h] \in 0 .. 2
      BY <1>0, <1>1 DEF NewHello, TypeOK
    <3> QED BY <1>1, <3>1, TakenIsSeen DEF NewHello, Acceptable
  <2>5. taken'[h] = 1 /\ \A g \in Hellos : g # h => taken'[g] = taken[g]
    BY <1>0, <1>1, <2>4 DEF NewHello, Take, Smaller, TypeOK
  <2>6. TakenIsKept'
    <3> SUFFICES ASSUME NEW g \in Hellos, taken'[g] > 0, lead[g] >= -Tolerance
                 PROVE  \E i \in DOMAIN nonces' :
                          nonces'[i].nonce = HelloKey[g] /\ lead[g] <= Tolerance - nonces'[i].age
      BY <1>t, <2>4 DEF TakenIsKept, Outlives
    <3>1. CASE g = h
      BY <1>s, <2>2, <2>3, <2>4, <3>1
    <3>2. CASE g # h
      <4>1. taken[g] > 0
        BY <2>5, <3>2
      <4>2. PICK i \in 1 .. Len(Unexpired) :
              Unexpired[i].nonce = HelloKey[g] /\ lead[g] <= Tolerance - Unexpired[i].age
        BY <1>f, <4>1
      <4>3. i \in DOMAIN nonces' /\ nonces'[i] = Unexpired[i]
        BY <1>s, <2>3
      <4> QED BY <4>2, <4>3
    <3> QED BY <3>1, <3>2
  <2>7. NonceOnce'
    BY <2>5 DEF NonceInv, NonceOnce
  <2> QED BY <1>0, <2>6, <2>7 DEF NonceInv
<1>2. ASSUME NEW h \in Hellos, ReplayedHello(h) PROVE NonceInv'
  <2>1. nonces' = Unexpired /\ lead' = lead /\ taken' = taken
    BY <1>2 DEF ReplayedHello
  <2>2. TakenIsKept'
    <3> SUFFICES ASSUME NEW g \in Hellos, taken[g] > 0, lead[g] >= -Tolerance
                 PROVE  \E i \in DOMAIN Unexpired :
                          Unexpired[i].nonce = HelloKey[g] /\ lead[g] <= Tolerance - Unexpired[i].age
      BY <1>t, <2>1 DEF TakenIsKept, Outlives
    <3> QED BY <1>f, <1>s
  <2> QED BY <1>0, <2>1, <2>2 DEF NonceInv, NonceOnce
<1>3. ASSUME NEW f \in Frames, NewFrame(f) PROVE NonceInv'
  <2>1. nonces' = nonces /\ lead' = lead /\ \A h \in Hellos : taken'[h] = taken[h]
    BY <1>0, <1>3 DEF NewFrame, Take, TypeOK
  <2> QED BY <1>0, <2>1 DEF NonceInv, TakenIsKept, Outlives, NonceOnce
<1>4. CASE struck' \in BOOLEAN /\ UNCHANGED <<lead, nonces, seen, taken>>
  BY <1>0, <1>4 DEF NonceInv, TakenIsKept, Outlives, NonceOnce
<1>5. CASE Tick
  <2>1. /\ DOMAIN nonces' = DOMAIN nonces /\ taken' = taken
        /\ \A i \in DOMAIN nonces :
             nonces'[i] = IF Expired(nonces[i]) THEN nonces[i] ELSE [nonces[i] EXCEPT !.age = @ + 1]
    BY <1>0, <1>5 DEF Tick
  <2>2. \A h \in Hellos : lead'[h] = IF lead[h] < -Tolerance THEN lead[h] ELSE lead[h] - 1
    BY <1>0, <1>5 DEF Tick, TypeOK
  <2>3. \A i \in DOMAIN nonces :
          /\ nonces'[i].nonce = nonces[i].nonce
          /\ nonces'[i].age = IF Expired(nonces[i]) THEN nonces[i].age ELSE nonces[i].age + 1
    <3> SUFFICES ASSUME NEW i \in DOMAIN nonces
                 PROVE  /\ nonces'[i].nonce = nonces[i].nonce
                        /\ nonces'[i].age = IF Expired(nonces[i]) THEN nonces[i].age ELSE nonces[i].age + 1
      OBVIOUS
    <3>1. nonces[i] \in Remembered
      BY <1>0
    <3> QED BY <2>1, <3>1 DEF Remembered
  <2>4. TakenIsKept'
    <3> SUFFICES ASSUME NEW h \in Hellos, taken[h] > 0, lead'[h] >= -Tolerance
                 PROVE  \E i \in DOMAIN nonces :
                          nonces'[i].nonce = HelloKey[h] /\ lead'[h] <= Tolerance - nonces'[i].age
      <4>1. \A h \in Hellos : lead'[h] \in Int
        BY <1>0 DEF TypeOK, Leads
      <4>2. \A h \in Hellos : lead'[h] < -Tolerance \/ lead'[h] >= -Tolerance
        BY <4>1
      <4> QED BY <2>1, <4>2 DEF TakenIsKept, Outlives
    <3>1. lead[h] > -Tolerance /\ lead'[h] = lead[h] - 1
      BY <1>t, <2>2
    <3>2. PICK i \in DOMAIN nonces : Outlives(i, h)
      BY <1>t, <3>1 DEF NonceInv, TakenIsKept
    <3>3. nonces[i].age \in Int /\ lead[h] \in Int /\ lead[h] <= Tolerance - nonces[i].age
      BY <1>t, <3>2 DEF Outlives
    <3>4. nonces'[i].nonce = HelloKey[h] /\ nonces'[i].age <= nonces[i].age + 1
      BY <2>3, <3>2, <3>3 DEF Outlives
    <3>5. nonces'[i].age \in Int
      BY <2>3, <3>3
    <3> QED BY <3>1, <3>3, <3>4, <3>5
  <2> QED BY <1>0, <2>1, <2>4 DEF NonceInv, NonceOnce
<1> QED BY <1>1, <1>2, <1>3, <1>4, <1>5 DEF GuardStep

LEMMA NonceInit == ASSUME Init PROVE NonceInv
<1>1. nonces = <<>> /\ \A h \in Hellos : taken[h] = 0
  BY DEF Init
<1> QED BY <1>1, InitTypes DEF NonceInv, TakenIsKept, NonceOnce

\* As long as the cache has room for every new nonce, no HELLO opens two sessions,
\* however old its timestamp was when it came first.
THEOREM HellosOpenOneSession == Spec /\ [][Roomy]_vars => []NonceOnce
<1>1. NonceInv /\ [Next /\ Roomy]_vars => NonceInv'
  <2>1. ASSUME NonceInv, [Next]_vars, Roomy PROVE NonceInv'
    BY <2>1, GuardSteps, NonceStep DEF NonceInv
  <2>2. ASSUME NonceInv, UNCHANGED vars PROVE NonceInv'
    BY <2>2 DEF NonceInv, vars, TypeOK, TakenIsKept, Outlives, NonceOnce
  <2> QED BY <2>1, <2>2
<1>2. NonceInv => NonceOnce
  BY DEF NonceInv
<1>3. Init => NonceInv
  BY NonceInit
<1>4. [Next]_vars /\ [Roomy]_vars => [Next /\ Roomy]_vars
  OBVIOUS
<1> QED BY <1>1, <1>2, <1>3, <1>4, PTL DEF Spec

\* No nonce is remembered twice: with room for every nonce there is, there is always
\* room for a new one.
NoncesApart == \A i, j \in DOMAIN nonces : nonces[i].nonce = nonces[j].nonce => i = j

LEMMA ApartIsRoomy ==
  ASSUME TypeOK, NoncesApart, IsFiniteSet(Nonces), Cardinality(Nonces) <= MaxNonces
  PROVE  Roomy
<1> USE NumbersAssumption
<1>0. nonces \in Seq(Remembered)
  BY DEF TypeOK, Remembered
<1>1. PICK k \in 0 .. Len(nonces) :
        /\ Len(Unexpired) = Len(nonces) - k
        /\ \A i \in 1 .. Len(Unexpired) : Unexpired[i] = nonces[i + k]
  BY <1>0, UnexpiredIsEnd
<1>2. Unexpired \in Seq(Remembered)
  BY <1>0, UnexpiredIsEnd
<1> SUFFICES ASSUME NEW h \in Hellos, NewHello(h), Len(Unexpired) >= MaxNonces PROVE FALSE
  BY <1>2 DEF Roomy
<1> DEFINE Places == 1 .. Len(Unexpired)
           Others == Nonces \ {HelloKey[h]}
           holder == [i \in Places |-> Unexpired[i].nonce]
<1>3. \A i \in Places : Unexpired[i] \in ToSet(Unexpired) /\ Unexpired[i] \in Remembered
  BY <1>2 DEF ToSet
<1>4. holder \in [Places -> Others]
  <2>1. \A i \in Places : Unexpired[i].nonce \in Nonces /\ Unexpired[i].nonce # HelloKey[h]
    BY <1>3 DEF NewHello, NonceSeen, Remembered
  <2> QED BY <2>1
<1>5. IsFiniteSet(Places) /\ Cardinality(Places) = Len(Unexpired)
  BY <1>2, FS_Interval
<1>6. IsFiniteSet(Others) /\ Cardinality(Others) = Cardinality(Nonces) - 1
  <2>1. HelloKey[h] \in Nonces
    BY DEF Nonces
  <2> QED BY <2>1, FS_RemoveElement
<1>7. Cardinality(Nonces) \in Nat
  BY FS_CardinalityType
<1>8. Cardinality(Others) < Cardinality(Places)
  BY <1>2, <1>5, <1>6, <1>7
<1> HIDE DEF holder
<1>9. PICK i \in Places, j \in Places : i # j /\ holder[i] = holder[j]
  BY <1>4, <1>5, <1>6, <1>8, FS_PigeonHole
<1>10. Unexpired[i].nonce = Unexpired[j].nonce
  BY <1>9 DEF holder
<1>11. i + k \in DOMAIN nonces /\ j + k \in DOMAIN nonces /\ i + k # j + k
  BY <1>0, <1>1, <1>9
<1> QED BY <1>1, <1>10, <1>11 DEF NoncesApart

LEMMA ApartStep ==
  ASSUME TypeOK, NoncesApart, Roomy, GuardStep
  PROVE  NoncesApart'
<1>0. nonces \in Seq(Remembered)
  BY DEF TypeOK, Remembered
<1>1. PICK k \in 0 .. Len(nonces) :
        /\ Len(Unexpired) = Len(nonces) - k
        /\ \A i \in 1 .. Len(Unexpired) : Unexpired[i] = nonces[i + k]
  BY <1>0, UnexpiredIsEnd
<1>2. Unexpired \in Seq(Remembered)
  BY <1>0, UnexpiredIsEnd
<1>3. \A i, j \in 1 .. Len(Unexpired) : Unexpired[i].nonce = Unexpired[j].nonce => i = j
  <2> SUFFICES ASSUME NEW i \in 1 .. Len(Unexpired), NEW j \in 1 .. Len(Unexpired),
                      Unexpired[i].nonce = Unexpired[j].nonce
               PROVE  i = j
    OBVIOUS
  <2>1. i + k \in DOMAIN nonces /\ j + k \in DOMAIN nonces
    BY <1>0, <1>1
  <2>2. i + k = j + k
    BY <1>1, <2>1 DEF NoncesApart
  <2> QED BY <2>2
<1>4. ASSUME NEW h \in Hellos, NewHello(h) PROVE NoncesApart'
  <2> DEFINE new == [nonce |-> HelloKey[h], age |-> 0]
  <2>1. nonces' = Append(Unexpired, new)
    BY <1>4, NewNonce DEF Roomy
  <2>2. new \in Remembered /\ new.nonce = HelloKey[h]
    BY NumbersAssumption DEF Remembered, Nonces
  <2> HIDE DEF new
  <2>3. /\ DOMAIN nonces' = 1 .. Len(Unexpired) + 1
        /\ \A i \in 1 .. Len(Unexpired) : nonces'[i] = Unexpired[i]
        /\ nonces'[Len(Unexpired) + 1] = new
    BY <1>2, <2>1, <2>2, AppendProperties
  <2>4. \A i \in 1 .. Len(Unexpired) : Unexpired[i].nonce # HelloKey[h]
    BY <1>2, <1>4 DEF NewHello, NonceSeen, ToSet
  <2> SUFFICES ASSUME NEW i \in 1 .. Len(Unexpired) + 1, NEW j \in 1 .. Len(Unexpired) + 1,
                      nonces'[i].nonce = nonces'[j].nonce
               PROVE  i = j
    BY <2>3 DEF NoncesApart
  <2>5. (i \in 1 .. Len(Unexpired) \/ i = Len(Unexpired) + 1)
        /\ (j \in 1 .. Len(Unexpired) \/ j = Len(Unexpired) + 1)
    BY <1>2
  <2> QED BY <1>3, <2>2, <2>3, <2>4, <2>5
<1>5. ASSUME NEW h \in Hellos, ReplayedHello(h) PROVE NoncesApart'
  BY <1>2, <1>3, <1>5 DEF ReplayedHello, NoncesApart
<1>6. CASE Tick
  <2>1. /\ DOMAIN nonces' = DOMAIN nonces
        /\ \A i \in DOMAIN nonces :
             nonces'[i] = IF Expired(nonces[i]) THEN nonces[i] ELSE [nonces[i] EXCEPT !.age = @ + 1]
    BY <1>0, <1>6 DEF Tick
  <2>2. \A i \in DOMAIN nonces : nonces[i] \in Remembered
    BY <1>0
  <2>3. \A i \in DOMAIN nonces : nonces'[i].nonce = nonces[i].nonce
    BY <2>1, <2>2 DEF Remembered
  <2> QED BY <2>1, <2>3 DEF NoncesApart
<1>7. CASE UNCHANGED nonces
  BY <1>7 DEF NoncesApart
<1> QED BY <1>4, <1>5, <1>6, <1>7 DEF GuardStep, NewFrame

\* A session opens for each HELLO once, if the cache has room for the nonces of all that
\* are ever signed, of which some may be the same.
THEOREM SessionsOpenOnce ==
  ASSUME IsFiniteSet(Nonces), Cardinality(Nonces) <= MaxNonces
  PROVE  ReceptionSpec => []NonceOnce
<1> DEFINE IInv == NonceInv /\ NoncesApart
<1>1. ReceptionInit => IInv
  <2>1. ReceptionInit => Init /\ nonces = <<>>
    BY DEF ReceptionInit, Init
  <2> QED BY <2>1, NonceInit DEF NoncesApart
<1>2. IInv /\ [ReceptionNext]_receptionVars => IInv'
  <2> SUFFICES ASSUME IInv, [ReceptionNext]_receptionVars PROVE IInv'
    OBVIOUS
  <2>1. TypeOK /\ GuardStep
    BY GuardSteps DEF NonceInv
  <2>2. Roomy
    BY <2>1, ApartIsRoomy
  <2> QED BY <2>1, <2>2, NonceStep, ApartStep
<1>3. IInv => NonceOnce
  BY DEF NonceInv
<1> QED BY <1>1, <1>2, <1>3, PTL DEF ReceptionSpec

-----------------------------------------------------------------------------
(* What is written is what is read. *)

LEMMA Sizes ==
  /\ HEADER_LEN = 16 /\ IDENTITY_LEN = 32 /\ PAYLOAD_LEN = 80
  /\ PAYLOAD_OFF = 48 /\ SIGNED_REGION_LEN = 128
BY DEF HEADER_LEN, IDENTITY_LEN, PAYLOAD_LEN, PAYLOAD_OFF, SIGNED_REGION_LEN

\* No two fields of a payload overlap, and all lie in it.
LEMMA FieldsApart ==
  ASSUME NEW type \in Types
  PROVE  /\ \A name \in Names(type) :
              /\ Fields[type][name].at \in Nat /\ Fields[type][name].len \in Nat
              /\ Fields[type][name].at + Fields[type][name].len <= PAYLOAD_LEN
         /\ \A m, n \in Names(type), i \in Nat :
              Covers(type, m, i) /\ Covers(type, n, i) => m = n
<1>1. CASE type = "hello"
  BY <1>1 DEF Fields, Names, Covers, PAYLOAD_LEN
<1>2. CASE type = "prevhash"
  BY <1>2 DEF Fields, Names, Covers, PAYLOAD_LEN
<1>3. CASE type = "guard"
  BY <1>3 DEF Fields, Names, Covers, PAYLOAD_LEN
<1> QED BY <1>1, <1>2, <1>3 DEF Types

LEMMA PayloadBytes ==
  ASSUME NEW type \in Types, NEW v, Fits(type, v)
  PROVE  /\ WritePayload(type, v) \in [0 .. PAYLOAD_LEN - 1 -> Byte]
         /\ \A name \in Names(type) : \A k \in 1 .. Fields[type][name].len :
              WritePayload(type, v)[Fields[type][name].at + k - 1] = v[name][k]
<1>1. ASSUME NEW name \in Names(type), NEW i \in 0 .. PAYLOAD_LEN - 1, Covers(type, name, i)
      PROVE  /\ WritePayload(type, v)[i] = v[name][i - Fields[type][name].at + 1]
             /\ WritePayload(type, v)[i] \in Byte
  <2> DEFINE chosen == CHOOSE n \in Names(type) : Covers(type, n, i)
  <2>1. chosen \in Names(type) /\ Covers(type, chosen, i)
    BY <1>1
  <2>2. chosen = name
    BY <1>1, <2>1, FieldsApart
  <2>3. WritePayload(type, v)[i] = v[chosen][i - Fields[type][chosen].at + 1]
    BY <1>1 DEF WritePayload
  <2> HIDE DEF chosen
  <2>4. v[name] \in [1 .. Fields[type][name].len -> Byte]
    BY DEF Fits, Bytes
  <2>5. i - Fields[type][name].at + 1 \in 1 .. Fields[type][name].len
    BY <1>1, FieldsApart DEF Covers
  <2> QED BY <2>2, <2>3, <2>4, <2>5
<1>2. ASSUME NEW i \in 0 .. PAYLOAD_LEN - 1 PROVE WritePayload(type, v)[i] \in Byte
  <2>1. CASE \E name \in Names(type) : Covers(type, name, i)
    BY <1>1, <2>1
  <2>2. CASE ~\E name \in Names(type) : Covers(type, name, i)
    BY <2>2 DEF WritePayload, Byte
  <2> QED BY <2>1, <2>2
<1>3. WritePayload(type, v) \in [0 .. PAYLOAD_LEN - 1 -> Byte]
  <2>1. WritePayload(type, v) = [i \in 0 .. PAYLOAD_LEN - 1 |-> WritePayload(type, v)[i]]
    BY DEF WritePayload
  <2> QED BY <1>2, <2>1
<1>4. ASSUME NEW name \in Names(type), NEW k \in 1 .. Fields[type][name].len
      PROVE  WritePayload(type, v)[Fields[type][name].at + k - 1] = v[name][k]
  <2> DEFINE i == Fields[type][name].at + k - 1
  <2>1. /\ i \in 0 .. PAYLOAD_LEN - 1
        /\ i - Fields[type][name].at + 1 = k
        /\ Covers(type, name, i)
    BY FieldsApart, Sizes DEF Covers
  <2> HIDE DEF i
  <2>2. WritePayload(type, v)[i] = v[name][k]
    BY <1>1, <2>1
  <2> QED BY <2>2 DEF i
<1> QED BY <1>3, <1>4

\* Reading where some bytes are gives these bytes.
LEMMA SliceIs ==
  ASSUME NEW n, NEW b, b \in Bytes(n), NEW f, NEW at, \A k \in 1 .. n : f[at + k - 1] = b[k]
  PROVE  Slice(f, at, n) = b
<1>1. b = [k \in 1 .. n |-> b[k]]
  BY DEF Bytes
<1> QED BY <1>1 DEF Slice

LEMMA PayloadRoundTrip ==
  ASSUME NEW type \in Types, NEW v, Fits(type, v), NEW p,
         \A i \in 0 .. PAYLOAD_LEN - 1 : p[i] = WritePayload(type, v)[i]
  PROVE  ReadPayload(type, p) = v
<1>1. ASSUME NEW name \in Names(type)
      PROVE  Slice(p, Fields[type][name].at, Fields[type][name].len) = v[name]
  <2> DEFINE at == Fields[type][name].at
             len == Fields[type][name].len
  <2>1. at \in Nat /\ len \in Nat /\ at + len <= PAYLOAD_LEN
    BY FieldsApart
  <2>2. \A k \in 1 .. len : p[at + k - 1] = v[name][k]
    <3> SUFFICES ASSUME NEW k \in 1 .. len PROVE p[at + k - 1] = v[name][k]
      OBVIOUS
    <3>1. at + k - 1 \in 0 .. PAYLOAD_LEN - 1
      BY <2>1, Sizes
    <3> QED BY <3>1, PayloadBytes
  <2>3. v[name] \in Bytes(len)
    BY DEF Fits
  <2> QED BY <2>2, <2>3, SliceIs
<1> QED BY <1>1 DEF ReadPayload, Fits

\* Where the bytes of a region come from.
Layout(region, type, timestamp, identity, payload, i) ==
  /\ i = 0 => region[i] = PROTO_V
  /\ i = 1 => region[i] = TypeByte[type]
  /\ 2 <= i /\ i <= 9 => region[i] = timestamp[i - 1]
  /\ 10 <= i /\ i <= 15 => region[i] = 0
  /\ 16 <= i /\ i <= 47 => region[i] = identity[i - 15]
  /\ 48 <= i => region[i] = payload[i - 48]

LEMMA RegionLayout ==
  ASSUME NEW type, NEW timestamp, NEW identity, NEW payload,
         NEW region, region = WriteRegion(type, timestamp, identity, payload),
         NEW i \in 0 .. SIGNED_REGION_LEN - 1
  PROVE  Layout(region, type, timestamp, identity, payload, i)
<1> USE DEF Layout
<1>1. region[i] = CASE i = 0 -> PROTO_V
                    [] i = 1 -> TypeByte[type]
                    [] i \in 2 .. 9 -> timestamp[i - 1]
                    [] i \in 10 .. 15 -> 0
                    [] i \in 16 .. 47 -> identity[i - 15]
                    [] i >= PAYLOAD_OFF -> payload[i - PAYLOAD_OFF]
  BY Zenon DEF WriteRegion
<1>2. PAYLOAD_OFF = 48 /\ i \in Nat
  BY Sizes
<1>3. CASE i = 0
  <2>1. i = 0 /\ i # 1 /\ i \notin 2 .. 9 /\ i \notin 10 .. 15 /\ i \notin 16 .. 47 /\ ~(i >= PAYLOAD_OFF)
    BY <1>2, <1>3
  <2>2. region[i] = PROTO_V
    BY <1>1, <2>1, Zenon
  <2> QED BY <1>2, <1>3, <2>2
<1>4. CASE i = 1
  <2>1. i # 0 /\ i = 1 /\ i \notin 2 .. 9 /\ i \notin 10 .. 15 /\ i \notin 16 .. 47 /\ ~(i >= PAYLOAD_OFF)
    BY <1>2, <1>4
  <2>2. region[i] = TypeByte[type]
    BY <1>1, <2>1, Zenon
  <2> QED BY <1>2, <1>4, <2>2
<1>5. CASE 2 <= i /\ i <= 9
  <2>1. i # 0 /\ i # 1 /\ i \in 2 .. 9 /\ i \notin 10 .. 15 /\ i \notin 16 .. 47 /\ ~(i >= PAYLOAD_OFF)
    BY <1>2, <1>5
  <2>2. region[i] = timestamp[i - 1]
    BY <1>1, <2>1, Zenon
  <2> QED BY <1>2, <1>5, <2>2
<1>6. CASE 10 <= i /\ i <= 15
  <2>1. i # 0 /\ i # 1 /\ i \notin 2 .. 9 /\ i \in 10 .. 15 /\ i \notin 16 .. 47 /\ ~(i >= PAYLOAD_OFF)
    BY <1>2, <1>6
  <2>2. region[i] = 0
    BY <1>1, <2>1, Zenon
  <2> QED BY <1>2, <1>6, <2>2
<1>7. CASE 16 <= i /\ i <= 47
  <2>1. i # 0 /\ i # 1 /\ i \notin 2 .. 9 /\ i \notin 10 .. 15 /\ i \in 16 .. 47 /\ ~(i >= PAYLOAD_OFF)
    BY <1>2, <1>7
  <2>2. region[i] = identity[i - 15]
    BY <1>1, <2>1, Zenon
  <2> QED BY <1>2, <1>7, <2>2
<1>8. CASE 48 <= i
  <2>1. i # 0 /\ i # 1 /\ i \notin 2 .. 9 /\ i \notin 10 .. 15 /\ i \notin 16 .. 47 /\ i >= PAYLOAD_OFF
    BY <1>2, <1>8
  <2>2. region[i] = payload[i - PAYLOAD_OFF]
    BY <1>1, <2>1, Zenon
  <2> QED BY <1>2, <1>8, <2>2
<1> QED BY <1>2, <1>3, <1>4, <1>5, <1>6, <1>7, <1>8

\* What is read of a region, and that it is made of bytes.
Holds(region, c, payload) ==
  /\ region \in [0 .. SIGNED_REGION_LEN - 1 -> Byte]
  /\ HasType(region, c.type)
  /\ Timestamp(region) = c.timestamp
  /\ IdentityOf(region) = c.identity
  /\ \A i \in 0 .. PAYLOAD_LEN - 1 : PayloadOf(region)[i] = payload[i]

LEMMA RegionBytes ==
  ASSUME NEW c, c.type \in Types, c.timestamp \in Bytes(8), c.identity \in Bytes(IDENTITY_LEN),
         NEW payload, payload \in [0 .. PAYLOAD_LEN - 1 -> Byte],
         NEW region, region = WriteRegion(c.type, c.timestamp, c.identity, payload)
  PROVE  Holds(region, c, payload)
<1> DEFINE Arms(i) == Layout(region, c.type, c.timestamp, c.identity, payload, i)
<1>1. \A i \in 0 .. SIGNED_REGION_LEN - 1 : Arms(i)
  BY RegionLayout
<1>2. region = [k \in 0 .. SIGNED_REGION_LEN - 1 |-> region[k]]
  <2>1. region \in [0 .. SIGNED_REGION_LEN - 1 -> {region[k] : k \in 0 .. SIGNED_REGION_LEN - 1}]
    BY DEF WriteRegion
  <2> QED BY <2>1
<1>3. ASSUME NEW i \in 0 .. SIGNED_REGION_LEN - 1 PROVE region[i] \in Byte
  <2>0. i \in Nat /\ i < 128 /\ Arms(i)
    BY <1>1, Sizes DEF Layout
  <2>1. CASE i = 0
    BY <2>0, <2>1 DEF Layout, PROTO_V, Byte
  <2>2. CASE i = 1
    <3>1. TypeByte[c.type] \in Byte
      <4>1. TypeByte[c.type] \in {1, 2, 3}
        BY DEF Types, TypeByte
      <4> QED BY <4>1 DEF Byte
    <3> QED BY <2>0, <2>2, <3>1 DEF Layout
  <2>3. CASE 2 <= i /\ i <= 9
    <3>1. i - 1 \in 1 .. 8
      BY <2>0, <2>3
    <3>2. c.timestamp[i - 1] \in Byte
      BY <3>1 DEF Bytes
    <3> QED BY <2>0, <2>3, <3>2 DEF Layout
  <2>4. CASE 10 <= i /\ i <= 15
    BY <2>0, <2>4 DEF Layout, Byte
  <2>5. CASE 16 <= i /\ i <= 47
    <3>1. i - 15 \in 1 .. IDENTITY_LEN
      BY <2>0, <2>5, Sizes
    <3>2. c.identity[i - 15] \in Byte
      BY <3>1 DEF Bytes
    <3> QED BY <2>0, <2>5, <3>2 DEF Layout
  <2>6. CASE 48 <= i
    <3>1. i - 48 \in 0 .. PAYLOAD_LEN - 1
      BY <2>0, <2>6, Sizes
    <3> QED BY <2>0, <2>6, <3>1 DEF Layout
  <2> QED BY <2>0, <2>1, <2>2, <2>3, <2>4, <2>5, <2>6
<1>4. region \in [0 .. SIGNED_REGION_LEN - 1 -> Byte]
  BY <1>2, <1>3
<1>5. Timestamp(region) = c.timestamp
  <2>1. ASSUME NEW k \in 1 .. 8 PROVE region[2 + k - 1] = c.timestamp[k]
    <3>1. 2 + k - 1 \in 0 .. SIGNED_REGION_LEN - 1 /\ 2 <= 2 + k - 1 /\ 2 + k - 1 <= 9 /\ 2 + k - 1 - 1 = k
      BY Sizes
    <3> QED BY <1>1, <3>1 DEF Layout
  <2> QED BY <2>1, SliceIs DEF Timestamp
<1>6. IdentityOf(region) = c.identity
  <2>1. ASSUME NEW k \in 1 .. IDENTITY_LEN PROVE region[HEADER_LEN + k - 1] = c.identity[k]
    <3> DEFINE i == HEADER_LEN + k - 1
    <3>1. i \in 0 .. SIGNED_REGION_LEN - 1 /\ 16 <= i /\ i <= 47 /\ i - 15 = k
      BY Sizes
    <3> HIDE DEF i
    <3>2. region[i] = c.identity[k]
      BY <1>1, <3>1 DEF Layout
    <3> QED BY <3>2 DEF i
  <2> QED BY <2>1, SliceIs DEF IdentityOf
<1>7. ASSUME NEW i \in 0 .. PAYLOAD_LEN - 1 PROVE PayloadOf(region)[i] = payload[i]
  <2> DEFINE j == PAYLOAD_OFF + i
  <2>1. PayloadOf(region)[i] = region[j]
    BY DEF PayloadOf
  <2>2. j \in 0 .. SIGNED_REGION_LEN - 1 /\ 48 <= j /\ j - 48 = i
    BY Sizes
  <2> HIDE DEF j
  <2> QED BY <1>1, <2>1, <2>2 DEF Layout
<1>8. HasType(region, c.type)
  <2>1. 1 \in 0 .. SIGNED_REGION_LEN - 1
    BY Sizes
  <2>2. Arms(1)
    BY <1>1, <2>1
  <2> QED BY <2>2 DEF HasType, Layout
<1> QED BY <1>4, <1>5, <1>6, <1>7, <1>8 DEF Holds

\* A region tells its type, as no two types have the same byte.
LEMMA TypesApart ==
  ASSUME NEW region, NEW type, type \in Types, HasType(region, type)
  PROVE  (CHOOSE t \in Types : HasType(region, t)) = type
<1>1. ASSUME NEW t, t \in Types, HasType(region, t) PROVE t = type
  BY <1>1 DEF HasType, Types, TypeByte
<1> QED BY <1>1

\* What is built is read the same, whatever it says.
LEMMA RoundTrip ==
  ASSUME NEW m \in Messages
  PROVE  /\ Encoded(m).region \in [0 .. SIGNED_REGION_LEN - 1 -> Byte]
         /\ Encoded(m) = [region    |-> Encoded(m).region,
                          signature |-> Sign(Content[m].identity, Encoded(m).region)]
         /\ \A frame : frame.region = Encoded(m).region => Read(frame) = Content[m]
<1>c. PICK c : c = Content[m]
  OBVIOUS
<1>p. PICK payload : payload = WritePayload(c.type, c.says)
  OBVIOUS
<1>r. PICK region : region = WriteRegion(c.type, c.timestamp, c.identity, payload)
  OBVIOUS
<1>1. /\ c.type \in Types /\ Fits(c.type, c.says)
      /\ c.timestamp \in Bytes(8) /\ c.identity \in Bytes(IDENTITY_LEN)
  BY <1>c, ContentAssumption
<1>2. c = [x \in {"type", "timestamp", "identity", "says"} |-> c[x]]
  BY <1>c, ContentAssumption
<1>3. Encoded(m) = [region |-> region, signature |-> Sign(c.identity, region)]
  BY <1>c, <1>p, <1>r DEF Encoded, Build
<1>4. payload \in [0 .. PAYLOAD_LEN - 1 -> Byte]
  BY <1>1, <1>p, PayloadBytes
<1>5. /\ region \in [0 .. SIGNED_REGION_LEN - 1 -> Byte]
      /\ HasType(region, c.type)
      /\ Timestamp(region) = c.timestamp
      /\ IdentityOf(region) = c.identity
      /\ \A i \in 0 .. PAYLOAD_LEN - 1 : PayloadOf(region)[i] = payload[i]
  <2>1. Holds(region, c, payload)
    BY <1>1, <1>4, <1>r, RegionBytes
  <2> QED BY <2>1 DEF Holds
<1>6. ReadPayload(c.type, PayloadOf(region)) = c.says
  BY <1>1, <1>p, <1>5, PayloadRoundTrip
<1>7. (CHOOSE t \in Types : HasType(region, t)) = c.type
  BY <1>1, <1>5, TypesApart
<1>8. Encoded(m).region = region /\ Encoded(m).signature = Sign(c.identity, region)
  BY <1>3
<1>9. ASSUME NEW frame, frame.region = region PROVE Read(frame) = c
  <2>1. Read(frame) = [type |-> c.type, timestamp |-> c.timestamp, identity |-> c.identity, says |-> c.says]
    BY <1>5, <1>6, <1>7, <1>9 DEF Read
  <2> QED BY <1>2, <2>1
<1> QED BY <1>3, <1>5, <1>8, <1>9, <1>c

\* Frames that are remembered by the same key are the same.
LEMMA KeysApart ==
  ASSUME NEW f \in Frames, NEW g \in Frames, FrameKey[f] = FrameKey[g]
  PROVE  f = g
<1>0. f \in Messages /\ g \in Messages
  BY DEF Messages
<1>1. ReplayKey(Encoded(f)) = ReplayKey(Encoded(g))
  BY FramesAssumption
<1>2. Encoded(f).signature = Encoded(g).signature
  BY <1>1 DEF ReplayKey
<1>3. /\ Encoded(f).signature = Sign(Content[f].identity, Encoded(f).region)
      /\ Encoded(g).signature = Sign(Content[g].identity, Encoded(g).region)
  BY <1>0, RoundTrip
<1>4. Encoded(f).region = Encoded(g).region
  <2>1. Encoded(f).signature.over = Encoded(f).region /\ Encoded(g).signature.over = Encoded(g).region
    BY <1>3 DEF Sign
  <2> QED BY <1>2, <2>1
<1>5. Read(Encoded(f)) = Content[f] /\ Read(Encoded(f)) = Content[g]
  BY <1>0, <1>4, RoundTrip
<1> QED BY <1>0, <1>5, FramesAssumption

-----------------------------------------------------------------------------
(* What is taken is what was said. *)

\* A change of the signed region does not go unnoticed.
LEMMA ChangedRegionFails ==
  ASSUME NEW m \in Messages, NEW d \in Damages, d # None, d.at < SIGNATURE, NEW key,
         Verify(key, Damaged(Encoded(m), d).region, Damaged(Encoded(m), d).signature)
  PROVE  FALSE
<1> DEFINE region == Encoded(m).region
           changed == [region EXCEPT ![d.at] = (@ + d.by) % 256]
<1>0. d.at \in 0 .. SIGNED_REGION_LEN - 1 /\ d.by \in 1 .. 255
  <2>1. SIGNATURE = SIGNED_REGION_LEN
    BY DEF SIGNATURE
  <2>2. d.at \in 0 .. SEALED /\ d.by \in Changes
    BY DEF Damages
  <2>3. d.by \in 1 .. 255
    BY <2>2, ChangesAssumption, Zenon
  <2> QED BY <2>1, <2>2, <2>3, Sizes DEF SEALED
<1>1. region \in [0 .. SIGNED_REGION_LEN - 1 -> Byte]
  BY RoundTrip
<1>2. Encoded(m) = [region |-> region, signature |-> Sign(Content[m].identity, region)]
  BY RoundTrip
<1> HIDE DEF region
<1>3. Damaged(Encoded(m), d) = [Encoded(m) EXCEPT !.region[d.at] = (@ + d.by) % 256]
  <2>1. d.at # SIGNATURE /\ d.at # SEALED
    BY <1>0, Sizes DEF SIGNATURE, SEALED
  <2> QED BY <2>1, Zenon DEF Damaged
<1>4. /\ Damaged(Encoded(m), d).region = changed
      /\ Damaged(Encoded(m), d).signature = Sign(Content[m].identity, region)
  <2>1. PICK frame : frame = Encoded(m)
    OBVIOUS
  <2>2. PICK after : after = Damaged(Encoded(m), d)
    OBVIOUS
  <2>3. after = [frame EXCEPT !.region[d.at] = (@ + d.by) % 256]
    BY <1>3, <2>1, <2>2
  <2>4. frame = [region |-> region, signature |-> Sign(Content[m].identity, region)]
    BY <1>2, <2>1
  <2>5. after.region = changed /\ after.signature = Sign(Content[m].identity, region)
    BY <2>3, <2>4
  <2> QED BY <2>2, <2>5
<1>5. region = changed
  BY <1>4 DEF Verify, Sign
<1>6. changed[d.at] = (region[d.at] + d.by) % 256
  BY <1>0, <1>1
<1>7. region[d.at] \in 0 .. 255
  BY <1>0, <1>1 DEF Byte
<1>8. region[d.at] = (region[d.at] + d.by) % 256
  BY <1>5, <1>6
<1> HIDE DEF changed
<1>9. \A x \in 0 .. 255, y \in 1 .. 255 : x # (x + y) % 256
  OBVIOUS
<1> QED BY <1>0, <1>7, <1>8, <1>9

LEMMA NothingIsDistorted == Distortions = {}
<1> SUFFICES ASSUME NEW c \in PassingCopies PROVE Read(Opened(c.of, c.damage)) = Content[c.of]
  BY DEF Distortions
<1> DEFINE m == c.of
           d == c.damage
           frame == Damaged(Encoded(m), d)
<1>1. m \in Messages /\ d \in Damages \cup {None} /\ Passes(m, d)
  BY DEF PassingCopies, Copies
<1> HIDE DEF m, d
<1>2. Opened(m, d) = frame
  <2>1. CASE m \in Hellos
    BY <2>1 DEF Opened
  <2>2. CASE m \notin Hellos
    BY <1>1, <2>2 DEF Opened, Open, OnTheWire, Seal, Passes
  <2> QED BY <2>1, <2>2
<1>3. Verify(IdentityOf(frame.region), frame.region, frame.signature)
  BY <1>1, <1>2 DEF Passes, ValidateHello, VerifyFrame
<1>4. frame.region = Encoded(m).region
  <2>1. CASE d = None
    BY <2>1 DEF Damaged
  <2>2. CASE d # None /\ d.at < SIGNATURE
    <3>1. d \in Damages
      BY <1>1, <2>2
    <3> QED BY <1>1, <1>3, <2>2, <3>1, ChangedRegionFails
  <2>3. CASE d # None /\ d.at = SIGNATURE
    <3>1. frame = [Encoded(m) EXCEPT !.signature.key = None]
      BY <2>3, Sizes DEF Damaged, SIGNATURE, SEALED
    <3>2. Encoded(m) = [region    |-> Encoded(m).region,
                        signature |-> Sign(Content[m].identity, Encoded(m).region)]
      BY <1>1, RoundTrip
    <3> QED BY <3>1, <3>2
  <2>4. CASE d # None /\ d.at = SEALED
    BY <2>4, Sizes DEF Damaged, SIGNATURE, SEALED
  <2>5. d # None => d.at < SIGNATURE \/ d.at = SIGNATURE \/ d.at = SEALED
    BY <1>1, Sizes DEF Damages, SIGNATURE, SEALED
  <2> QED BY <2>1, <2>2, <2>3, <2>4, <2>5
<1>5. Read(frame) = Content[m]
  BY <1>1, <1>4, RoundTrip
<1> QED BY <1>2, <1>5 DEF m, d

\* Nothing that is taken reads as anything but what was sent: a change of any byte
\* under the signature or the seal is refused.
THEOREM ReceptionIsFaithful == ReceptionSpec => []HeardIsSaid
<1>1. ReceptionInit => HeardIsSaid
  BY DEF ReceptionInit, HeardIsSaid
<1>2. HeardIsSaid /\ [ReceptionNext]_receptionVars => HeardIsSaid'
  BY NothingIsDistorted
     DEF HeardIsSaid, ReceptionNext, receptionVars, ReceiveHello, ReceiveFrame, RefuseHello, RefuseFrame,
         Understood
<1> QED BY <1>1, <1>2, PTL DEF ReceptionSpec

-----------------------------------------------------------------------------
(* Only what was taken before is called a replay. *)

\* Some HELLO with the nonce was taken.
Known(nonce) == \E h \in Hellos : HelloKey[h] = nonce /\ taken[h] > 0

RememberedIsTaken ==
  /\ \A i \in DOMAIN nonces : Known(nonces[i].nonce)
  /\ \A f \in Frames : FrameKey[f] \in ToSet(seen) => taken[f] > 0

LEMMA RememberedStep ==
  ASSUME TypeOK, RememberedIsTaken, GuardStep
  PROVE  RememberedIsTaken'
<1> USE NumbersAssumption, KindsAssumption
<1>0. nonces \in Seq(Remembered) /\ \A i \in DOMAIN nonces : nonces[i] \in Remembered
  <2>1. nonces \in Seq(Remembered)
    BY DEF TypeOK, Remembered
  <2> QED BY <2>1
<1>1. ASSUME NEW h \in Hellos, NewHello(h) PROVE RememberedIsTaken'
  <2>1. \A m \in Hellos \cup Frames : taken[m] > 0 \/ m = h => taken'[m] > 0
    BY <1>1 DEF NewHello, Take, Smaller, TypeOK
  <2>2. \A i \in DOMAIN nonces' :
          \/ \E j \in DOMAIN nonces : nonces'[i] = nonces[j]
          \/ nonces'[i] = [nonce |-> HelloKey[h], age |-> 0]
    BY <1>1, NewNonce
  <2>3. ASSUME NEW i \in DOMAIN nonces' PROVE \E g \in Hellos : HelloKey[g] = nonces'[i].nonce /\ taken'[g] > 0
    <3>1. CASE nonces'[i] = [nonce |-> HelloKey[h], age |-> 0]
      BY <2>1, <3>1 DEF Known
    <3>2. CASE \E j \in DOMAIN nonces : nonces'[i] = nonces[j]
      <4> PICK j \in DOMAIN nonces : nonces'[i] = nonces[j]
        BY <3>2
      <4> QED BY <2>1 DEF RememberedIsTaken, Known
    <3> QED BY <2>2, <3>1, <3>2
  <2>4. seen' = seen
    BY <1>1 DEF NewHello
  <2> QED BY <2>1, <2>3, <2>4 DEF RememberedIsTaken, Known
<1>2. ASSUME NEW h \in Hellos, ReplayedHello(h) PROVE RememberedIsTaken'
  <2>1. PICK k \in 0 .. Len(nonces) :
          /\ Len(Unexpired) = Len(nonces) - k
          /\ \A i \in 1 .. Len(Unexpired) : Unexpired[i] = nonces[i + k]
    BY <1>0, UnexpiredIsEnd
  <2>2. Unexpired \in Seq(Remembered)
    BY <1>0, UnexpiredIsEnd
  <2>3. ASSUME NEW i \in DOMAIN Unexpired PROVE Known(Unexpired[i].nonce)
    <3>1. i + k \in DOMAIN nonces /\ Unexpired[i] = nonces[i + k]
      BY <1>0, <2>1, <2>2
    <3> QED BY <3>1 DEF RememberedIsTaken
  <2> QED BY <1>2, <2>3 DEF ReplayedHello, RememberedIsTaken, Known
<1>3. ASSUME NEW f \in Frames, NewFrame(f) PROVE RememberedIsTaken'
  <2>1. /\ nonces' = nonces
        /\ \A m \in Hellos \cup Frames : taken[m] > 0 \/ m = f => taken'[m] > 0
    BY <1>3 DEF NewFrame, Take, Smaller, TypeOK
  <2> DEFINE keys == {FrameKey[g] : g \in Frames}
             grown == Append(seen, FrameKey[f])
  <2>2. seen \in Seq(keys) /\ FrameKey[f] \in keys
    BY DEF TypeOK
  <2> HIDE DEF keys
  <2>3. /\ grown \in Seq(keys) /\ Len(grown) = Len(seen) + 1
        /\ \A i \in 1 .. Len(seen) : grown[i] = seen[i]
        /\ grown[Len(seen) + 1] = FrameKey[f]
    BY <2>2, AppendProperties
  <2>4. seen' = Latest(grown, MaxSeen)
    BY <1>3 DEF NewFrame
  <2>n. MaxSeen \in Nat
    OBVIOUS
  <2> HIDE DEF grown
  <2>5. PICK k \in 0 .. Len(grown) : IsEnd(Latest(grown, MaxSeen), grown, k)
    BY <2>3, <2>n, LatestIsEnd
  <2>6. seen' \in Seq(keys)
    BY <2>3, <2>4, <2>n, LatestIsEnd
  <2>7. ASSUME NEW g \in Frames, FrameKey[g] \in ToSet(seen') PROVE taken'[g] > 0
    <3>1. PICK i \in DOMAIN seen' : FrameKey[g] = seen'[i]
      BY <2>7 DEF ToSet
    <3>2. i + k \in 1 .. Len(seen) + 1 /\ FrameKey[g] = grown[i + k]
      BY <2>3, <2>4, <2>5, <2>6, <3>1 DEF IsEnd
    <3>3. CASE i + k = Len(seen) + 1
      BY <2>1, <2>3, <3>2, <3>3, KeysApart
    <3>4. CASE i + k # Len(seen) + 1
      <4>1. i + k \in DOMAIN seen /\ FrameKey[g] = seen[i + k]
        BY <2>2, <2>3, <3>2, <3>4
      <4>2. FrameKey[g] \in ToSet(seen)
        BY <4>1 DEF ToSet
      <4> QED BY <2>1, <4>2 DEF RememberedIsTaken
    <3> QED BY <3>3, <3>4
  <2>8. \A i \in DOMAIN nonces : \E g \in Hellos : HelloKey[g] = nonces[i].nonce /\ taken'[g] > 0
    BY <2>1 DEF RememberedIsTaken, Known
  <2> QED BY <2>1, <2>7, <2>8 DEF RememberedIsTaken, Known
<1>4. CASE struck' \in BOOLEAN /\ UNCHANGED <<lead, nonces, seen, taken>>
  BY <1>4 DEF RememberedIsTaken, Known
<1>5. CASE Tick
  <2>1. /\ DOMAIN nonces' = DOMAIN nonces /\ taken' = taken /\ seen' = seen
        /\ \A i \in DOMAIN nonces :
             nonces'[i] = IF Expired(nonces[i]) THEN nonces[i] ELSE [nonces[i] EXCEPT !.age = @ + 1]
    BY <1>0, <1>5 DEF Tick
  <2>2. \A i \in DOMAIN nonces : nonces'[i].nonce = nonces[i].nonce
    BY <1>0, <2>1 DEF Remembered
  <2> QED BY <2>1, <2>2 DEF RememberedIsTaken, Known
<1> QED BY <1>1, <1>2, <1>3, <1>4, <1>5 DEF GuardStep

\* Nobody is closed or struck for a replay of what never came: each nonce that is
\* remembered is that of a HELLO that was taken, and each key that of a frame that was
\* taken, and of no other frame.
THEOREM OnlyTakenIsReplayed == ReceptionSpec => []ReplaysAreReplays
<1> DEFINE IInv == TypeOK /\ RememberedIsTaken
<1>1. ReceptionInit => IInv
  <2> SUFFICES ASSUME ReceptionInit PROVE IInv
    OBVIOUS
  <2>0. Init
    BY DEF ReceptionInit
  <2>1. TypeOK /\ nonces = <<>> /\ seen = <<>>
    BY <2>0, InitTypes DEF Init
  <2>2. ToSet(seen) = {}
    BY <2>1 DEF ToSet
  <2> QED BY <2>1, <2>2 DEF RememberedIsTaken
<1>2. IInv /\ [ReceptionNext]_receptionVars => IInv'
  BY GuardSteps, StepTypes, RememberedStep
<1>3. IInv => ReplaysAreReplays
  <2> SUFFICES ASSUME IInv, NEW h \in Hellos, NonceSeen(h) PROVE Known(HelloKey[h])
    BY DEF RememberedIsTaken, ReplaysAreReplays, Known
  <2>0. nonces \in Seq(Remembered)
    BY DEF TypeOK, Remembered
  <2>1. PICK k \in 0 .. Len(nonces) :
          /\ Len(Unexpired) = Len(nonces) - k
          /\ \A i \in 1 .. Len(Unexpired) : Unexpired[i] = nonces[i + k]
    BY <2>0, UnexpiredIsEnd
  <2>2. Unexpired \in Seq(Remembered)
    BY <2>0, UnexpiredIsEnd
  <2>3. PICK i \in DOMAIN Unexpired : Unexpired[i].nonce = HelloKey[h]
    BY DEF NonceSeen, ToSet
  <2>4. i + k \in DOMAIN nonces /\ nonces[i + k].nonce = HelloKey[h]
    BY <2>0, <2>1, <2>2, <2>3
  <2> QED BY <2>4 DEF RememberedIsTaken
<1> QED BY <1>1, <1>2, <1>3, PTL DEF ReceptionSpec
=============================================================================
