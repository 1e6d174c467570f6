------------------------- MODULE FederationLimitsProofs -------------------------
(***************************************************************************)
(* Proofs about what a node remembers of those that send too much, for any *)
(* number of peers and IPs and whatever the limits are: how many strikes   *)
(* it keeps, that its list of bans is one, and that a hard quarantine on   *)
(* record keeps its IP out for as long as it should.                       *)
(***************************************************************************)
EXTENDS FederationLimits, AgedListsProofs

-----------------------------------------------------------------------------
(* What is remembered has its type. *)

LEMMA Numbers ==
  /\ FrameBurst \in Nat /\ FrameCap \in Nat /\ StrikeWindow \in Nat
  /\ SoftThreshold \in Nat \ {0} /\ HardThreshold \in Nat /\ SoftThreshold < HardThreshold
  /\ SoftQuarantine \in Nat /\ HardQuarantine \in Nat \ {0} /\ HardHistory \in Nat
  /\ HardLimit \in Nat \ {0} /\ PersistentBan \in Nat /\ HardQuarantine <= PersistentBan
  /\ BanListMax \in Nat \ {0}
BY LimitsAssumption

LEMMA RecentIsEnd ==
  ASSUME NEW S, NEW ages \in Seq(S), NEW window
  PROVE  /\ Recent(ages, window) \in Seq(S)
         /\ \E k \in 0 .. Len(ages) : IsEnd(Recent(ages, window), ages, k)
<1> DEFINE places == {i \in DOMAIN ages : ages[i] <= window}
<1>1. places \in SUBSET (1 .. Len(ages)) /\ Recent(ages, window) = FromFirst(ages, places)
  BY DEF Recent
<1> HIDE DEF places
<1> QED BY <1>1, FromFirstIsEnd

StrikeAges == 0 .. StrikeWindow + 1
RecordAges == 0 .. HardHistory + 1

LEMMA StateType ==
  ASSUME TypeOK, NEW p \in Peers
  PROVE  /\ StateOf(p) \in PeerStates
         /\ limiter[p] # None => /\ StateOf(p).hardLeft = limiter[p].hardLeft
                                 /\ Len(StateOf(p).strikes) <= Len(limiter[p].strikes)
         /\ limiter[p] = None => StateOf(p).hardLeft = 0 /\ Len(StateOf(p).strikes) = 0
<1> PICK s : s = IF limiter[p] = None THEN FreshState ELSE limiter[p]
  OBVIOUS
<1>0. StateOf(p) = [s EXCEPT !.strikes = Recent(s.strikes, StrikeWindow)]
  BY DEF StateOf
<1>1. FreshState \in PeerStates /\ FreshState.strikes = <<>> /\ FreshState.hardLeft = 0
  <2>1. /\ FrameBurst \in 0 .. FrameBurst /\ <<>> \in Seq(0 .. StrikeWindow + 1)
        /\ 0 \in 0 .. SoftQuarantine /\ 0 \in 0 .. HardQuarantine
    BY LimitsAssumption
  <2> QED BY <2>1 DEF FreshState, PeerStates
<1>2. s \in PeerStates
  BY <1>1 DEF TypeOK
<1>3. s.strikes \in Seq(StrikeAges)
  BY <1>2 DEF PeerStates, StrikeAges
<1>4. /\ Recent(s.strikes, StrikeWindow) \in Seq(StrikeAges)
      /\ Len(Recent(s.strikes, StrikeWindow)) <= Len(s.strikes)
  BY <1>3, RecentIsEnd DEF IsEnd
<1>5. StateOf(p) \in PeerStates
  BY <1>0, <1>2, <1>4 DEF PeerStates, StrikeAges
<1>6. /\ StateOf(p).hardLeft = s.hardLeft
      /\ StateOf(p).strikes = Recent(s.strikes, StrikeWindow)
  BY <1>0, <1>2 DEF PeerStates
<1>7. Len(StateOf(p).strikes) \in Nat /\ Len(<<>>) = 0
  BY <1>4, <1>6
<1> QED BY <1>1, <1>4, <1>5, <1>6, <1>7

LEMMA RecordType ==
  ASSUME TypeOK, NEW ip \in Ips
  PROVE  /\ HardRecord(ip) \in Seq(RecordAges)
         /\ Append(HardRecord(ip), 0) \in Seq(RecordAges)
         /\ \E k \in 0 .. Len(hardByIp[ip]) : IsEnd(HardRecord(ip), hardByIp[ip], k)
<1>1. hardByIp[ip] \in Seq(RecordAges)
  BY DEF TypeOK, RecordAges
<1>2. 0 \in RecordAges
  BY LimitsAssumption DEF RecordAges
<1>3. HardRecord(ip) \in Seq(RecordAges)
  BY <1>1, RecentIsEnd DEF HardRecord
<1> QED BY <1>1, <1>2, <1>3, RecentIsEnd, AppendProperties DEF HardRecord

LEMMA StruckType ==
  ASSUME NEW s \in PeerStates
  PROVE  /\ Struck(s) \in PeerStates
         /\ Struck(s).hardLeft = s.hardLeft
         /\ Len(Struck(s).strikes) = Len(s.strikes) + 1
<1>1. s.strikes \in Seq(StrikeAges) /\ s.softLeft \in 0 .. SoftQuarantine
  BY DEF PeerStates, StrikeAges
<1>2. 0 \in StrikeAges /\ SoftQuarantine \in 0 .. SoftQuarantine
  BY LimitsAssumption DEF StrikeAges
<1>3. Append(s.strikes, 0) \in Seq(StrikeAges) /\ Len(Append(s.strikes, 0)) = Len(s.strikes) + 1
  BY <1>1, <1>2, AppendProperties
<1> DEFINE soft == IF ComesToSoft(s) /\ ~ComesToHard(s) THEN SoftQuarantine ELSE s.softLeft
<1>4. soft \in 0 .. SoftQuarantine
  BY <1>1, <1>2
<1>5. Struck(s) = [s EXCEPT !.strikes = Append(s.strikes, 0), !.softLeft = soft]
  BY DEF Struck
<1> HIDE DEF soft
<1> QED BY <1>3, <1>4, <1>5 DEF PeerStates, StrikeAges

-----------------------------------------------------------------------------
(* The list of bans. *)

Homes == {ipOf[p] : p \in Peers} \ {None}

\* Only IPs of peers are banned.
ListedAreHomes == \A i \in DOMAIN banOrder : banOrder[i] \in Homes
Listed == BanListIsSound /\ ListedAreHomes

\* Whether the list has room for everyone.
Room == IsFiniteSet(Peers) /\ Cardinality(Homes) <= BanListMax

LEMMA HomesFit ==
  ASSUME TypeOK, Room, NEW order \in Seq(Ips), IsInjective(order),
         \A i \in DOMAIN order : order[i] \in Homes
  PROVE  Len(order) <= BanListMax
<1>1. IsFiniteSet({ipOf[p] : p \in Peers})
  <2>1. ipOf \in [Peers -> Ips \cup {None}]
    BY IpsAssumption DEF TypeOK
  <2>2. ipOf \in [Peers -> {ipOf[p] : p \in Peers}]
    BY <2>1
  <2>3. ipOf \in Surjection(Peers, {ipOf[p] : p \in Peers})
    BY <2>2 DEF Surjection
  <2> QED BY <2>3, FS_Surjection DEF Room
<1>2. IsFiniteSet(Homes) /\ Cardinality(Homes) \in Nat
  BY <1>1, FS_RemoveElement, FS_CardinalityType DEF Homes
<1>3. IsFiniteSet(1 .. Len(order)) /\ Cardinality(1 .. Len(order)) = Len(order)
  <2>1. Len(order) \in Nat /\ Len(order) \in Int /\ 1 \in Int
    OBVIOUS
  <2>2. /\ IsFiniteSet(1 .. Len(order))
        /\ Cardinality(1 .. Len(order)) = IF 1 > Len(order) THEN 0 ELSE Len(order) - 1 + 1
    BY <2>1, FS_Interval
  <2> QED BY <2>1, <2>2
<1>4. order \in [1 .. Len(order) -> Homes]
  OBVIOUS
<1>5. ~(Cardinality(Homes) < Cardinality(1 .. Len(order)))
  <2> SUFFICES ASSUME Cardinality(Homes) < Cardinality(1 .. Len(order)) PROVE FALSE
    OBVIOUS
  <2>1. \E i, j \in 1 .. Len(order) : i # j /\ order[i] = order[j]
    BY <1>2, <1>3, <1>4, FS_PigeonHole
  <2> QED BY <2>1 DEF IsInjective
<1> QED BY <1>2, <1>3, <1>5, LimitsAssumption DEF Room

\* A new ban keeps the list sound; and where there is room it takes nothing away
\* from the bans there are.
LEMMA BanKeeps ==
  ASSUME TypeOK, Listed, NEW ip \in Ips, ip \in Homes, NEW time \in 0 .. PersistentBan,
         ipOf' = ipOf, Ban(ip, time)
  PROVE  /\ banOrder' \in Seq(Ips) /\ banLeft' \in [Ips -> 0 .. PersistentBan]
         /\ Listed'
         /\ Room => banLeft'[ip] >= time /\ \A i \in Ips : banLeft'[i] >= banLeft[i]
<1> PICK order : order = IF ip \in ToSet(banOrder) THEN banOrder ELSE Append(banOrder, ip)
  OBVIOUS
<1> PICK left : left = [banLeft EXCEPT ![ip] = Larger(@, time)]
  OBVIOUS
<1> PICK surplus : surplus = Larger(Len(order) - BanListMax, 0)
  OBVIOUS
<1> PICK evicted : evicted = {order[i] : i \in 1 .. surplus}
  OBVIOUS
<1>1. /\ banOrder' = SubSeq(order, surplus + 1, Len(order))
      /\ banLeft' = [i \in Ips |-> IF i \in evicted THEN 0 ELSE left[i]]
  BY DEF Ban
<1>2. banOrder \in Seq(Ips) /\ banLeft \in [Ips -> 0 .. PersistentBan]
  BY DEF TypeOK
<1>3. /\ order \in Seq(Ips) /\ IsInjective(order)
      /\ \A i \in DOMAIN order : order[i] \in Homes
      /\ \A i \in Ips : i = ip \/ banLeft[i] > 0 => \E j \in DOMAIN order : order[j] = i
  <2>1. CASE ip \in ToSet(banOrder)
    BY <1>2, <2>1 DEF Listed, BanListIsSound, ListedAreHomes, ToSet
  <2>2. CASE ip \notin ToSet(banOrder)
    <3>1. /\ order \in Seq(Ips) /\ Len(order) = Len(banOrder) + 1
          /\ \A i \in 1 .. Len(banOrder) : order[i] = banOrder[i]
          /\ order[Len(banOrder) + 1] = ip
      BY <1>2, <2>2, AppendProperties
    <3>2. \A i \in DOMAIN order : i \in DOMAIN banOrder \/ i = Len(banOrder) + 1
      BY <1>2, <3>1
    <3>3. \A i \in DOMAIN banOrder : banOrder[i] # ip /\ banOrder[i] \in Homes
      BY <2>2 DEF ToSet, Listed, ListedAreHomes
    <3>4. IsInjective(order)
      BY <1>2, <3>1, <3>2, <3>3 DEF IsInjective, Listed, BanListIsSound
    <3>5. \A i \in DOMAIN order : order[i] \in Homes
      BY <1>2, <3>1, <3>2, <3>3
    <3>6. ASSUME NEW i \in Ips, i = ip \/ banLeft[i] > 0 PROVE \E j \in DOMAIN order : order[j] = i
      <4>1. CASE i = ip
        BY <1>2, <3>1, <4>1
      <4>2. CASE banLeft[i] > 0
        <5>1. PICK j \in DOMAIN banOrder : banOrder[j] = i
          BY <4>2 DEF Listed, BanListIsSound, ToSet
        <5>2. j \in 1 .. Len(banOrder) /\ j \in DOMAIN order
          BY <1>2, <3>1, <5>1
        <5> QED BY <3>1, <5>1, <5>2
      <4> QED BY <3>6, <4>1, <4>2
    <3> QED BY <3>1, <3>4, <3>5, <3>6
  <2> QED BY <2>1, <2>2
<1>4. /\ left \in [Ips -> 0 .. PersistentBan]
      /\ left[ip] >= time /\ \A i \in Ips : left[i] >= banLeft[i]
      /\ \A i \in Ips : left[i] > 0 => i = ip \/ banLeft[i] > 0
  BY <1>2, Numbers DEF Larger
<1>5. /\ Len(order) \in Nat /\ surplus \in 0 .. Len(order)
      /\ Len(order) - surplus <= BanListMax
      /\ Len(order) <= BanListMax => surplus = 0
  <2>1. Len(order) \in Nat /\ BanListMax \in Nat
    BY <1>3, Numbers
  <2>2. surplus = IF Len(order) - BanListMax > 0 THEN Len(order) - BanListMax ELSE 0
    BY DEF Larger
  <2> QED BY <2>1, <2>2
<1>7. /\ banOrder' \in Seq(Ips) /\ Len(banOrder') = Len(order) - surplus
      /\ \A i \in 1 .. Len(order) - surplus : banOrder'[i] = order[i + surplus]
  <2>1. order \in Seq(Ips)
    BY <1>3
  <2>2. banOrder' \in Seq(Ips) /\ IsEnd(banOrder', order, surplus)
    BY <1>1, <1>5, <2>1, SuffixIsEnd
  <2> QED BY <2>1, <2>2 DEF IsEnd
<1>8. banLeft' \in [Ips -> 0 .. PersistentBan]
  <2>1. 0 \in 0 .. PersistentBan
    BY Numbers
  <2> QED BY <1>1, <1>4, <2>1, Zenon
<1>9. IsInjective(banOrder')
  <2> SUFFICES ASSUME NEW i \in 1 .. Len(order) - surplus, NEW j \in 1 .. Len(order) - surplus,
                      banOrder'[i] = banOrder'[j]
               PROVE  i = j
    BY <1>7 DEF IsInjective
  <2>1. i + surplus \in DOMAIN order /\ j + surplus \in DOMAIN order
    BY <1>3, <1>5
  <2>2. order[i + surplus] = order[j + surplus]
    BY <1>7
  <2>3. i + surplus = j + surplus
    BY <1>3, <2>1, <2>2 DEF IsInjective
  <2> QED BY <1>5, <2>3
<1>10. \A i \in DOMAIN banOrder' : banOrder'[i] \in Homes
  <2> SUFFICES ASSUME NEW i \in 1 .. Len(order) - surplus PROVE banOrder'[i] \in Homes
    BY <1>7
  <2>1. i + surplus \in DOMAIN order
    BY <1>3, <1>5
  <2> QED BY <1>3, <1>7, <2>1
<1>11. ASSUME NEW i \in Ips, banLeft'[i] > 0 PROVE i \in ToSet(banOrder')
  <2>1. banLeft'[i] = IF i \in evicted THEN 0 ELSE left[i]
    BY <1>1
  <2>2. i \notin evicted /\ left[i] > 0
    <3>1. i \in evicted => banLeft'[i] = 0
      BY <2>1
    <3>2. ~(0 > 0)
      OBVIOUS
    <3>3. i \notin evicted
      BY <1>11, <3>1, <3>2
    <3> QED BY <1>11, <2>1, <3>3
  <2>3. PICK j \in DOMAIN order : order[j] = i
    BY <1>3, <1>4, <2>2
  <2>4. j \notin 1 .. surplus
    BY <2>2, <2>3
  <2>5. j - surplus \in 1 .. Len(order) - surplus /\ (j - surplus) + surplus = j
    BY <1>3, <1>5, <2>3, <2>4
  <2>6. j - surplus \in DOMAIN banOrder' /\ banOrder'[j - surplus] = i
    BY <1>7, <2>3, <2>5
  <2> QED BY <2>6 DEF ToSet
<1>12. Homes' = Homes
  BY DEF Homes
<1>13. Listed'
  BY <1>5, <1>7, <1>9, <1>10, <1>11, <1>12 DEF Listed, BanListIsSound, ListedAreHomes
<1>14. ASSUME Room PROVE banLeft'[ip] >= time /\ \A i \in Ips : banLeft'[i] >= banLeft[i]
  <2>1. surplus = 0
    BY <1>3, <1>5, <1>14, HomesFit
  <2>2. evicted = {}
    BY <2>1
  <2> QED BY <1>1, <1>4, <2>2
<1> QED BY <1>7, <1>8, <1>13, <1>14

-----------------------------------------------------------------------------
(* What each kind of step does to what is remembered. *)

\* A peer the limiter knows is in no hard quarantine, for that has been forgotten,
\* and has fewer strikes than make one.
Bounded == \A p \in Peers :
  limiter[p] # None => limiter[p].hardLeft = 0 /\ Len(limiter[p].strikes) < HardThreshold

\* How long the hard quarantine at place i of a record keeps its IP out.
Term(i) == IF i >= HardLimit THEN PersistentBan ELSE HardQuarantine

KeptOut == \A ip \in Ips : \A i \in DOMAIN hardByIp[ip] :
  hardByIp[ip][i] <= HardHistory => banLeft[ip] >= Term(i) - hardByIp[ip][i]

\* The limiter's part of TypeOK, and the ban list's.
LimitsOK ==
  /\ limiter \in [Peers -> PeerStates \cup {None}]
  /\ hardByIp \in [Ips -> Seq(RecordAges)]
BansOK == banOrder \in Seq(Ips) /\ banLeft \in [Ips -> 0 .. PersistentBan]

LEMMA TypeParts ==
  TypeOK <=> /\ LimitsOK /\ BansOK /\ ipOf \in Origins
             /\ link \in [Peers -> {"none", "handshake", "open", "closing"}]
             /\ announcer \in Peers \cup {None} /\ sentence \in [Peers -> 0 .. HardQuarantine]
BY DEF TypeOK, LimitsOK, BansOK, RecordAges

LEMMA HomeType ==
  ASSUME TypeOK, NEW p \in Peers
  PROVE  /\ ipOf[p] \in Ips \cup {None}
         /\ ipOf[p] # None => ipOf[p] \in Ips /\ ipOf[p] \in Homes
BY IpsAssumption DEF TypeOK, Homes

\* The place of what is on record only shifts down as a record is pruned, and the
\* term that goes with it does not grow.
LEMMA TermGrows ==
  ASSUME NEW i \in Nat, NEW k \in Nat
  PROVE  Term(i) \in Int /\ Term(i) <= Term(i + k)
BY Numbers DEF Term

\* If every record loses nothing but its front, and no ban is cut short, whoever was
\* kept out still is.
LEMMA PruningKeepsOut ==
  ASSUME TypeOK, KeptOut, NEW ip \in Ips, NEW record \in Seq(RecordAges), NEW left \in Nat,
         \E k \in 0 .. Len(hardByIp[ip]) : IsEnd(record, hardByIp[ip], k),
         left >= banLeft[ip]
  PROVE  \A i \in DOMAIN record : record[i] <= HardHistory => left >= Term(i) - record[i]
<1>1. PICK k \in 0 .. Len(hardByIp[ip]) : IsEnd(record, hardByIp[ip], k)
  OBVIOUS
<1>2. hardByIp[ip] \in Seq(RecordAges) /\ banLeft[ip] \in Nat
  BY DEF TypeOK, RecordAges
<1> SUFFICES ASSUME NEW i \in 1 .. Len(record), record[i] <= HardHistory
             PROVE  left >= Term(i) - record[i]
  OBVIOUS
<1>3. i + k \in DOMAIN hardByIp[ip] /\ record[i] = hardByIp[ip][i + k]
  <2>1. /\ Len(record) = Len(hardByIp[ip]) - k
        /\ \A j \in 1 .. Len(record) : record[j] = hardByIp[ip][j + k]
    BY <1>1 DEF IsEnd
  <2>2. Len(record) \in Nat /\ Len(hardByIp[ip]) \in Nat
    BY <1>2
  <2>3. i + k \in 1 .. Len(hardByIp[ip])
    BY <2>1, <2>2
  <2> QED BY <1>2, <2>1, <2>3
<1>4. banLeft[ip] >= Term(i + k) - record[i]
  BY <1>3 DEF KeptOut
<1>5. Term(i) <= Term(i + k) /\ Term(i) \in Int /\ Term(i + k) \in Int
  <2>1. i \in Nat /\ k \in Nat /\ i + k \in Nat /\ 0 \in Nat
    BY <1>1, <1>2
  <2> QED BY <2>1, TermGrows
<1>6. record[i] \in Int
  BY Numbers DEF RecordAges
<1> QED BY <1>2, <1>4, <1>5, <1>6

\* What a step shows that leaves the sessions' types to its action: Remembered is
\* everything about the limiter, its records and the list of bans.
Remembered == LimitsOK /\ BansOK /\ Bounded /\ Listed /\ (Room => KeptOut)

LEMMA SamePlaces ==
  ASSUME ipOf' = ipOf
  PROVE  Homes' = Homes /\ Room' = Room
BY DEF Homes, Room

\* A charge, or a strike without consequence.
LEMMA KeepRemembers ==
  ASSUME TypeOK, Remembered, NEW p \in Peers, NEW s \in PeerStates, s.hardLeft = 0,
         Len(s.strikes) < HardThreshold, Keep(p, s), ipOf' = ipOf
  PROVE  Remembered'
<1>1. /\ limiter' = [limiter EXCEPT ![p] = s]
      /\ banOrder' = banOrder /\ banLeft' = banLeft
      /\ hardByIp' = IF ipOf[p] = None THEN hardByIp
                     ELSE [hardByIp EXCEPT ![ipOf[p]] = HardRecord(ipOf[p])]
  BY DEF Keep, bans
<1>2. ipOf[p] \in Ips \cup {None}
  BY HomeType
<1>3. limiter \in [Peers -> PeerStates \cup {None}] /\ hardByIp \in [Ips -> Seq(RecordAges)]
  BY DEF Remembered, LimitsOK
<1>4. limiter' \in [Peers -> PeerStates \cup {None}] /\ Bounded'
  BY <1>1, <1>3 DEF Remembered, Bounded
<1>5. \A ip \in Ips : \/ hardByIp'[ip] = hardByIp[ip]
                      \/ hardByIp'[ip] = HardRecord(ip)
  BY <1>1, <1>2, <1>3
<1>6. hardByIp' \in [Ips -> Seq(RecordAges)]
  BY <1>1, <1>2, <1>3, RecordType
<1>7. BansOK' /\ Listed'
  BY <1>1, SamePlaces DEF Remembered, BansOK, Listed, ListedAreHomes, BanListIsSound
<1>8. ASSUME Room PROVE KeptOut'
  <2> SUFFICES ASSUME NEW ip \in Ips, NEW i \in DOMAIN hardByIp'[ip], hardByIp'[ip][i] <= HardHistory
               PROVE  banLeft'[ip] >= Term(i) - hardByIp'[ip][i]
    BY DEF KeptOut, Term
  <2>1. KeptOut /\ banLeft[ip] \in Nat /\ banLeft[ip] >= banLeft[ip]
    BY <1>8 DEF Remembered, BansOK
  <2>2. CASE hardByIp'[ip] = hardByIp[ip]
    BY <1>1, <2>1, <2>2 DEF KeptOut
  <2>3. CASE hardByIp'[ip] = HardRecord(ip)
    BY <1>1, <2>1, <2>3, RecordType, PruningKeepsOut
  <2> QED BY <1>5, <2>2, <2>3
<1> QED BY <1>4, <1>6, <1>7, <1>8, SamePlaces DEF Remembered, LimitsOK

\* A hard quarantine: what is new on the record is served by the new ban, what was
\* on it by the bans there were.
LEMMA GoHardRemembers ==
  ASSUME TypeOK, Remembered, NEW p \in Peers, GoHard(p), ipOf' = ipOf
  PROVE  Remembered'
<1>1. limiter' = [limiter EXCEPT ![p] = None]
  BY DEF GoHard, Terminate
<1>2. limiter' \in [Peers -> PeerStates \cup {None}] /\ Bounded'
  BY <1>1 DEF Remembered, LimitsOK, Bounded
<1>3. hardByIp \in [Ips -> Seq(RecordAges)] /\ BansOK
  BY DEF Remembered, LimitsOK
<1>4. CASE ipOf[p] = None
  <2>1. hardByIp' = hardByIp /\ banOrder' = banOrder /\ banLeft' = banLeft
    BY <1>4 DEF GoHard, bans
  <2>2. BansOK' /\ Listed' /\ (Room => KeptOut')
    BY <2>1, SamePlaces
    DEF Remembered, BansOK, Listed, ListedAreHomes, BanListIsSound, KeptOut
  <2> QED BY <1>2, <1>3, <2>1, <2>2, SamePlaces DEF Remembered, LimitsOK
<1>5. CASE ipOf[p] # None
  <2> PICK home \in Ips : home = ipOf[p] /\ home \in Homes
    BY <1>5, HomeType
  <2> PICK record : record = HardRecord(home)
    OBVIOUS
  <2> PICK time : time = IF Len(record) + 1 >= HardLimit THEN PersistentBan ELSE HardQuarantine
    OBVIOUS
  <2>1. hardByIp' = [hardByIp EXCEPT ![home] = Append(record, 0)] /\ Ban(home, time)
    BY <1>5 DEF GoHard
  <2>2. /\ record \in Seq(RecordAges) /\ Append(record, 0) \in Seq(RecordAges)
        /\ \E k \in 0 .. Len(hardByIp[home]) : IsEnd(record, hardByIp[home], k)
    BY RecordType
  <2>3. hardByIp' \in [Ips -> Seq(RecordAges)]
    BY <1>3, <2>1, <2>2
  <2>4. time = Term(Len(record) + 1) /\ time \in 0 .. PersistentBan
    BY Numbers DEF Term
  <2>5. /\ BansOK' /\ Listed'
        /\ Room => banLeft'[home] >= time /\ \A i \in Ips : banLeft'[i] >= banLeft[i]
    BY <2>1, <2>4, BanKeeps DEF Remembered, BansOK
  <2>6. ASSUME Room PROVE KeptOut'
    <3> SUFFICES ASSUME NEW ip \in Ips, NEW i \in DOMAIN hardByIp'[ip], hardByIp'[ip][i] <= HardHistory
                 PROVE  banLeft'[ip] >= Term(i) - hardByIp'[ip][i]
      BY DEF KeptOut, Term
    <3>1. KeptOut /\ banLeft'[ip] \in Nat /\ banLeft'[ip] >= banLeft[ip] /\ banLeft'[home] >= time
      BY <2>5, <2>6 DEF Remembered, BansOK
    <3>2. CASE ip # home
      <4>1. hardByIp'[ip] = hardByIp[ip] /\ hardByIp[ip] \in Seq(RecordAges)
        BY <1>3, <2>1, <3>2
      <4>2. IsEnd(hardByIp[ip], hardByIp[ip], 0) /\ 0 \in 0 .. Len(hardByIp[ip])
        BY <4>1 DEF IsEnd
      <4>3. \E k \in 0 .. Len(hardByIp[ip]) : IsEnd(hardByIp[ip], hardByIp[ip], k)
        BY <4>2
      <4> QED BY <3>1, <4>1, <4>3, PruningKeepsOut
    <3>3. CASE ip = home
      <4>1. hardByIp'[ip] = Append(record, 0)
        BY <1>3, <2>1, <3>3
      <4>2. /\ i \in 1 .. Len(record) => i \in DOMAIN record /\ Append(record, 0)[i] = record[i]
            /\ i \in 1 .. Len(record) \/ i = Len(record) + 1
            /\ Append(record, 0)[Len(record) + 1] = 0
        BY <2>2, <4>1, AppendProperties
      <4>3. CASE i \in 1 .. Len(record)
        <5>1. record[i] <= HardHistory /\ hardByIp'[ip][i] = record[i] /\ i \in DOMAIN record
          BY <4>1, <4>2, <4>3
        <5> QED BY <2>2, <3>1, <3>3, <5>1, PruningKeepsOut
      <4>4. CASE i = Len(record) + 1
        <5>1. hardByIp'[ip][i] = 0 /\ Term(i) = time /\ time \in Nat
          BY <2>4, <4>1, <4>2, <4>4, Numbers
        <5> QED BY <3>1, <3>3, <5>1
      <4> QED BY <4>2, <4>3, <4>4
    <3> QED BY <3>2, <3>3
  <2> QED BY <1>2, <2>3, <2>5, <2>6, SamePlaces DEF Remembered, LimitsOK
<1> QED BY <1>4, <1>5

\* A contradiction: the peer is forgotten, the ban on top of those there are.
LEMMA EquivocatesRemembers ==
  ASSUME TypeOK, Remembered, NEW p \in Peers, Equivocates(p), ipOf' = ipOf
  PROVE  Remembered'
<1>1. /\ limiter' = [limiter EXCEPT ![p] = None]
      /\ hardByIp' = IF ipOf[p] = None THEN hardByIp
                     ELSE [hardByIp EXCEPT ![ipOf[p]] = HardRecord(ipOf[p])]
  BY DEF Equivocates, Terminate
<1>2. limiter' \in [Peers -> PeerStates \cup {None}] /\ Bounded'
  BY <1>1 DEF Remembered, LimitsOK, Bounded
<1>3. hardByIp \in [Ips -> Seq(RecordAges)] /\ BansOK /\ ipOf[p] \in Ips \cup {None}
  BY HomeType DEF Remembered, LimitsOK
<1>4. hardByIp' \in [Ips -> Seq(RecordAges)]
  BY <1>1, <1>3, RecordType
<1>5. \A ip \in Ips : \/ hardByIp'[ip] = hardByIp[ip]
                      \/ hardByIp'[ip] = HardRecord(ip)
  BY <1>1, <1>3
<1>6. /\ BansOK' /\ Listed'
      /\ Room => \A i \in Ips : banLeft'[i] >= banLeft[i]
  <2>1. CASE ipOf[p] = None
    <3>1. banOrder' = banOrder /\ banLeft' = banLeft
      BY <2>1 DEF Equivocates, bans
    <3> QED BY <3>1, <1>3, SamePlaces
            DEF Remembered, BansOK, Listed, ListedAreHomes, BanListIsSound
  <2>2. CASE ipOf[p] # None
    <3>1. Ban(ipOf[p], HardQuarantine) /\ ipOf[p] \in Ips /\ ipOf[p] \in Homes
      BY <2>2, HomeType DEF Equivocates
    <3>2. HardQuarantine \in 0 .. PersistentBan
      BY Numbers
    <3> QED BY <3>1, <3>2, BanKeeps DEF Remembered, BansOK
  <2> QED BY <2>1, <2>2
<1>7. ASSUME Room PROVE KeptOut'
  <2> SUFFICES ASSUME NEW ip \in Ips, NEW i \in DOMAIN hardByIp'[ip], hardByIp'[ip][i] <= HardHistory
               PROVE  banLeft'[ip] >= Term(i) - hardByIp'[ip][i]
    BY DEF KeptOut, Term
  <2>1. KeptOut /\ banLeft'[ip] \in Nat /\ banLeft'[ip] >= banLeft[ip]
    BY <1>6, <1>7 DEF Remembered, BansOK
  <2>2. CASE hardByIp'[ip] = hardByIp[ip]
    <3>1. IsEnd(hardByIp[ip], hardByIp[ip], 0) /\ 0 \in 0 .. Len(hardByIp[ip])
      BY <1>3 DEF IsEnd
    <3>2. \E k \in 0 .. Len(hardByIp[ip]) : IsEnd(hardByIp[ip], hardByIp[ip], k)
      BY <3>1
    <3> QED BY <1>3, <2>1, <2>2, <3>2, PruningKeepsOut
  <2>3. CASE hardByIp'[ip] = HardRecord(ip)
    BY <2>1, <2>3, RecordType, PruningKeepsOut
  <2> QED BY <1>5, <2>2, <2>3
<1> QED BY <1>2, <1>4, <1>6, <1>7, SamePlaces DEF Remembered, LimitsOK

\* A new session: the entry that leaves the list is of a ban that is over.
LEMMA ConnectRemembers ==
  ASSUME TypeOK, Remembered, NEW p \in Peers, Connect(p), ipOf' = ipOf
  PROVE  Remembered'
<1> PICK places : places = {i \in DOMAIN banOrder : banOrder[i] = ipOf[p]}
  OBVIOUS
<1>1. /\ limiter' = limiter /\ hardByIp' = hardByIp /\ banLeft' = banLeft
      /\ banOrder' = Deleted(banOrder, places)
      /\ ~IsBanned(ipOf[p])
  BY DEF Connect, limits
<1>2. /\ banOrder \in Seq(Ips) /\ banLeft \in [Ips -> 0 .. PersistentBan]
      /\ places \in SUBSET (1 .. Len(banOrder))
  BY DEF Remembered, BansOK
<1>3. banOrder' \in Seq(Ips)
  BY <1>1, <1>2, DeletedIsRest
<1>4. BanListIsSound /\ ListedAreHomes
  BY DEF Remembered, Listed
<1>5. /\ IsInjective(banOrder') /\ Len(banOrder') <= BanListMax
      /\ \A i \in DOMAIN banOrder' : banOrder'[i] \in Homes
      /\ \A ip \in Ips : banLeft[ip] > 0 => ip \in ToSet(banOrder')
  <2>1. CASE places = {}
    <3>1. banOrder' = banOrder
      BY <1>1, <1>2, <2>1, DeletedIsRest
    <3> QED BY <1>4, <3>1 DEF BanListIsSound, ListedAreHomes
  <2>2. CASE places # {}
    <3>1. PICK k \in places :
            /\ Len(banOrder') = Len(banOrder) - 1
            /\ \A i \in 1 .. Len(banOrder) - 1 :
                 banOrder'[i] = IF i < k THEN banOrder[i] ELSE banOrder[i + 1]
      BY <1>1, <1>2, <2>2, DeletedIsRest
    <3> PICK n \in Nat : n = Len(banOrder)
      BY <1>2
    <3>2. k \in 1 .. n /\ banOrder[k] = ipOf[p] /\ banOrder[k] \in Ips /\ banLeft[banOrder[k]] = 0
      <4>1. k \in 1 .. n /\ banOrder[k] = ipOf[p] /\ banOrder[k] \in Ips
        BY <1>2
      <4>2. ipOf[p] # None /\ banLeft[ipOf[p]] \in Nat
        BY <1>2, <4>1, NoneAssumption
      <4> QED BY <1>1, <4>1, <4>2 DEF IsBanned
    <3> DEFINE was(i) == IF i < k THEN i ELSE i + 1
    <3>3. \A i \in 1 .. n - 1 : was(i) \in 1 .. n /\ banOrder'[i] = banOrder[was(i)]
      BY <3>1, <3>2
    <3>4. \A i, j \in 1 .. n - 1 : was(i) = was(j) => i = j
      BY <3>2
    <3>5. DOMAIN banOrder = 1 .. n /\ DOMAIN banOrder' = 1 .. n - 1 /\ Len(banOrder') = n - 1
      BY <1>2, <1>3, <3>1
    <3>6. \A j \in 1 .. n : j # k => \E i \in 1 .. n - 1 : was(i) = j
      <4> SUFFICES ASSUME NEW j \in 1 .. n, j # k PROVE \E i \in 1 .. n - 1 : was(i) = j
        OBVIOUS
      <4>1. CASE j < k
        BY <3>2, <4>1
      <4>2. CASE j > k
        <5>1. j - 1 \in 1 .. n - 1 /\ was(j - 1) = j
          BY <3>2, <4>2
        <5> QED BY <5>1
      <4> QED BY <3>2, <4>1, <4>2
    <3> HIDE DEF was
    <3>7. IsInjective(banOrder')
      BY <1>4, <3>3, <3>4, <3>5 DEF BanListIsSound, IsInjective
    <3>8. Len(banOrder') <= BanListMax
      BY <1>4, <3>5, Numbers DEF BanListIsSound
    <3>9. \A i \in DOMAIN banOrder' : banOrder'[i] \in Homes
      BY <1>4, <3>3, <3>5 DEF ListedAreHomes
    <3>10. ASSUME NEW ip \in Ips, banLeft[ip] > 0 PROVE ip \in ToSet(banOrder')
      <4>1. PICK j \in DOMAIN banOrder : banOrder[j] = ip
        BY <1>4, <3>10 DEF BanListIsSound, ToSet
      <4>2. j \in 1 .. n /\ j # k
        BY <3>2, <3>5, <3>10, <4>1
      <4>3. PICK i \in 1 .. n - 1 : was(i) = j
        BY <3>6, <4>2
      <4>4. i \in DOMAIN banOrder' /\ banOrder'[i] = ip
        BY <3>3, <3>5, <4>1, <4>3
      <4> QED BY <4>4 DEF ToSet
    <3> QED BY <3>7, <3>8, <3>9, <3>10
  <2> QED BY <2>1, <2>2
<1>6. BansOK' /\ Listed'
  BY <1>1, <1>2, <1>3, <1>5, SamePlaces DEF BansOK, Listed, BanListIsSound, ListedAreHomes
<1>7. LimitsOK' /\ Bounded' /\ (Room' => KeptOut')
  BY <1>1, SamePlaces DEF Remembered, LimitsOK, Bounded, KeptOut
<1> QED BY <1>6, <1>7 DEF Remembered

\* Time passes: what is on record and the ban for it age together.
LEMMA AgedType ==
  ASSUME NEW window \in Nat, NEW ages \in Seq(0 .. window + 1)
  PROVE  /\ Aged(ages, window) \in Seq(0 .. window + 1)
         /\ Len(Aged(ages, window)) = Len(ages) /\ DOMAIN Aged(ages, window) = DOMAIN ages
         /\ \A i \in DOMAIN ages :
              Aged(ages, window)[i] <= window => Aged(ages, window)[i] = ages[i] + 1
<1>1. \A i \in 1 .. Len(ages) :
        /\ Smaller(ages[i] + 1, window + 1) \in 0 .. window + 1
        /\ Smaller(ages[i] + 1, window + 1) <= window => Smaller(ages[i] + 1, window + 1) = ages[i] + 1
  BY DEF Smaller
<1>2. /\ Aged(ages, window) = [i \in 1 .. Len(ages) |-> Smaller(ages[i] + 1, window + 1)]
      /\ Len(ages) \in Nat
  BY DEF Aged
<1> QED BY <1>1, <1>2

LEMMA TickRemembers ==
  ASSUME TypeOK, Remembered, Tick, ipOf' = ipOf
  PROVE  Remembered'
<1>1. /\ banOrder' = banOrder /\ banLeft' = [ip \in Ips |-> Less(banLeft[ip])]
      /\ hardByIp' = [ip \in Ips |-> Aged(hardByIp[ip], HardHistory)]
      /\ limiter' = [p \in Peers |->
           IF limiter[p] = None THEN None
           ELSE [tokens |-> Smaller(limiter[p].tokens + FrameCap, FrameBurst),
                 strikes |-> Aged(limiter[p].strikes, StrikeWindow),
                 softLeft |-> Less(limiter[p].softLeft), hardLeft |-> Less(limiter[p].hardLeft)]]
  BY DEF Tick
<1>2. /\ limiter \in [Peers -> PeerStates \cup {None}] /\ hardByIp \in [Ips -> Seq(RecordAges)]
      /\ banOrder \in Seq(Ips) /\ banLeft \in [Ips -> 0 .. PersistentBan]
  BY DEF Remembered, LimitsOK, BansOK
<1>3. \A p \in Peers : /\ limiter'[p] \in PeerStates \cup {None}
                       /\ limiter'[p] # None => limiter'[p].hardLeft = 0
                                                /\ Len(limiter'[p].strikes) < HardThreshold
  <2> SUFFICES ASSUME NEW p \in Peers
               PROVE  /\ limiter'[p] \in PeerStates \cup {None}
                      /\ limiter'[p] # None => limiter'[p].hardLeft = 0
                                               /\ Len(limiter'[p].strikes) < HardThreshold
    OBVIOUS
  <2>1. CASE limiter[p] = None
    BY <1>1, <2>1
  <2>2. CASE limiter[p] # None
    <3> PICK s \in PeerStates : s = limiter[p]
      BY <1>2, <2>2
    <3>1. /\ s.tokens \in 0 .. FrameBurst /\ s.strikes \in Seq(0 .. StrikeWindow + 1)
          /\ s.softLeft \in 0 .. SoftQuarantine /\ s.hardLeft \in 0 .. HardQuarantine
      BY DEF PeerStates
    <3>2. s.hardLeft = 0 /\ Len(s.strikes) < HardThreshold
      BY <2>2 DEF Remembered, Bounded
    <3>3. /\ Smaller(s.tokens + FrameCap, FrameBurst) \in 0 .. FrameBurst
          /\ Less(s.softLeft) \in 0 .. SoftQuarantine
          /\ Less(s.hardLeft) = 0 /\ 0 \in 0 .. HardQuarantine
      <4>1. FrameBurst \in Nat /\ FrameCap \in Nat /\ 0 \in 0 .. HardQuarantine
        BY Numbers
      <4>2. Smaller(s.tokens + FrameCap, FrameBurst) \in 0 .. FrameBurst
        <5>1. s.tokens + FrameCap \in Nat
          BY <3>1, <4>1
        <5> QED BY <4>1, <5>1 DEF Smaller
      <4>3. Less(s.softLeft) \in 0 .. SoftQuarantine
        <5>1. SoftQuarantine \in Nat /\ s.softLeft \in 0 .. SoftQuarantine
          BY <3>1, Numbers
        <5> QED BY <5>1 DEF Less
      <4> QED BY <3>2, <4>1, <4>2, <4>3 DEF Less
    <3>4. /\ Aged(s.strikes, StrikeWindow) \in Seq(0 .. StrikeWindow + 1)
          /\ Len(Aged(s.strikes, StrikeWindow)) = Len(s.strikes)
      BY <3>1, AgedType, Numbers
    <3>5. limiter'[p] = [tokens |-> Smaller(s.tokens + FrameCap, FrameBurst),
                         strikes |-> Aged(s.strikes, StrikeWindow),
                         softLeft |-> Less(s.softLeft), hardLeft |-> Less(s.hardLeft)]
      BY <1>1, <2>2
    <3> QED BY <3>2, <3>3, <3>4, <3>5 DEF PeerStates
  <2> QED BY <2>1, <2>2
<1>4. limiter' \in [Peers -> PeerStates \cup {None}] /\ Bounded'
  <2>1. limiter' = [p \in Peers |-> limiter'[p]]
    BY <1>1
  <2> QED BY <1>3, <2>1 DEF Bounded
<1>5. \A ip \in Ips : hardByIp[ip] \in Seq(0 .. HardHistory + 1) /\ HardHistory \in Nat
  BY <1>2, Numbers DEF RecordAges
<1>6. hardByIp' \in [Ips -> Seq(RecordAges)]
  BY <1>1, <1>5, AgedType DEF RecordAges
<1>7. /\ \A ip \in Ips : /\ banLeft'[ip] \in 0 .. PersistentBan /\ banLeft'[ip] >= banLeft[ip] - 1
                         /\ banLeft'[ip] > 0 => banLeft[ip] > 0
      /\ banLeft' \in [Ips -> 0 .. PersistentBan]
  BY <1>1, <1>2, Numbers DEF Less
<1>8. BansOK' /\ Listed'
  BY <1>1, <1>2, <1>7, SamePlaces
  DEF Remembered, BansOK, Listed, ListedAreHomes, BanListIsSound
<1>9. ASSUME Room PROVE KeptOut'
  <2> SUFFICES ASSUME NEW ip \in Ips, NEW i \in DOMAIN hardByIp'[ip], hardByIp'[ip][i] <= HardHistory
               PROVE  banLeft'[ip] >= Term(i) - hardByIp'[ip][i]
    BY DEF KeptOut, Term
  <2> PICK record : record = hardByIp[ip]
    OBVIOUS
  <2>1. record \in Seq(0 .. HardHistory + 1) /\ HardHistory \in Nat
    BY <1>5
  <2>2. hardByIp'[ip] = Aged(record, HardHistory)
    BY <1>1
  <2>3. i \in DOMAIN record /\ hardByIp'[ip][i] = record[i] + 1 /\ record[i] \in Nat
    <3>1. i \in DOMAIN record /\ hardByIp'[ip][i] = record[i] + 1
      BY <2>1, <2>2, AgedType
    <3> QED BY <2>1, <3>1
  <2>4. banLeft[ip] >= Term(i) - record[i]
    <3>1. record[i] <= HardHistory
      BY <2>1, <2>3
    <3> QED BY <1>9, <2>3, <3>1 DEF Remembered, KeptOut
  <2>5. Term(i) \in Int
    <3>1. i \in Nat /\ 0 \in Nat
      BY <2>1, <2>3
    <3> QED BY <3>1, TermGrows
  <2>6. banLeft[ip] \in Nat /\ banLeft'[ip] \in Nat /\ banLeft'[ip] >= banLeft[ip] - 1
    BY <1>2, <1>7
  <2> QED BY <2>3, <2>4, <2>5, <2>6
<1> QED BY <1>4, <1>6, <1>8, <1>9, SamePlaces DEF Remembered, LimitsOK

-----------------------------------------------------------------------------
(* Every step. *)

SessionsOK ==
  /\ ipOf \in Origins
  /\ link \in [Peers -> {"none", "handshake", "open", "closing"}]
  /\ announcer \in Peers \cup {None} /\ sentence \in [Peers -> 0 .. HardQuarantine]

IInv == SessionsOK /\ Remembered

LEMMA InvTypes == IInv => TypeOK
BY TypeParts DEF IInv, SessionsOK, Remembered

LEMMA StateBounded ==
  ASSUME IInv, NEW p \in Peers
  PROVE  /\ StateOf(p) \in PeerStates /\ StateOf(p).hardLeft = 0
         /\ Len(StateOf(p).strikes) \in Nat /\ Len(StateOf(p).strikes) < HardThreshold
<1>1. TypeOK /\ Bounded
  BY InvTypes DEF IInv, Remembered
<1>2. StateOf(p) \in PeerStates /\ StateOf(p).hardLeft = 0
  BY <1>1, StateType DEF Bounded
<1>3. Len(StateOf(p).strikes) \in Nat
  BY <1>2 DEF PeerStates
<1>4. limiter[p] # None => Len(limiter[p].strikes) \in Nat
  BY <1>1 DEF TypeOK, PeerStates
<1>5. 0 < HardThreshold
  BY Numbers
<1> QED BY <1>1, <1>2, <1>3, <1>4, <1>5, StateType, Numbers DEF Bounded

LEMMA StrikeSteps ==
  ASSUME IInv, NEW p \in Peers, Strike(p, StateOf(p)), ipOf' = ipOf
  PROVE  IInv'
<1>1. TypeOK /\ Remembered /\ SessionsOK /\ announcer' = None
  BY InvTypes DEF IInv, Strike
<1>2. CASE ComesToHard(StateOf(p))
  <2>1. GoHard(p)
    BY <1>2 DEF Strike
  <2>2. Remembered'
    BY <1>1, <2>1, GoHardRemembers
  <2>3. /\ link' = [link EXCEPT ![p] = "closing"]
        /\ sentence' = [sentence EXCEPT ![p] = HardQuarantine]
    BY <2>1 DEF GoHard, Terminate
  <2>4. HardQuarantine \in 0 .. HardQuarantine
    BY Numbers
  <2>5. SessionsOK'
    BY <1>1, <2>3, <2>4 DEF SessionsOK
  <2> QED BY <2>2, <2>5 DEF IInv
<1>3. CASE ~ComesToHard(StateOf(p))
  <2>1. Keep(p, Struck(StateOf(p)))
    BY <1>3 DEF Strike
  <2>2. /\ StateOf(p) \in PeerStates /\ StateOf(p).hardLeft = 0
        /\ Len(StateOf(p).strikes) \in Nat
    BY StateBounded
  <2>3. /\ Struck(StateOf(p)) \in PeerStates /\ Struck(StateOf(p)).hardLeft = 0
        /\ Len(Struck(StateOf(p)).strikes) < HardThreshold
    BY <1>3, <2>2, StruckType, Numbers DEF ComesToHard
  <2>4. Remembered'
    BY <1>1, <2>1, <2>3, KeepRemembers
  <2>5. SessionsOK'
    BY <1>1, <2>1 DEF Keep, SessionsOK
  <2> QED BY <2>4, <2>5 DEF IInv
<1> QED BY <1>2, <1>3

LEMMA FramePassesSteps ==
  ASSUME IInv, NEW p \in Peers, FramePasses(p), ipOf' = ipOf
  PROVE  IInv'
<1>1. TypeOK /\ Remembered /\ SessionsOK
  BY InvTypes DEF IInv
<1>2. Keep(p, Charged(p)) /\ announcer' \in {p, None} /\ StateOf(p).tokens > 0
  BY DEF FramePasses, Allowed
<1>3. /\ StateOf(p) \in PeerStates /\ StateOf(p).hardLeft = 0
      /\ Len(StateOf(p).strikes) < HardThreshold
  BY StateBounded
<1>4. /\ Charged(p) = [StateOf(p) EXCEPT !.tokens = StateOf(p).tokens - 1]
      /\ StateOf(p).tokens - 1 \in 0 .. FrameBurst
  BY <1>2, <1>3, Numbers DEF Charged, PeerStates
<1>5. /\ Charged(p) \in PeerStates /\ Charged(p).hardLeft = 0
      /\ Len(Charged(p).strikes) < HardThreshold
  BY <1>3, <1>4 DEF PeerStates
<1>6. Remembered'
  BY <1>1, <1>2, <1>5, KeepRemembers
<1>7. SessionsOK'
  BY <1>1, <1>2 DEF Keep, SessionsOK
<1> QED BY <1>6, <1>7 DEF IInv

\* Steps of a session that touch nothing of what is remembered.
LEMMA QuietSteps ==
  ASSUME IInv, NEW p \in Peers, Ready(p) \/ Disconnect(p), ipOf' = ipOf
  PROVE  IInv'
<1>1. Remembered /\ SessionsOK
  BY DEF IInv
<1>2. /\ limiter' = limiter /\ hardByIp' = hardByIp /\ banOrder' = banOrder /\ banLeft' = banLeft
      /\ sentence' = sentence /\ announcer' = None
      /\ \/ link' = [link EXCEPT ![p] = "open"]
         \/ link' = [link EXCEPT ![p] = "none"]
  BY DEF Ready, Disconnect, limits, bans
<1>3. LimitsOK' /\ BansOK' /\ Bounded' /\ Listed' /\ (Room' => KeptOut')
  BY <1>1, <1>2, SamePlaces
  DEF Remembered, LimitsOK, BansOK, Bounded, Listed, ListedAreHomes, BanListIsSound, KeptOut
<1>4. SessionsOK'
  BY <1>1, <1>2 DEF SessionsOK
<1> QED BY <1>3, <1>4 DEF IInv, Remembered

LEMMA NextKeepsInv ==
  ASSUME IInv, [Next]_vars
  PROVE  IInv'
<1>1. TypeOK /\ Remembered /\ SessionsOK
  BY InvTypes DEF IInv
<1>2. ASSUME UNCHANGED vars PROVE IInv'
  <2>1. /\ ipOf' = ipOf /\ limiter' = limiter /\ hardByIp' = hardByIp /\ banOrder' = banOrder
        /\ banLeft' = banLeft /\ link' = link /\ announcer' = announcer /\ sentence' = sentence
    BY <1>2 DEF vars, limits, bans
  <2>2. LimitsOK' /\ BansOK' /\ Bounded' /\ Listed' /\ (Room' => KeptOut') /\ SessionsOK'
    BY <1>1, <2>1, SamePlaces
    DEF Remembered, LimitsOK, BansOK, Bounded, Listed, ListedAreHomes, BanListIsSound, KeptOut,
        SessionsOK
  <2> QED BY <2>2 DEF IInv, Remembered
<1>3. ASSUME NEW p \in Peers, Connect(p), ipOf' = ipOf PROVE IInv'
  <2>1. Remembered'
    BY <1>1, <1>3, ConnectRemembers
  <2>2. SessionsOK'
    BY <1>1, <1>3 DEF Connect, SessionsOK
  <2> QED BY <2>1, <2>2 DEF IInv
<1>4. ASSUME NEW p \in Peers, Equivocates(p), ipOf' = ipOf PROVE IInv'
  <2>1. Remembered'
    BY <1>1, <1>4, EquivocatesRemembers
  <2>2. SessionsOK'
    BY <1>1, <1>4 DEF Equivocates, Terminate, SessionsOK
  <2> QED BY <2>1, <2>2 DEF IInv
<1>5. ASSUME Tick, ipOf' = ipOf PROVE IInv'
  <2>1. Remembered'
    BY <1>1, <1>5, TickRemembers
  <2>2. sentence' \in [Peers -> 0 .. HardQuarantine]
    BY <1>1, <1>5, Numbers DEF Tick, SessionsOK, Less
  <2>3. SessionsOK'
    BY <1>1, <1>5, <2>2 DEF Tick, SessionsOK
  <2> QED BY <2>1, <2>3 DEF IInv
<1>6. ASSUME NEW p \in Peers, PolicyViolation(p) \/ InsistentFrame(p) \/ FrameTooMany(p), ipOf' = ipOf
      PROVE  IInv'
  BY <1>6, StrikeSteps DEF PolicyViolation, InsistentFrame, FrameTooMany
<1> QED BY <1>2, <1>3, <1>4, <1>5, <1>6, QuietSteps, FramePassesSteps DEF Next

LEMMA InitInv == Init => IInv
<1> SUFFICES ASSUME Init PROVE IInv
  OBVIOUS
<1>1. /\ ipOf \in Origins /\ link = [p \in Peers |-> "none"] /\ limiter = [p \in Peers |-> None]
      /\ hardByIp = [ip \in Ips |-> <<>>] /\ banOrder = <<>> /\ banLeft = [ip \in Ips |-> 0]
      /\ announcer = None /\ sentence = [p \in Peers |-> 0]
  BY DEF Init
<1>2. <<>> \in Seq(RecordAges) /\ <<>> \in Seq(Ips) /\ DOMAIN <<>> = {} /\ Len(<<>>) = 0
  OBVIOUS
<1>3. /\ 0 \in 0 .. PersistentBan /\ 0 \in 0 .. HardQuarantine /\ 0 <= BanListMax /\ ~(0 > 0)
  BY Numbers
<1>4. SessionsOK
  BY <1>1, <1>3 DEF SessionsOK
<1>5. LimitsOK /\ BansOK /\ Bounded
  BY <1>1, <1>2, <1>3 DEF LimitsOK, BansOK, Bounded
<1>6. Listed
  BY <1>1, <1>2, <1>3 DEF Listed, ListedAreHomes, BanListIsSound, IsInjective
<1>7. KeptOut
  BY <1>1, <1>2 DEF KeptOut
<1> QED BY <1>4, <1>5, <1>6, <1>7 DEF IInv, Remembered

THEOREM Invariant == Spec => []IInv
BY InitInv, NextKeepsInv, PTL DEF Spec

-----------------------------------------------------------------------------
(* The invariants the runs check. *)

\* What the limiter, its records and the list of bans hold has its type, whatever
\* the thresholds and however many peers there are behind an IP.
THEOREM LimitsTypes == Spec => []TypeOK
BY Invariant, InvTypes, PTL

\* limits.js, _strike and forget: a peer's list of strikes never reaches the
\* threshold of a hard quarantine, before or after its session was closed.
THEOREM FewStrikesAreKept == Spec => []StrikesAreBounded
<1>1. IInv => StrikesAreBounded
  BY DEF IInv, Remembered, Bounded, StrikesAreBounded
<1> QED BY <1>1, Invariant, PTL

\* limits.js, BanList: every ban in force is on the list, each IP once, and the list
\* is no longer than BAN_LIST_MAX.
THEOREM BansAreListed == Spec => []BanListIsSound
<1>1. IInv => BanListIsSound
  BY DEF IInv, Remembered, Listed
<1> QED BY <1>1, Invariant, PTL

\* limits.js, recordHard and BanList.add: with room for every IP on the list, a hard
\* quarantine on record keeps its IP out for as long as it should.
THEOREM HardRecordKeepsOut ==
  ASSUME IsFiniteSet(Peers)
  PROVE  Spec => []RecordKeepsOut
<1>1. IInv => RecordKeepsOut
  <2>1. Cardinality({ipOf[p] : p \in Peers} \ {None}) <= BanListMax => Room
    BY DEF Room, Homes
  <2> QED BY <2>1 DEF IInv, Remembered, KeptOut, Term, RecordKeepsOut
<1> QED BY <1>1, Invariant, PTL

=============================================================================
