------------------------- MODULE EquivocationLogProofs -------------------------
(***************************************************************************)
(* Proofs about the cache of what peers said, for any numbers of peers,    *)
(* heights and prevhashes, any window and any bounds: that it stays in the *)
(* order of age with one entry a key, that the cache is the memory         *)
(* EquivocationMemory describes, and that what is made of a contradiction  *)
(* is just.                                                                *)
(***************************************************************************)
EXTENDS EquivocationHistory, AgedListsProofs

-----------------------------------------------------------------------------
(* The cache stays ordered. *)

Ordered(entries) ==
  \A i, j \in DOMAIN entries : i < j =>
    /\ entries[i].age >= entries[j].age
    /\ ~OfKey(entries[i], entries[j].peer, entries[j].height)

LEMMA EntryType ==
  ASSUME NEW e \in Entries
  PROVE  /\ e.peer \in Peers /\ e.height \in Heights /\ e.hash \in Hashes
         /\ e.age \in 0 .. Window + 1 /\ e.age \in Nat /\ Window \in Nat \ {0}
BY NumbersAssumption DEF Entries

LEMMA EndOrdered ==
  ASSUME NEW s \in Seq(Entries), NEW t \in Seq(Entries), NEW k \in 0 .. Len(s),
         IsEnd(t, s, k), Ordered(s)
  PROVE  Ordered(t)
<1>1. /\ Len(t) = Len(s) - k /\ Len(s) \in Nat /\ Len(t) \in Nat
      /\ \A i \in 1 .. Len(t) : t[i] = s[i + k]
  BY DEF IsEnd
<1>2. \A i \in 1 .. Len(t) : i + k \in 1 .. Len(s)
  BY <1>1
<1> SUFFICES ASSUME NEW i \in 1 .. Len(t), NEW j \in 1 .. Len(t), i < j
             PROVE  t[i].age >= t[j].age /\ ~OfKey(t[i], t[j].peer, t[j].height)
  BY <1>1 DEF Ordered
<1>3. i + k < j + k /\ i + k \in DOMAIN s /\ j + k \in DOMAIN s
  BY <1>2
<1>4. t[i] = s[i + k] /\ t[j] = s[j + k]
  BY <1>1
<1> QED BY <1>3, <1>4 DEF Ordered

\* What a frame finds: what is left is an end of the cache that fits; what is gone had
\* expired, or there was no room for it.
LEMMA EvictedIsEnd ==
  ASSUME cache \in Seq(Entries)
  PROVE  /\ Evicted \in Seq(Entries)
         /\ \E k \in 0 .. Len(cache) :
              /\ IsEnd(Evicted, cache, k) /\ Len(cache) - k <= MaxEntries
              /\ k = Len(cache) - MaxEntries \/ \A i \in 1 .. k : Expired(cache[i])
<1> PICK places : places = {i \in DOMAIN cache : ~Expired(cache[i])}
  OBVIOUS
<1>1. places \in SUBSET (1 .. Len(cache)) /\ Unexpired = FromFirst(cache, places)
  BY DEF Unexpired
<1>2. Unexpired \in Seq(Entries)
  BY <1>1, FromFirstIsEnd
<1>3. PICK k \in 0 .. Len(cache) : IsEnd(Unexpired, cache, k) /\ \A i \in 1 .. k : i \notin places
  BY <1>1, FromFirstIsEnd
<1>4. MaxEntries \in Nat
  BY NumbersAssumption
<1>5. /\ Evicted \in Seq(Entries) /\ Len(Evicted) <= MaxEntries
      /\ Len(Unexpired) <= MaxEntries => Evicted = Unexpired
      /\ Len(Unexpired) > MaxEntries => Len(Evicted) = MaxEntries
  BY <1>2, <1>4, LatestIsEnd DEF Evicted
<1>6. PICK l \in 0 .. Len(Unexpired) : IsEnd(Evicted, Unexpired, l)
  BY <1>2, <1>4, LatestIsEnd DEF Evicted
<1>7. /\ Len(cache) \in Nat /\ Len(Unexpired) \in Nat /\ Len(Evicted) \in Nat
      /\ Len(Unexpired) = Len(cache) - k /\ Len(Evicted) = Len(Unexpired) - l
  <2>1. Len(cache) \in Nat /\ Len(Unexpired) \in Nat /\ Len(Evicted) \in Nat
    BY <1>2, <1>5
  <2>2. Len(Unexpired) = Len(cache) - k
    BY <1>3 DEF IsEnd
  <2>3. Len(Evicted) = Len(Unexpired) - l
    BY <1>6 DEF IsEnd
  <2> QED BY <2>1, <2>2, <2>3
<1>8. k + l \in 0 .. Len(cache) /\ IsEnd(Evicted, cache, k + l)
  <2>1. k + l \in 0 .. Len(cache) /\ Len(Evicted) = Len(cache) - (k + l)
    BY <1>7
  <2>2. ASSUME NEW i \in 1 .. Len(Evicted) PROVE Evicted[i] = cache[i + (k + l)]
    <3>1. Evicted[i] = Unexpired[i + l] /\ i + l \in 1 .. Len(Unexpired)
      BY <1>6, <1>7 DEF IsEnd
    <3>2. Unexpired[i + l] = cache[(i + l) + k] /\ (i + l) + k = i + (k + l)
      BY <1>3, <1>7, <3>1 DEF IsEnd
    <3> QED BY <3>1, <3>2
  <2> QED BY <2>1, <2>2 DEF IsEnd
<1>9. Len(cache) - (k + l) <= MaxEntries
  BY <1>5, <1>7
<1>10. k + l = Len(cache) - MaxEntries \/ \A i \in 1 .. k + l : Expired(cache[i])
  <2>1. CASE Len(Unexpired) > MaxEntries
    BY <1>4, <1>5, <1>7, <2>1
  <2>2. CASE Len(Unexpired) <= MaxEntries
    <3>1. l = 0
      BY <1>5, <1>7, <2>2
    <3>2. \A i \in 1 .. k : Expired(cache[i])
      BY <1>3
    <3> QED BY <3>1, <3>2
  <2> QED BY <1>4, <1>7, <2>1, <2>2
<1> QED BY <1>5, <1>8, <1>9, <1>10

LEMMA EvictedOrdered ==
  ASSUME cache \in Seq(Entries), OldestFirst
  PROVE  Evicted \in Seq(Entries) /\ Ordered(Evicted)
<1>1. Ordered(cache)
  BY DEF OldestFirst, Ordered
<1> QED BY <1>1, EvictedIsEnd, EndOrdered

\* The refreshed cache: what it had but for the key's entry, in its order, and the new
\* entry at the end.
LEMMA RestOfKey ==
  ASSUME cache \in Seq(Entries), OldestFirst, NEW p \in Peers, NEW h \in Heights
  PROVE  LET rest == Deleted(Evicted, PlacesOf(p, h))
         IN  /\ rest \in Seq(Entries) /\ Ordered(rest)
             /\ \A i \in DOMAIN rest : ~OfKey(rest[i], p, h)
             /\ \A i \in DOMAIN rest : \E j \in DOMAIN Evicted : rest[i] = Evicted[j]
             /\ \A j \in DOMAIN Evicted : ~OfKey(Evicted[j], p, h) =>
                  \E i \in DOMAIN rest : rest[i] = Evicted[j]
<1> PICK places : places = PlacesOf(p, h)
  OBVIOUS
<1> PICK rest : rest = Deleted(Evicted, places)
  OBVIOUS
<1>1. Evicted \in Seq(Entries) /\ Ordered(Evicted)
  BY EvictedOrdered
<1>2. /\ places \in SUBSET (1 .. Len(Evicted))
      /\ \A i \in DOMAIN Evicted : i \in places <=> OfKey(Evicted[i], p, h)
  BY <1>1 DEF PlacesOf
<1>3. rest \in Seq(Entries)
  BY <1>1, <1>2, DeletedIsRest
<1>4. CASE places = {}
  <2>1. rest = Evicted
    BY <1>1, <1>2, <1>4, DeletedIsRest
  <2> QED BY <1>1, <1>2, <1>4, <2>1
<1>5. CASE places # {}
  <2> PICK n \in Nat : n = Len(Evicted)
    BY <1>1
  <2>1. PICK k \in places :
          /\ Len(rest) = n - 1
          /\ \A i \in 1 .. n - 1 : rest[i] = IF i < k THEN Evicted[i] ELSE Evicted[i + 1]
    BY <1>1, <1>2, <1>5, DeletedIsRest
  <2>2. /\ k \in 1 .. n /\ DOMAIN Evicted = 1 .. n /\ DOMAIN rest = 1 .. n - 1
        /\ OfKey(Evicted[k], p, h)
    BY <1>1, <1>2, <1>3, <2>1
  <2> DEFINE was(i) == IF i < k THEN i ELSE i + 1
  <2>3. \A i \in 1 .. n - 1 : was(i) \in 1 .. n /\ was(i) # k /\ rest[i] = Evicted[was(i)]
    BY <2>1, <2>2
  <2>4. \A i, j \in 1 .. n - 1 : i < j => was(i) < was(j)
    BY <2>2
  <2>5. \A j \in 1 .. n : j # k => \E i \in 1 .. n - 1 : was(i) = j
    <3> SUFFICES ASSUME NEW j \in 1 .. n, j # k PROVE \E i \in 1 .. n - 1 : was(i) = j
      OBVIOUS
    <3>1. CASE j < k
      BY <2>2, <3>1
    <3>2. CASE j > k
      <4>1. j - 1 \in 1 .. n - 1 /\ was(j - 1) = j
        BY <2>2, <3>2
      <4> QED BY <4>1
    <3> QED BY <2>2, <3>1, <3>2
  <2> HIDE DEF was
  <2>6. Ordered(rest)
    BY <1>1, <2>2, <2>3, <2>4 DEF Ordered
  <2>7. \A j \in 1 .. n : j # k => ~OfKey(Evicted[j], p, h)
    <3> SUFFICES ASSUME NEW j \in 1 .. n, j # k, OfKey(Evicted[j], p, h) PROVE FALSE
      OBVIOUS
    <3>1. j < k \/ k < j
      BY <2>2
    <3>2. ~OfKey(Evicted[j], Evicted[k].peer, Evicted[k].height) \/
          ~OfKey(Evicted[k], Evicted[j].peer, Evicted[j].height)
      BY <1>1, <2>2, <3>1 DEF Ordered
    <3> QED BY <2>2, <3>2 DEF OfKey
  <2>8. \A i \in DOMAIN rest : ~OfKey(rest[i], p, h)
    BY <2>2, <2>3, <2>7
  <2>9. \A i \in DOMAIN rest : \E j \in DOMAIN Evicted : rest[i] = Evicted[j]
    BY <2>2, <2>3
  <2>10. \A j \in DOMAIN Evicted : ~OfKey(Evicted[j], p, h) =>
           \E i \in DOMAIN rest : rest[i] = Evicted[j]
    <3> SUFFICES ASSUME NEW j \in 1 .. n, ~OfKey(Evicted[j], p, h)
                 PROVE  \E i \in DOMAIN rest : rest[i] = Evicted[j]
      BY <2>2
    <3>1. PICK i \in 1 .. n - 1 : was(i) = j
      BY <2>2, <2>5
    <3> QED BY <2>2, <2>3, <3>1
  <2> QED BY <1>3, <2>6, <2>8, <2>9, <2>10
<1> QED BY <1>4, <1>5

LEMMA RefreshedOrdered ==
  ASSUME cache \in Seq(Entries), OldestFirst, NEW p \in Peers, NEW h \in Heights, NEW x \in Hashes
  PROVE  LET new == [peer |-> p, height |-> h, hash |-> x, age |-> 0]
             all == Refreshed(p, h, x)
         IN  /\ all \in Seq(Entries) /\ Ordered(all)
             /\ \E i \in DOMAIN all : all[i] = new
             /\ \A i \in DOMAIN all :
                  all[i] = new \/ \E j \in DOMAIN Evicted : all[i] = Evicted[j]
             /\ \A j \in DOMAIN Evicted : ~OfKey(Evicted[j], p, h) =>
                  \E i \in DOMAIN all : all[i] = Evicted[j]
<1> PICK rest : rest = Deleted(Evicted, PlacesOf(p, h))
  OBVIOUS
<1> PICK new : new = [peer |-> p, height |-> h, hash |-> x, age |-> 0]
  OBVIOUS
<1>1. new \in Entries /\ new.age = 0 /\ new.peer = p /\ new.height = h
  <2>1. 0 \in 0 .. Window + 1
    BY NumbersAssumption
  <2> QED BY <2>1 DEF Entries
<1>2. /\ rest \in Seq(Entries) /\ Ordered(rest)
      /\ \A i \in DOMAIN rest : ~OfKey(rest[i], p, h)
      /\ \A i \in DOMAIN rest : \E j \in DOMAIN Evicted : rest[i] = Evicted[j]
      /\ \A j \in DOMAIN Evicted : ~OfKey(Evicted[j], p, h) =>
           \E i \in DOMAIN rest : rest[i] = Evicted[j]
  BY RestOfKey
<1>3. /\ Append(rest, new) \in Seq(Entries) /\ Len(Append(rest, new)) = Len(rest) + 1
      /\ \A i \in 1 .. Len(rest) : Append(rest, new)[i] = rest[i]
      /\ Append(rest, new)[Len(rest) + 1] = new
  BY <1>1, <1>2, AppendProperties
<1> PICK all : all = Append(rest, new)
  OBVIOUS
<1>4. Ordered(all)
  <2> SUFFICES ASSUME NEW i \in DOMAIN all, NEW j \in DOMAIN all, i < j
               PROVE  all[i].age >= all[j].age /\ ~OfKey(all[i], all[j].peer, all[j].height)
    BY DEF Ordered
  <2>1. /\ Len(rest) \in Nat /\ i \in 1 .. Len(rest)
        /\ j \in 1 .. Len(rest) \/ j = Len(rest) + 1
    BY <1>2, <1>3
  <2>2. CASE j \in 1 .. Len(rest)
    <3>1. all[i] = rest[i] /\ all[j] = rest[j] /\ i \in DOMAIN rest /\ j \in DOMAIN rest
      BY <1>2, <1>3, <2>1, <2>2
    <3> QED BY <1>2, <3>1 DEF Ordered
  <2>3. CASE j = Len(rest) + 1
    <3>1. all[i] = rest[i] /\ all[j] = new /\ i \in DOMAIN rest /\ rest[i] \in Entries
      BY <1>2, <1>3, <2>1, <2>3
    <3>2. rest[i].age \in Nat
      BY <3>1, EntryType
    <3> QED BY <1>1, <1>2, <3>1, <3>2
  <2> QED BY <2>1, <2>2, <2>3
<1>5. all \in Seq(Entries) /\ \E i \in DOMAIN all : all[i] = new
  BY <1>2, <1>3
<1>6. \A i \in DOMAIN all : all[i] = new \/ \E j \in DOMAIN Evicted : all[i] = Evicted[j]
  <2> SUFFICES ASSUME NEW i \in DOMAIN all, all[i] # new
               PROVE  \E j \in DOMAIN Evicted : all[i] = Evicted[j]
    OBVIOUS
  <2>1. i \in DOMAIN rest /\ all[i] = rest[i]
    BY <1>2, <1>3
  <2> QED BY <1>2, <2>1
<1>7. \A i \in DOMAIN rest : i \in DOMAIN all /\ all[i] = rest[i]
  BY <1>2, <1>3
<1>8. \A j \in DOMAIN Evicted : ~OfKey(Evicted[j], p, h) =>
        \E i \in DOMAIN all : all[i] = Evicted[j]
  BY <1>2, <1>7
<1>9. all = Refreshed(p, h, x)
  BY DEF Refreshed
<1> QED BY <1>4, <1>5, <1>6, <1>8, <1>9

LEMMA TickOrdered ==
  ASSUME cache \in Seq(Entries), OldestFirst, Tick
  PROVE  /\ cache' \in Seq(Entries) /\ Ordered(cache') /\ DOMAIN cache' = DOMAIN cache
         /\ \A i \in DOMAIN cache :
              /\ cache'[i].peer = cache[i].peer /\ cache'[i].height = cache[i].height
              /\ cache'[i].hash = cache[i].hash
              /\ cache'[i].age = IF cache[i].age > Window THEN cache[i].age ELSE cache[i].age + 1
<1> PICK n \in Nat : n = Len(cache)
  OBVIOUS
<1> DEFINE aged(e) == IF Expired(e) THEN e ELSE [e EXCEPT !.age = e.age + 1]
<1>1. cache' = [i \in 1 .. n |-> aged(cache[i])]
  BY DEF Tick
<1>2. ASSUME NEW e \in Entries
      PROVE  /\ aged(e) \in Entries
             /\ aged(e).peer = e.peer /\ aged(e).height = e.height /\ aged(e).hash = e.hash
             /\ aged(e).age = IF e.age > Window THEN e.age ELSE e.age + 1
  <2>1. e.age \in 0 .. Window + 1 /\ Window \in Nat
    BY EntryType
  <2>2. CASE Expired(e)
    BY <2>2 DEF Expired
  <2>3. CASE ~Expired(e)
    <3>1. e.age + 1 \in 0 .. Window + 1 /\ ~(e.age > Window)
      BY <2>1, <2>3 DEF Expired
    <3>2. aged(e) = [e EXCEPT !.age = e.age + 1]
      BY <2>3
    <3> QED BY <3>1, <3>2 DEF Entries
  <2> QED BY <2>2, <2>3
<1>3. \A i \in 1 .. n : cache[i] \in Entries
  OBVIOUS
<1> HIDE DEF aged
<1>4. cache' \in Seq(Entries) /\ DOMAIN cache' = 1 .. n /\ \A i \in 1 .. n : cache'[i] = aged(cache[i])
  BY <1>1, <1>2, <1>3
<1>5. Ordered(cache')
  <2> SUFFICES ASSUME NEW i \in 1 .. n, NEW j \in 1 .. n, i < j
               PROVE  /\ aged(cache[i]).age >= aged(cache[j]).age
                      /\ ~OfKey(aged(cache[i]), aged(cache[j]).peer, aged(cache[j]).height)
    BY <1>4 DEF Ordered
  <2>1. /\ cache[i].age >= cache[j].age
        /\ ~OfKey(cache[i], cache[j].peer, cache[j].height)
    BY DEF OldestFirst
  <2>2. /\ cache[i].age \in 0 .. Window + 1 /\ cache[j].age \in 0 .. Window + 1 /\ Window \in Nat
    BY <1>3, EntryType
  <2>3. /\ aged(cache[i]).age = IF cache[i].age > Window THEN cache[i].age ELSE cache[i].age + 1
        /\ aged(cache[j]).age = IF cache[j].age > Window THEN cache[j].age ELSE cache[j].age + 1
    BY <1>2, <1>3
  <2>4. aged(cache[i]).age >= aged(cache[j]).age
    BY <2>1, <2>2, <2>3
  <2>5. ~OfKey(aged(cache[i]), aged(cache[j]).peer, aged(cache[j]).height)
    BY <1>2, <1>3, <2>1 DEF OfKey
  <2> QED BY <2>4, <2>5
<1> QED BY <1>2, <1>3, <1>4, <1>5

-----------------------------------------------------------------------------
(* The log of observations. *)

LEMMA RecordedType ==
  ASSUME observed \in Seq(Records), NEW p \in Peers, NEW h \in Heights, NEW x \in Hashes
  PROVE  Recorded(p, h, x) \in Seq(Records)
<1> PICK known : known = \E i \in DOMAIN observed : observed[i].height = h
  OBVIOUS
<1> PICK log : log = IF known THEN observed ELSE Append(observed, [height |-> h, seenBy |-> NoOne])
  OBVIOUS
<1> DEFINE seenIn(record) ==
      IF record.height = h THEN [record EXCEPT !.seenBy[x] = record.seenBy[x] \cup {p}] ELSE record
<1>1. [height |-> h, seenBy |-> NoOne] \in Records
  BY DEF Records, NoOne
<1>2. log \in Seq(Records)
  <2>1. Append(observed, [height |-> h, seenBy |-> NoOne]) \in Seq(Records)
    BY <1>1, AppendProperties
  <2> QED BY <2>1
<1>3. ASSUME NEW record \in Records PROVE seenIn(record) \in Records
  <2>1. record.height \in Heights /\ record.seenBy \in [Hashes -> SUBSET Peers]
    BY DEF Records
  <2>2. [record.seenBy EXCEPT ![x] = record.seenBy[x] \cup {p}] \in [Hashes -> SUBSET Peers]
    BY <2>1
  <2>3. [record EXCEPT !.seenBy[x] = record.seenBy[x] \cup {p}]
          = [record EXCEPT !.seenBy = [record.seenBy EXCEPT ![x] = record.seenBy[x] \cup {p}]]
    BY DEF Records
  <2> QED BY <2>1, <2>2, <2>3 DEF Records
<1> PICK seen : seen = [i \in DOMAIN log |-> seenIn(log[i])]
  OBVIOUS
<1>4. Recorded(p, h, x) = Latest(seen, MaxHeights)
  BY DEF Recorded
<1> HIDE DEF seenIn
<1>5. seen \in Seq(Records)
  BY <1>2, <1>3
<1>6. MaxHeights \in Nat
  BY NumbersAssumption
<1>7. Latest(seen, MaxHeights) \in Seq(Records)
  BY <1>5, <1>6, LatestIsEnd
<1> QED BY <1>4, <1>7, Zenon

-----------------------------------------------------------------------------
(* The invariants the runs check. *)

IInv == TypeOK /\ OldestFirst

LEMMA EvidenceType ==
  ASSUME TypeOK, NEW p \in Peers, NEW h \in Heights, NEW x \in Hashes, NEW e \in Evidence(p, h, x)
  PROVE  e.hash \in Hashes
<1>1. Evicted \in Seq(Entries)
  BY EvictedIsEnd DEF TypeOK
<1>2. e \in Entries
  BY <1>1 DEF Evidence, ToSet
<1> QED BY <1>2, EntryType

LEMMA ConsistentSteps ==
  ASSUME IInv, NEW p \in Peers, NEW h \in Heights, NEW x \in Hashes, Consistent(p, h, x)
  PROVE  IInv'
<1>1. /\ cache \in Seq(Entries) /\ observed \in Seq(Records) /\ OldestFirst
      /\ cache' = Refreshed(p, h, x) /\ observed' = Recorded(p, h, x)
      /\ verdict' = [kind |-> "announce", peer |-> p, height |-> h, existing |-> None]
  BY DEF IInv, TypeOK, Consistent, Judge
<1>2. cache' \in Seq(Entries) /\ OldestFirst'
  <2>1. cache' \in Seq(Entries) /\ Ordered(cache')
    BY <1>1, RefreshedOrdered
  <2> QED BY <2>1 DEF Ordered, OldestFirst
<1>3. verdict' \in Verdicts
  BY <1>1 DEF Verdicts
<1> QED BY <1>1, <1>2, <1>3, RecordedType DEF IInv, TypeOK

LEMMA ContradictorySteps ==
  ASSUME IInv, NEW p \in Peers, NEW h \in Heights, NEW x \in Hashes, Contradictory(p, h, x)
  PROVE  IInv'
<1>1. PICK e \in Evidence(p, h, x) :
        /\ cache' = Evicted /\ observed' = Recorded(p, h, x)
        /\ Judge(p, h, IF LooksLikeHonestReorg(observed', h, e.hash) THEN "reorg" ELSE "ban", e.hash)
  BY DEF Contradictory
<1>2. cache \in Seq(Entries) /\ observed \in Seq(Records) /\ OldestFirst /\ TypeOK
  BY DEF IInv, TypeOK
<1>3. cache' \in Seq(Entries) /\ OldestFirst'
  <2>1. cache' \in Seq(Entries) /\ Ordered(cache')
    BY <1>1, <1>2, EvictedOrdered
  <2> QED BY <2>1 DEF Ordered, OldestFirst
<1> PICK kind : kind = IF LooksLikeHonestReorg(observed', h, e.hash) THEN "reorg" ELSE "ban"
  OBVIOUS
<1>4. verdict' = [kind |-> kind, peer |-> p, height |-> h, existing |-> e.hash]
  BY <1>1 DEF Judge
<1>5. verdict' \in Verdicts
  <2>1. kind \in {"announce", "reorg", "ban"} /\ e.hash \in Hashes \cup {None}
    BY <1>2, EvidenceType
  <2> QED BY <1>4, <2>1 DEF Verdicts
<1> QED BY <1>1, <1>2, <1>3, <1>5, RecordedType DEF IInv, TypeOK

LEMMA NextKeepsInv ==
  ASSUME IInv, [Next]_vars
  PROVE  IInv'
<1>1. ASSUME Tick PROVE IInv'
  <2>1. cache \in Seq(Entries) /\ OldestFirst
    BY DEF IInv, TypeOK
  <2>2. cache' \in Seq(Entries) /\ Ordered(cache')
    BY <1>1, <2>1, TickOrdered
  <2>3. verdict' = None /\ observed' = observed
    BY <1>1 DEF Tick
  <2> QED BY <2>2, <2>3 DEF IInv, TypeOK, Ordered, OldestFirst
<1>2. ASSUME UNCHANGED vars PROVE IInv'
  <2>1. cache' = cache /\ observed' = observed /\ verdict' = verdict
    BY <1>2 DEF vars
  <2> QED BY <2>1 DEF IInv, TypeOK, OldestFirst
<1> QED BY <1>1, <1>2, ConsistentSteps, ContradictorySteps DEF Next

LEMMA InitInv == Init => IInv
<1> SUFFICES ASSUME Init PROVE IInv
  OBVIOUS
<1>1. cache = <<>> /\ observed = <<>> /\ verdict = None
  BY DEF Init
<1>2. <<>> \in Seq(Entries) /\ <<>> \in Seq(Records) /\ DOMAIN <<>> = {}
  OBVIOUS
<1> QED BY <1>1, <1>2 DEF IInv, TypeOK, OldestFirst

THEOREM Invariant == Spec => []IInv
BY InitInv, NextKeepsInv, PTL DEF Spec

\* equivocation.js and node.js: what the cache, the log of observations and the
\* verdict hold has its type, through every eviction.
THEOREM CacheTypes == Spec => []TypeOK
BY Invariant, PTL DEF IInv

\* equivocation.js, "Map preserves insertion order": the cache is in the order of age
\* and has one entry a key, whatever is refreshed, expires or is evicted, which is
\* what its two evictions rely on.
THEOREM CacheIsOldestFirst == Spec => []OldestFirst
BY Invariant, PTL DEF IInv

-----------------------------------------------------------------------------
(* The cache is the memory of EquivocationMemory: what it remembers under a key is *)
(* the one entry of the key that is within the window.                             *)

Keys == Peers \X Heights
KeyOf(e) == <<e.peer, e.height>>
Holds(entries, k, i) ==
  i \in DOMAIN entries /\ KeyOf(entries[i]) = k /\ entries[i].age < Window

LEMMA KeyType ==
  ASSUME NEW e \in Entries
  PROVE  /\ KeyOf(e) \in Keys
         /\ \A k \in Keys : OfKey(e, k[1], k[2]) <=> KeyOf(e) = k
         /\ \A p, h : OfKey(e, p, h) <=> KeyOf(e) = <<p, h>>
BY EntryType DEF KeyOf, Keys, OfKey

LEMMA OneOfKey ==
  ASSUME NEW entries \in Seq(Entries), Ordered(entries),
         NEW i \in DOMAIN entries, NEW j \in DOMAIN entries, KeyOf(entries[i]) = KeyOf(entries[j])
  PROVE  i = j
<1>1. i < j \/ j < i \/ i = j
  OBVIOUS
<1>2. entries[i].peer = entries[j].peer /\ entries[i].height = entries[j].height
  BY DEF KeyOf
<1> QED BY <1>1, <1>2 DEF Ordered, OfKey

LEMMA SaidOf ==
  ASSUME NEW entries \in Seq(Entries), Ordered(entries), NEW k \in Keys
  PROVE  /\ \A i : Holds(entries, k, i) =>
              /\ SaidIn(entries)[k] = [hash |-> entries[i].hash, age |-> entries[i].age]
              /\ SaidIn(entries)[k] # None
              /\ SaidIn(entries)[k].hash = entries[i].hash
              /\ SaidIn(entries)[k].age = entries[i].age
         /\ (\A i : ~Holds(entries, k, i)) => SaidIn(entries)[k] = None
<1>1. SaidIn(entries)[k] =
        IF Fresh(entries, k) = {} THEN None
        ELSE LET e == CHOOSE e \in Fresh(entries, k) : TRUE IN [hash |-> e.hash, age |-> e.age]
  BY DEF SaidIn, Keys
<1>2. \A e : e \in Fresh(entries, k) <=> \E i : Holds(entries, k, i) /\ e = entries[i]
  BY KeyType DEF Fresh, Holds, ToSet
<1>3. ASSUME NEW i, Holds(entries, k, i)
      PROVE  /\ SaidIn(entries)[k] = [hash |-> entries[i].hash, age |-> entries[i].age]
             /\ SaidIn(entries)[k] # None
             /\ SaidIn(entries)[k].hash = entries[i].hash
             /\ SaidIn(entries)[k].age = entries[i].age
  <2>1. i \in DOMAIN entries /\ entries[i] \in Fresh(entries, k) /\ entries[i] \in Entries
    BY <1>2, <1>3 DEF Holds
  <2>2. \A e \in Fresh(entries, k) : e = entries[i]
    <3> SUFFICES ASSUME NEW e \in Fresh(entries, k) PROVE e = entries[i]
      OBVIOUS
    <3>1. PICK j : Holds(entries, k, j) /\ e = entries[j]
      BY <1>2
    <3>2. j = i
      BY <1>3, <3>1, OneOfKey DEF Holds
    <3> QED BY <3>1, <3>2
  <2>3. (CHOOSE e \in Fresh(entries, k) : TRUE) = entries[i]
    BY <2>1, <2>2
  <2>4. SaidIn(entries)[k] = [hash |-> entries[i].hash, age |-> entries[i].age]
    BY <1>1, <2>1, <2>3
  <2>5. [hash |-> entries[i].hash, age |-> entries[i].age] \in [hash : Hashes, age : Nat]
    BY <2>1, EntryType
  <2> QED BY <2>4, <2>5, NoneAssumption
<1>4. ASSUME \A i : ~Holds(entries, k, i) PROVE SaidIn(entries)[k] = None
  BY <1>1, <1>2, <1>4
<1> QED BY <1>3, <1>4

\* As many keys as entries.
KeysIn(b, c) == {KeyOf(cache[j]) : j \in b + 1 .. c}

LEMMA KeysCounted ==
  ASSUME cache \in Seq(Entries), OldestFirst, NEW b \in Nat, NEW c \in Nat,
         b <= c, c <= Len(cache)
  PROVE  IsFiniteSet(KeysIn(b, c)) /\ Cardinality(KeysIn(b, c)) = c - b
<1> PICK places : places = b + 1 .. c
  OBVIOUS
<1> PICK f : f = [j \in places |-> KeyOf(cache[j])]
  OBVIOUS
<1>1. \A j \in places : j \in DOMAIN cache
  OBVIOUS
<1>2. f \in [places -> KeysIn(b, c)]
  BY DEF KeysIn
<1>3. IsInjective(f)
  <2>1. Ordered(cache)
    BY DEF OldestFirst, Ordered
  <2> SUFFICES ASSUME NEW i \in places, NEW j \in places, f[i] = f[j] PROVE i = j
    BY DEF IsInjective
  <2>2. KeyOf(cache[i]) = KeyOf(cache[j])
    OBVIOUS
  <2> QED BY <1>1, <2>1, <2>2, OneOfKey
<1>4. \A k \in KeysIn(b, c) : \E j \in places : f[j] = k
  BY DEF KeysIn
<1>5. ExistsBijection(places, KeysIn(b, c))
  BY <1>2, <1>3, <1>4 DEF ExistsBijection, Bijection, Injection, Surjection
<1>6. IsFiniteSet(places) /\ Cardinality(places) = c - b
  <2>1. b + 1 \in Int /\ c \in Int
    OBVIOUS
  <2>2. /\ IsFiniteSet(b + 1 .. c)
        /\ Cardinality(b + 1 .. c) = IF b + 1 > c THEN 0 ELSE c - (b + 1) + 1
    BY <2>1, FS_Interval
  <2> QED BY <2>2
<1> QED BY <1>5, <1>6, FS_Bijection

\* What is within the window is at the end.
LEMMA FreshAreLast ==
  ASSUME cache \in Seq(Entries), OldestFirst
  PROVE  \E b \in 0 .. Len(cache) : \A i \in DOMAIN cache : cache[i].age < Window <=> i > b
<1> PICK fresh : fresh = {i \in DOMAIN cache : cache[i].age < Window}
  OBVIOUS
<1>0. fresh \subseteq 1 .. Len(cache) /\ fresh \subseteq Nat /\ Len(cache) \in Nat
  OBVIOUS
<1>1. CASE fresh = {}
  BY <1>0, <1>1
<1>2. CASE fresh # {}
  <2> PICK first : first = Min(fresh)
    OBVIOUS
  <2>1. first \in fresh /\ \A i \in fresh : first <= i
    BY <1>0, <1>2, LeastIsMember
  <2> DEFINE b == first - 1
  <2>2. b \in 0 .. Len(cache) /\ b + 1 = first /\ first \in Nat
    BY <1>0, <2>1
  <2>3. ASSUME NEW i \in 1 .. Len(cache) PROVE cache[i].age < Window <=> i > b
    <3>1. CASE i < first
      <4>1. i \notin fresh
        BY <1>0, <2>1, <3>1
      <4> QED BY <2>2, <3>1, <4>1
    <3>2. CASE i >= first
      <4>1. cache[i].age <= cache[first].age
        <5>1. CASE i = first
          <6>1. cache[i].age \in Nat
            BY EntryType
          <6> QED BY <5>1, <6>1
        <5>2. CASE i > first
          BY <1>0, <2>1, <5>2 DEF OldestFirst
        <5> QED BY <2>2, <3>2, <5>1, <5>2
      <4>2. cache[first].age < Window /\ cache[first] \in Entries /\ cache[i] \in Entries
        BY <1>0, <2>1
      <4>3. cache[first].age \in Nat /\ cache[i].age \in Nat /\ Window \in Nat
        BY <4>2, EntryType
      <4> QED BY <2>2, <3>2, <4>1, <4>2, <4>3
    <3> QED BY <2>2, <3>1, <3>2
  <2> HIDE DEF b
  <2> QED BY <2>2, <2>3
<1> QED BY <1>1, <1>2

LEMMA RememberedKeys ==
  ASSUME cache \in Seq(Entries), OldestFirst, NEW b \in 0 .. Len(cache),
         \A i \in DOMAIN cache : cache[i].age < Window <=> i > b
  PROVE  Memory!Remembered = KeysIn(b, Len(cache))
<1>1. Ordered(cache)
  BY DEF OldestFirst, Ordered
<1>2. \A i : i \in b + 1 .. Len(cache) <=> i \in DOMAIN cache /\ cache[i].age < Window
  <2>1. \A i \in DOMAIN cache : i \in b + 1 .. Len(cache) <=> i > b
    OBVIOUS
  <2> QED BY <2>1
<1>3. \A i \in DOMAIN cache : cache[i] \in Entries
  OBVIOUS
<1>4. \A k \in Keys : SaidIn(cache)[k] # None <=> k \in KeysIn(b, Len(cache))
  <2> SUFFICES ASSUME NEW k \in Keys
               PROVE  SaidIn(cache)[k] # None <=> k \in KeysIn(b, Len(cache))
    OBVIOUS
  <2>1. SaidIn(cache)[k] # None <=> \E i : Holds(cache, k, i)
    BY <1>1, SaidOf
  <2>2. k \in KeysIn(b, Len(cache)) <=> \E i : Holds(cache, k, i)
    BY <1>2 DEF KeysIn, Holds
  <2> QED BY <2>1, <2>2
<1>5. KeysIn(b, Len(cache)) \subseteq Keys
  BY <1>2, <1>3, KeyType DEF KeysIn
<1>6. Memory!Remembered = {k \in Keys : SaidIn(cache)[k] # None}
  BY DEF Memory!Remembered, Memory!Keys, Keys
<1> QED BY <1>4, <1>5, <1>6

\* The memory counts as the cache does.
LEMMA SameCardinality == ASSUME NEW S PROVE Memory!Cardinality(S) = Cardinality(S)
BY DEF Memory!Cardinality, Cardinality

\* What the cache evicts before a frame is what the memory may lose.
LEMMA Forgetting ==
  ASSUME cache \in Seq(Entries), OldestFirst
  PROVE  \E lost \in Memory!Losses : Memory!Left(lost) = SaidIn(Evicted)
<1> PICK n \in Nat : n = Len(cache)
  OBVIOUS
<1>1. PICK b \in 0 .. n : \A i \in DOMAIN cache : cache[i].age < Window <=> i > b
  BY FreshAreLast
<1>2. PICK c \in 0 .. n :
        /\ IsEnd(Evicted, cache, c) /\ n - c <= MaxEntries
        /\ c = n - MaxEntries \/ \A i \in 1 .. c : Expired(cache[i])
  BY EvictedIsEnd
<1>3. Evicted \in Seq(Entries) /\ Ordered(Evicted) /\ Ordered(cache)
  BY EvictedOrdered DEF OldestFirst, Ordered
<1>4. /\ DOMAIN cache = 1 .. n /\ DOMAIN Evicted = 1 .. n - c
      /\ \A i \in 1 .. n - c : Evicted[i] = cache[i + c]
      /\ \A i \in 1 .. n : cache[i] \in Entries
  BY <1>2, <1>3 DEF IsEnd
<1>5. MaxEntries \in Nat /\ Window \in Nat
  BY NumbersAssumption
<1> PICK lost : lost = KeysIn(b, c)
  OBVIOUS
<1>6. Memory!Remembered = KeysIn(b, n) /\ Cardinality(KeysIn(b, n)) = n - b
  BY <1>1, RememberedKeys, KeysCounted
<1>7. lost \in Memory!Losses
  <2> DEFINE excess == Cardinality(Memory!Remembered) - MaxEntries
  <2>1. Memory!Losses =
          IF excess <= 0 THEN {{}}
          ELSE {gone \in SUBSET Memory!Remembered :
                  /\ Cardinality(gone) = excess
                  /\ \A k \in gone, l \in Memory!Remembered \ gone :
                       SaidIn(cache)[k].age >= SaidIn(cache)[l].age}
    BY SameCardinality DEF Memory!Losses
  <2>0. excess = n - b - MaxEntries
    BY <1>6
  <2> HIDE DEF excess
  <2>2. CASE c <= b
    <3>1. excess <= 0
      BY <1>2, <1>5, <2>0, <2>2
    <3>2. lost = {}
      <4>1. b + 1 .. c = {}
        BY <2>2
      <4> QED BY <4>1 DEF KeysIn
    <3> QED BY <2>1, <3>1, <3>2
  <2>3. CASE c > b
    <3>1. c = n - MaxEntries
      <4>1. cache[c].age < Window /\ cache[c] \in Entries /\ c \in 1 .. c
        BY <1>1, <1>4, <2>3
      <4>2. ~Expired(cache[c])
        <5>1. cache[c].age \in Nat
          BY <4>1, EntryType
        <5> QED BY <1>5, <4>1, <5>1 DEF Expired
      <4> QED BY <1>2, <4>1, <4>2
    <3>2. excess = c - b /\ ~(excess <= 0)
      BY <1>5, <2>0, <2>3, <3>1
    <3>3. Cardinality(lost) = excess
      <4>1. b \in Nat /\ c \in Nat /\ b <= c /\ c <= Len(cache)
        BY <2>3
      <4> QED BY <3>2, <4>1, KeysCounted
    <3>4. lost \subseteq KeysIn(b, n)
      BY DEF KeysIn
    <3>5. ASSUME NEW k \in lost, NEW l \in KeysIn(b, n) \ lost
          PROVE  SaidIn(cache)[k].age >= SaidIn(cache)[l].age
      <4>1. PICK i \in b + 1 .. c : k = KeyOf(cache[i])
        BY DEF KeysIn
      <4>2. PICK j \in b + 1 .. n : l = KeyOf(cache[j])
        BY DEF KeysIn
      <4>3. j \notin b + 1 .. c
        BY <4>2 DEF KeysIn
      <4>4. i \in 1 .. n /\ j \in 1 .. n /\ i < j /\ i > b /\ j > b
        BY <4>1, <4>2, <4>3
      <4>5. k \in Keys /\ l \in Keys /\ Holds(cache, k, i) /\ Holds(cache, l, j)
        BY <1>1, <1>4, <4>1, <4>2, <4>4, KeyType DEF Holds
      <4>6. SaidIn(cache)[k].age = cache[i].age /\ SaidIn(cache)[l].age = cache[j].age
        BY <1>3, <4>5, SaidOf
      <4>7. cache[i].age >= cache[j].age
        BY <1>3, <1>4, <4>4 DEF Ordered
      <4> QED BY <4>6, <4>7
    <3> QED BY <1>6, <2>1, <3>2, <3>3, <3>4, <3>5
  <2> QED BY <2>2, <2>3
<1>8. ASSUME NEW k \in Keys
      PROVE  SaidIn(Evicted)[k] = IF k \in lost THEN None ELSE SaidIn(cache)[k]
  <2>1. \A i \in 1 .. n - c : i + c \in 1 .. n /\ i + c > c
    OBVIOUS
  <2>2. \A i : Holds(Evicted, k, i) => i \in 1 .. n - c /\ Holds(cache, k, i + c)
    BY <1>4, <2>1 DEF Holds
  <2>3. CASE k \in lost
    <3>1. PICK j \in b + 1 .. c : k = KeyOf(cache[j])
      BY <2>3 DEF KeysIn
    <3>2. \A i : ~Holds(Evicted, k, i)
      <4> SUFFICES ASSUME NEW i, Holds(Evicted, k, i) PROVE FALSE
        OBVIOUS
      <4>1. i + c \in 1 .. n /\ i + c > c /\ KeyOf(cache[i + c]) = KeyOf(cache[j])
        BY <2>1, <2>2, <3>1 DEF Holds
      <4>2. j \in 1 .. n /\ j <= c
        OBVIOUS
      <4>3. i + c = j
        BY <1>3, <1>4, <4>1, <4>2, OneOfKey
      <4> QED BY <4>1, <4>2, <4>3
    <3> QED BY <1>3, <2>3, <3>2, SaidOf
  <2>4. CASE k \notin lost /\ \E j : Holds(cache, k, j)
    <3>1. PICK j : Holds(cache, k, j)
      BY <2>4
    <3>2. j \in 1 .. n /\ j > b /\ k = KeyOf(cache[j]) /\ cache[j].age < Window
      BY <1>1, <1>4, <3>1 DEF Holds
    <3>3. j > c
      <4>1. j \notin b + 1 .. c
        BY <2>4, <3>2 DEF KeysIn
      <4> QED BY <3>2, <4>1
    <3>4. j - c \in 1 .. n - c /\ (j - c) + c = j
      BY <3>2, <3>3
    <3>5. Evicted[j - c] = cache[j] /\ Holds(Evicted, k, j - c)
      BY <1>4, <3>2, <3>4 DEF Holds
    <3>6. /\ SaidIn(Evicted)[k] = [hash |-> cache[j].hash, age |-> cache[j].age]
          /\ SaidIn(cache)[k] = [hash |-> cache[j].hash, age |-> cache[j].age]
      <4>1. SaidIn(cache)[k] = [hash |-> cache[j].hash, age |-> cache[j].age]
        BY <1>3, <3>1, SaidOf
      <4>2. SaidIn(Evicted)[k] = [hash |-> Evicted[j - c].hash, age |-> Evicted[j - c].age]
        BY <1>3, <3>5, SaidOf
      <4> QED BY <3>5, <4>1, <4>2
    <3> QED BY <2>4, <3>6
  <2>5. CASE k \notin lost /\ ~\E j : Holds(cache, k, j)
    <3>1. SaidIn(cache)[k] = None /\ SaidIn(Evicted)[k] = None
      BY <1>3, <2>2, <2>5, SaidOf
    <3> QED BY <2>5, <3>1
  <2> QED BY <2>3, <2>4, <2>5
<1>9. Memory!Left(lost) = SaidIn(Evicted)
  <2>1. Memory!Left(lost) = [k \in Keys |-> IF k \in lost THEN None ELSE SaidIn(cache)[k]]
    BY DEF Memory!Left, Memory!Keys, Keys
  <2>2. SaidIn(Evicted) = [k \in Keys |-> SaidIn(Evicted)[k]]
    BY DEF SaidIn, Keys
  <2> QED BY <1>8, <2>1, <2>2
<1> QED BY <1>7, <1>9

LEMMA ConsistentRefines ==
  ASSUME IInv, NEW p \in Peers, NEW h \in Heights, NEW x \in Hashes, Consistent(p, h, x)
  PROVE  Memory!Say(<<p, h>>, x)
<1> PICK key \in Keys : key = <<p, h>>
  BY DEF Keys
<1> PICK new : new = [peer |-> p, height |-> h, hash |-> x, age |-> 0]
  OBVIOUS
<1>1. cache \in Seq(Entries) /\ OldestFirst
  BY DEF IInv, TypeOK
<1>2. PICK lost \in Memory!Losses : Memory!Left(lost) = SaidIn(Evicted)
  BY <1>1, Forgetting
<1>3. Evicted \in Seq(Entries) /\ Ordered(Evicted)
  BY <1>1, EvictedOrdered
<1>4. /\ Evidence(p, h, x) = {} /\ cache' = Refreshed(p, h, x)
      /\ verdict' = [kind |-> "announce", peer |-> p, height |-> h, existing |-> None]
  BY DEF Consistent, Judge
<1>5. \A i \in DOMAIN Evicted : Evicted[i] \in Entries
  BY <1>3
<1>6. ~Memory!Contradicts(Memory!Left(lost), key, x)
  <2> SUFFICES ASSUME SaidIn(Evicted)[key] # None, SaidIn(Evicted)[key].hash # x
               PROVE  FALSE
    BY <1>2 DEF Memory!Contradicts
  <2>1. PICK i : Holds(Evicted, key, i)
    BY <1>3, SaidOf
  <2>2. SaidIn(Evicted)[key].hash = Evicted[i].hash
    BY <1>3, <2>1, SaidOf
  <2>3. i \in DOMAIN Evicted /\ OfKey(Evicted[i], p, h) /\ Evicted[i].age < Window
    BY <1>5, <2>1, KeyType DEF Holds
  <2>4. Evicted[i] \in Evidence(p, h, x)
    BY <2>2, <2>3 DEF Evidence, ToSet
  <2> QED BY <1>4, <2>4
<1>7. /\ cache' \in Seq(Entries) /\ Ordered(cache')
      /\ \E i \in DOMAIN cache' : cache'[i] = new
      /\ \A i \in DOMAIN cache' : cache'[i] = new \/ \E j \in DOMAIN Evicted : cache'[i] = Evicted[j]
      /\ \A j \in DOMAIN Evicted : ~OfKey(Evicted[j], p, h) =>
           \E i \in DOMAIN cache' : cache'[i] = Evicted[j]
  BY <1>1, <1>4, RefreshedOrdered
<1>8. KeyOf(new) = key /\ new.hash = x /\ new.age = 0 /\ 0 < Window
  BY NumbersAssumption DEF KeyOf
<1>9. ASSUME NEW k \in Keys
      PROVE  SaidIn(cache')[k] = IF k = key THEN [hash |-> x, age |-> 0] ELSE SaidIn(Evicted)[k]
  <2>1. CASE k = key
    <3>1. PICK i \in DOMAIN cache' : cache'[i] = new
      BY <1>7
    <3>2. Holds(cache', k, i)
      BY <1>8, <2>1, <3>1 DEF Holds
    <3>3. SaidIn(cache')[k] = [hash |-> cache'[i].hash, age |-> cache'[i].age]
      BY <1>7, <3>2, SaidOf
    <3> QED BY <1>8, <2>1, <3>1, <3>3
  <2>2. CASE k # key
    <3>1. ASSUME NEW i, Holds(cache', k, i)
          PROVE  \E j : Holds(Evicted, k, j)
      BY <1>7, <1>8, <2>2, <3>1 DEF Holds
    <3>2. CASE \E j : Holds(Evicted, k, j)
      <4>1. PICK j : Holds(Evicted, k, j)
        BY <3>2
      <4>2. j \in DOMAIN Evicted /\ ~OfKey(Evicted[j], p, h)
        BY <1>5, <2>2, <4>1, KeyType DEF Holds
      <4>3. PICK i \in DOMAIN cache' : cache'[i] = Evicted[j]
        BY <1>7, <4>2
      <4>4. Holds(cache', k, i)
        BY <4>1, <4>3 DEF Holds
      <4>5. SaidIn(cache')[k] = [hash |-> cache'[i].hash, age |-> cache'[i].age]
        BY <1>7, <4>4, SaidOf
      <4>6. SaidIn(Evicted)[k] = [hash |-> Evicted[j].hash, age |-> Evicted[j].age]
        BY <1>3, <4>1, SaidOf
      <4> QED BY <2>2, <4>3, <4>5, <4>6
    <3>3. CASE ~\E j : Holds(Evicted, k, j)
      <4>1. SaidIn(cache')[k] = None
        BY <1>7, <3>1, <3>3, SaidOf
      <4>2. SaidIn(Evicted)[k] = None
        BY <1>3, <3>3, SaidOf
      <4> QED BY <2>2, <4>1, <4>2
    <3> QED BY <3>2, <3>3
  <2> QED BY <2>1, <2>2
<1>10. SaidIn(cache') = [SaidIn(Evicted) EXCEPT ![key] = [hash |-> x, age |-> 0]]
  <2>1. /\ SaidIn(cache') = [k \in Keys |-> SaidIn(cache')[k]]
        /\ SaidIn(Evicted) = [k \in Keys |-> SaidIn(Evicted)[k]]
    BY DEF SaidIn, Keys
  <2> QED BY <1>9, <2>1
<1>11. ~(verdict' # None /\ verdict'.kind # "announce")
  BY <1>4
<1> QED BY <1>2, <1>6, <1>10, <1>11 DEF Memory!Say

LEMMA ContradictoryRefines ==
  ASSUME IInv, NEW p \in Peers, NEW h \in Heights, NEW x \in Hashes, Contradictory(p, h, x)
  PROVE  Memory!Catch(<<p, h>>, x)
<1> PICK key \in Keys : key = <<p, h>>
  BY DEF Keys
<1>1. cache \in Seq(Entries) /\ OldestFirst /\ TypeOK
  BY DEF IInv, TypeOK
<1>2. PICK lost \in Memory!Losses : Memory!Left(lost) = SaidIn(Evicted)
  BY <1>1, Forgetting
<1>3. Evicted \in Seq(Entries) /\ Ordered(Evicted)
  BY <1>1, EvictedOrdered
<1>4. PICK e \in Evidence(p, h, x) :
        /\ cache' = Evicted
        /\ Judge(p, h, IF LooksLikeHonestReorg(observed', h, e.hash) THEN "reorg" ELSE "ban", e.hash)
  BY DEF Contradictory
<1>5. PICK i \in DOMAIN Evicted : /\ e = Evicted[i] /\ OfKey(e, p, h)
                                  /\ e.age < Window /\ e.hash # x
  BY DEF Evidence, ToSet
<1>6. Holds(Evicted, key, i)
  <2>1. e \in Entries
    BY <1>3, <1>5
  <2> QED BY <1>5, <2>1, KeyType DEF Holds
<1>7. Memory!Contradicts(Memory!Left(lost), key, x)
  <2>1. SaidIn(Evicted)[key] # None /\ SaidIn(Evicted)[key].hash = e.hash
    BY <1>3, <1>5, <1>6, SaidOf
  <2> QED BY <1>2, <1>5, <2>1 DEF Memory!Contradicts
<1>8. verdict' # None /\ verdict'.kind # "announce"
  <2> PICK kind : kind = IF LooksLikeHonestReorg(observed', h, e.hash) THEN "reorg" ELSE "ban"
    OBVIOUS
  <2>1. verdict' = [kind |-> kind, peer |-> p, height |-> h, existing |-> e.hash]
    BY <1>4 DEF Judge
  <2>2. kind \in {"announce", "reorg", "ban"} /\ kind # "announce" /\ e.hash \in Hashes \cup {None}
    BY <1>1, EvidenceType
  <2>3. verdict' \in Verdicts
    BY <2>1, <2>2 DEF Verdicts
  <2> QED BY <2>1, <2>2, <2>3, NoneAssumption
<1> QED BY <1>2, <1>4, <1>7, <1>8 DEF Memory!Catch

LEMMA TickRefines ==
  ASSUME IInv, Tick
  PROVE  Memory!Wait
<1>1. cache \in Seq(Entries) /\ OldestFirst
  BY DEF IInv, TypeOK
<1>2. /\ cache' \in Seq(Entries) /\ Ordered(cache') /\ DOMAIN cache' = DOMAIN cache
      /\ \A i \in DOMAIN cache :
           /\ cache'[i].peer = cache[i].peer /\ cache'[i].height = cache[i].height
           /\ cache'[i].hash = cache[i].hash
           /\ cache'[i].age = IF cache[i].age > Window THEN cache[i].age ELSE cache[i].age + 1
  BY <1>1, TickOrdered
<1>3. Ordered(cache) /\ \A i \in DOMAIN cache : cache[i] \in Entries
  BY <1>1 DEF OldestFirst, Ordered
<1>4. \A i \in DOMAIN cache : /\ KeyOf(cache'[i]) = KeyOf(cache[i])
                              /\ cache[i].age \in Nat /\ Window \in Nat
  BY <1>2, <1>3, EntryType DEF KeyOf
<1>5. ASSUME NEW k \in Keys
      PROVE  SaidIn(cache')[k] = Memory!Older(SaidIn(cache)[k])
  <2>1. ASSUME NEW i, Holds(cache', k, i)
        PROVE  Holds(cache, k, i) /\ cache'[i].age = cache[i].age + 1
    <3>1. i \in DOMAIN cache /\ KeyOf(cache[i]) = k /\ cache'[i].age < Window
      BY <1>2, <1>4, <2>1 DEF Holds
    <3>2. cache[i].age < Window /\ cache'[i].age = cache[i].age + 1
      BY <1>2, <1>4, <3>1
    <3> QED BY <3>1, <3>2 DEF Holds
  <2>2. CASE \E j : Holds(cache, k, j)
    <3>1. PICK j : Holds(cache, k, j)
      BY <2>2
    <3> PICK was : was = [hash |-> cache[j].hash, age |-> cache[j].age]
      OBVIOUS
    <3>2. SaidIn(cache)[k] = was /\ was # None
      BY <1>1, <1>3, <3>1, SaidOf
    <3>3. /\ j \in DOMAIN cache /\ cache'[j].age = cache[j].age + 1 /\ KeyOf(cache'[j]) = k
          /\ cache'[j].hash = cache[j].hash
      BY <1>2, <1>4, <3>1 DEF Holds
    <3>4. CASE cache[j].age + 1 >= Window
      <4>1. Memory!Older(was) = None
        BY <3>4 DEF Memory!Older
      <4>2. \A i : ~Holds(cache', k, i)
        <5> SUFFICES ASSUME NEW i, Holds(cache', k, i) PROVE FALSE
          OBVIOUS
        <5>1. i = j
          BY <1>1, <1>3, <2>1, <3>1, OneOfKey DEF Holds
        <5>2. cache'[j].age < Window
          BY <5>1 DEF Holds
        <5> QED BY <1>4, <3>3, <3>4, <5>2
      <4> QED BY <1>2, <3>2, <4>1, <4>2, SaidOf
    <3>5. CASE ~(cache[j].age + 1 >= Window)
      <4>1. Holds(cache', k, j)
        BY <1>2, <1>4, <3>3, <3>5 DEF Holds
      <4>2. SaidIn(cache')[k] = [hash |-> cache'[j].hash, age |-> cache'[j].age]
        BY <1>2, <4>1, SaidOf
      <4>3. Memory!Older(was) = [hash |-> cache[j].hash, age |-> cache[j].age + 1]
        BY <3>2, <3>5 DEF Memory!Older
      <4> QED BY <3>2, <3>3, <4>2, <4>3
    <3> QED BY <3>4, <3>5
  <2>3. CASE ~\E j : Holds(cache, k, j)
    <3>1. SaidIn(cache)[k] = None
      BY <1>3, <1>1, <2>3, SaidOf
    <3>2. SaidIn(cache')[k] = None
      BY <1>2, <2>1, <2>3, SaidOf
    <3> QED BY <3>1, <3>2 DEF Memory!Older
  <2> QED BY <2>2, <2>3
<1>6. SaidIn(cache') = [k \in Memory!Keys |-> Memory!Older(SaidIn(cache)[k])]
  <2>1. SaidIn(cache') = [k \in Keys |-> SaidIn(cache')[k]] /\ Memory!Keys = Keys
    BY DEF SaidIn, Keys, Memory!Keys
  <2> QED BY <1>5, <2>1
<1>7. verdict' = None
  BY DEF Tick
<1> QED BY <1>6, <1>7 DEF Memory!Wait

LEMMA InitRefines == Init => Memory!Init
<1> SUFFICES ASSUME Init PROVE Memory!Init
  OBVIOUS
<1>1. cache = <<>> /\ verdict = None
  BY DEF Init
<1>2. \A k : Fresh(cache, k) = {}
  BY <1>1 DEF Fresh, ToSet
<1>3. SaidIn(cache) = [k \in Memory!Keys |-> None]
  BY <1>2 DEF SaidIn, Memory!Keys
<1> QED BY <1>1, <1>3 DEF Memory!Init

LEMMA NextRefines ==
  ASSUME IInv, [Next]_vars
  PROVE  [Memory!Next]_<<SaidIn(cache), verdict # None /\ verdict.kind # "announce">>
<1>1. \A p \in Peers, h \in Heights : <<p, h>> \in Memory!Keys
  BY DEF Memory!Keys
<1>2. CASE Tick
  BY <1>2, TickRefines DEF Memory!Next
<1>3. ASSUME NEW p \in Peers, NEW h \in Heights, NEW x \in Hashes, Consistent(p, h, x)
      PROVE  Memory!Next
  BY <1>1, <1>3, ConsistentRefines DEF Memory!Next
<1>4. ASSUME NEW p \in Peers, NEW h \in Heights, NEW x \in Hashes, Contradictory(p, h, x)
      PROVE  Memory!Next
  BY <1>1, <1>4, ContradictoryRefines DEF Memory!Next
<1>5. CASE UNCHANGED vars
  <2>1. cache' = cache /\ verdict' = verdict
    BY <1>5 DEF vars
  <2> QED BY <2>1 DEF SaidIn, Fresh
<1> QED BY <1>2, <1>3, <1>4, <1>5 DEF Next

\* equivocation.js, observe: the cache is the memory it stands for. Within the window
\* no contradiction is missed and none is made up, but for what had to go because more
\* than EQUIVOCATION_CACHE_MAX keys are fresh, and that is what is oldest.
THEOREM CacheIsMemory == Spec => NoContradictionIsMissed
BY Invariant, InitRefines, NextRefines, PTL DEF Spec, NoContradictionIsMissed, Memory!Spec

-----------------------------------------------------------------------------
(* What is made of a contradiction is just. *)

\* A log, whole or before it is cut, that says nothing that has not been said, and has
\* one record of a height.
Sound(log, said) ==
  /\ \A i, j \in DOMAIN log : log[i].height = log[j].height => i = j
  /\ \A i \in DOMAIN log :
       /\ \E q \in Peers, y \in Hashes : <<q, log[i].height, y>> \in said
       /\ \A y \in Hashes : \A q \in log[i].seenBy[y] : <<q, log[i].height, y>> \in said

\* The log has all that was said of h, and after it only heights that came up since.
Complete(log, said, since, h) ==
  \E i \in DOMAIN log :
    /\ log[i].height = h
    /\ \A y \in Hashes, q \in Peers : <<q, h, y>> \in said => q \in log[i].seenBy[y]
    /\ \A j \in DOMAIN log : j > i => log[j].height \in since[h]

\* What the chronicler has written down.
Chronicled ==
  /\ told \subseteq Peers \X Heights \X Hashes
  /\ later \in [Heights -> SUBSET Heights]
  /\ \A h \in Heights : IsFiniteSet(later[h])

CacheIsTold ==
  \A i \in DOMAIN cache : <<cache[i].peer, cache[i].height, cache[i].hash>> \in told
LogIsComplete ==
  \A h \in Heights :
    SpokenOf(h) /\ Cardinality(later[h]) < MaxHeights => Complete(observed, told, later, h)

HInv ==
  /\ IInv /\ Chronicled /\ CacheIsTold
  /\ Sound(observed, told) /\ LogIsComplete /\ VerdictsAreJust

\* The log before it is cut.
Grown(p, h, x) ==
  LET known == \E i \in DOMAIN observed : observed[i].height = h
      log == IF known THEN observed ELSE Append(observed, [height |-> h, seenBy |-> NoOne])
  IN  [i \in DOMAIN log |->
         IF log[i].height = h THEN [log[i] EXCEPT !.seenBy[x] = @ \cup {p}] ELSE log[i]]

\* A sequence changed place by place.
LEMMA MappedIs ==
  ASSUME NEW R, NEW log \in Seq(R), NEW f \in [R -> R],
         NEW all, all = [i \in DOMAIN log |-> f[log[i]]]
  PROVE  /\ all \in Seq(R) /\ Len(all) = Len(log)
         /\ \A i \in 1 .. Len(log) : all[i] = f[log[i]]
  OBVIOUS

\* What a frame makes of the record of its height.
Seen(p, h, x) ==
  [record \in Records |->
     IF record.height = h THEN [record EXCEPT !.seenBy[x] = record.seenBy[x] \cup {p}] ELSE record]

Adds(seen, p, h, x) ==
  /\ seen \in [Records -> Records]
  /\ \A record \in Records :
       /\ seen[record].height = record.height
       /\ record.height # h => seen[record].seenBy = record.seenBy
       /\ record.height = h =>
            \A y \in Hashes : seen[record].seenBy[y] =
              IF y = x THEN record.seenBy[y] \cup {p} ELSE record.seenBy[y]

LEMMA SeenAdds ==
  ASSUME NEW p \in Peers, NEW h \in Heights, NEW x \in Hashes
  PROVE  Adds(Seen(p, h, x), p, h, x)
<1> PICK seen : seen = Seen(p, h, x)
  OBVIOUS
<1>1. ASSUME NEW record \in Records, record.height # h
      PROVE  seen[record] = record
  BY <1>1 DEF Seen
<1>2. ASSUME NEW record \in Records, record.height = h
      PROVE  /\ seen[record] \in Records /\ seen[record].height = record.height
             /\ \A y \in Hashes : seen[record].seenBy[y] =
                  IF y = x THEN record.seenBy[y] \cup {p} ELSE record.seenBy[y]
  <2>1. record.height \in Heights /\ record.seenBy \in [Hashes -> SUBSET Peers]
    BY DEF Records
  <2> PICK grown : grown = [record.seenBy EXCEPT ![x] = record.seenBy[x] \cup {p}]
    OBVIOUS
  <2>2. /\ grown \in [Hashes -> SUBSET Peers]
        /\ \A y \in Hashes : grown[y] =
             IF y = x THEN record.seenBy[y] \cup {p} ELSE record.seenBy[y]
    BY <2>1
  <2>3. [record EXCEPT !.seenBy[x] = record.seenBy[x] \cup {p}] = [record EXCEPT !.seenBy = grown]
    BY DEF Records
  <2>4. /\ [record EXCEPT !.seenBy = grown] \in Records
        /\ [record EXCEPT !.seenBy = grown].height = record.height
        /\ [record EXCEPT !.seenBy = grown].seenBy = grown
    BY <2>2 DEF Records
  <2>5. seen[record] = [record EXCEPT !.seenBy = grown]
    BY <1>2, <2>3 DEF Seen
  <2> QED BY <2>2, <2>4, <2>5
<1>3. /\ DOMAIN seen = Records
      /\ seen = [record \in Records |-> seen[record]]
      /\ \A record \in Records : seen[record] \in Records
  BY <1>1, <1>2 DEF Seen
<1>4. seen \in [Records -> Records]
  BY <1>3
<1> QED BY <1>1, <1>2, <1>4 DEF Adds

OnRecord(h) == \E i \in DOMAIN observed : observed[i].height = h

GrowsTo(all, p, h, x) ==
  /\ all \in Seq(Records)
  /\ Len(all) = IF OnRecord(h) THEN Len(observed) ELSE Len(observed) + 1
  /\ \A i \in 1 .. Len(observed) :
       /\ all[i].height = observed[i].height
       /\ observed[i].height # h => all[i].seenBy = observed[i].seenBy
       /\ observed[i].height = h =>
            \A y \in Hashes : all[i].seenBy[y] =
              IF y = x THEN observed[i].seenBy[y] \cup {p} ELSE observed[i].seenBy[y]
  /\ ~OnRecord(h) =>
       /\ all[Len(observed) + 1].height = h
       /\ \A y \in Hashes : all[Len(observed) + 1].seenBy[y] = IF y = x THEN {p} ELSE {}

LEMMA GrownIs ==
  ASSUME observed \in Seq(Records), NEW p \in Peers, NEW h \in Heights, NEW x \in Hashes
  PROVE  /\ Recorded(p, h, x) = Latest(Grown(p, h, x), MaxHeights)
         /\ GrowsTo(Grown(p, h, x), p, h, x)
<1> PICK all : all = Grown(p, h, x)
  OBVIOUS
<1> PICK n \in Nat : n = Len(observed)
  OBVIOUS
<1> PICK known : known = OnRecord(h)
  OBVIOUS
<1> PICK blank : blank = [height |-> h, seenBy |-> NoOne]
  OBVIOUS
<1> PICK log : log = IF known THEN observed ELSE Append(observed, blank)
  OBVIOUS
<1> PICK seen : seen = Seen(p, h, x)
  OBVIOUS
<1>0. Adds(seen, p, h, x)
  BY SeenAdds
<1>1. /\ blank \in Records /\ blank.height = h
      /\ \A y \in Hashes : blank.seenBy[y] = {}
  BY DEF Records, NoOne
<1>2. /\ log \in Seq(Records)
      /\ Len(log) = IF known THEN n ELSE n + 1
      /\ \A i \in 1 .. n : log[i] = observed[i]
      /\ ~known => log[n + 1] = blank
  <2>1. /\ Append(observed, blank) \in Seq(Records) /\ Len(Append(observed, blank)) = n + 1
        /\ \A i \in 1 .. n : Append(observed, blank)[i] = observed[i]
        /\ Append(observed, blank)[n + 1] = blank
    BY <1>1, AppendProperties
  <2> QED BY <2>1
<1>3. Recorded(p, h, x) = Latest(all, MaxHeights)
  BY DEF Recorded, Grown, OnRecord
<1>4. all = [i \in DOMAIN log |-> seen[log[i]]]
  <2>1. \A i \in DOMAIN log : log[i] \in Records
    BY <1>2
  <2> QED BY <2>1 DEF Grown, Seen, OnRecord
<1>5. all \in Seq(Records) /\ Len(all) = Len(log) /\ \A i \in 1 .. Len(log) : all[i] = seen[log[i]]
  <2>1. log \in Seq(Records) /\ seen \in [Records -> Records]
    BY <1>0, <1>2 DEF Adds
  <2> QED BY ONLY <1>4, <2>1, MappedIs
<1>6. n \in Nat /\ (known => Len(log) = n) /\ (~known => Len(log) = n + 1)
  BY <1>2
<1>7. \A i \in 1 .. n : all[i] = seen[observed[i]] /\ observed[i] \in Records
  <2> SUFFICES ASSUME NEW i \in 1 .. n PROVE all[i] = seen[observed[i]] /\ observed[i] \in Records
    OBVIOUS
  <2>1. i \in 1 .. Len(log)
    BY <1>6
  <2> QED BY <1>2, <1>5, <2>1
<1>8. ~known => all[n + 1] = seen[blank]
  BY <1>2, <1>5, <1>6
<1>9. \A i \in 1 .. n :
        /\ all[i].height = observed[i].height
        /\ observed[i].height # h => all[i].seenBy = observed[i].seenBy
        /\ observed[i].height = h =>
             \A y \in Hashes : all[i].seenBy[y] =
               IF y = x THEN observed[i].seenBy[y] \cup {p} ELSE observed[i].seenBy[y]
  <2> SUFFICES ASSUME NEW i \in 1 .. n
               PROVE  /\ all[i].height = observed[i].height
                      /\ observed[i].height # h => all[i].seenBy = observed[i].seenBy
                      /\ observed[i].height = h =>
                           \A y \in Hashes : all[i].seenBy[y] =
                             IF y = x THEN observed[i].seenBy[y] \cup {p} ELSE observed[i].seenBy[y]
    OBVIOUS
  <2>1. all[i] = seen[observed[i]] /\ observed[i] \in Records
    BY <1>7
  <2>2. ASSUME NEW record \in Records
        PROVE  /\ seen[record].height = record.height
               /\ record.height # h => seen[record].seenBy = record.seenBy
               /\ record.height = h =>
                    \A y \in Hashes : seen[record].seenBy[y] =
                      IF y = x THEN record.seenBy[y] \cup {p} ELSE record.seenBy[y]
    BY <1>0 DEF Adds
  <2> QED BY <2>1, <2>2, Zenon
<1>10. ~known => /\ all[n + 1].height = h
                 /\ \A y \in Hashes : all[n + 1].seenBy[y] = IF y = x THEN {p} ELSE {}
  <2>1. /\ seen[blank].height = h
        /\ \A y \in Hashes : seen[blank].seenBy[y] = IF y = x THEN {p} ELSE {}
    BY ONLY <1>0, <1>1, x \in Hashes DEF Adds
  <2> QED BY <1>8, <2>1
<1>11. Len(all) = IF known THEN n ELSE n + 1
  BY <1>5, <1>6
<1> QED BY <1>3, <1>5, <1>9, <1>10, <1>11 DEF GrowsTo

\* What is left of a log when its front is cut is as sound, and as complete for a
\* height that too few others have followed to push it out.
LEMMA CutIsSound ==
  ASSUME NEW log \in Seq(Records), NEW said, Sound(log, said)
  PROVE  Sound(Latest(log, MaxHeights), said)
<1> PICK rest : rest = Latest(log, MaxHeights)
  OBVIOUS
<1>1. MaxHeights \in Nat
  BY NumbersAssumption
<1>2. rest \in Seq(Records)
  BY <1>1, LatestIsEnd
<1>3. PICK k \in 0 .. Len(log) : IsEnd(rest, log, k)
  BY <1>1, LatestIsEnd
<1>4. \A i \in DOMAIN rest : i \in Nat /\ i + k \in DOMAIN log /\ rest[i] = log[i + k]
  <2>1. Len(rest) = Len(log) - k /\ Len(log) \in Nat /\ \A i \in 1 .. Len(rest) : rest[i] = log[i + k]
    BY <1>3 DEF IsEnd
  <2> QED BY <1>2, <2>1
<1> HIDE DEF IsEnd
<1>5. \A i, j \in DOMAIN rest : rest[i].height = rest[j].height => i = j
  <2> SUFFICES ASSUME NEW i \in DOMAIN rest, NEW j \in DOMAIN rest,
                      rest[i].height = rest[j].height
               PROVE  i = j
    OBVIOUS
  <2>1. i + k = j + k
    BY <1>4 DEF Sound
  <2> QED BY <1>4, <2>1
<1>6. ASSUME NEW i \in DOMAIN rest
      PROVE  /\ \E q \in Peers, y \in Hashes : <<q, rest[i].height, y>> \in said
             /\ \A y \in Hashes : \A q \in rest[i].seenBy[y] : <<q, rest[i].height, y>> \in said
  BY <1>4 DEF Sound
<1> QED BY <1>5, <1>6 DEF Sound

LEMMA CutIsComplete ==
  ASSUME NEW log \in Seq(Records), NEW said, Sound(log, said),
         NEW since, NEW h \in Heights, Complete(log, said, since, h),
         IsFiniteSet(since[h]), Cardinality(since[h]) < MaxHeights
  PROVE  Complete(Latest(log, MaxHeights), said, since, h)
<1> PICK rest : rest = Latest(log, MaxHeights)
  OBVIOUS
<1> PICK n \in Nat : n = Len(log)
  OBVIOUS
<1>1. MaxHeights \in Nat /\ Cardinality(since[h]) \in Nat
  BY NumbersAssumption, FS_CardinalityType
<1>2. PICK i \in 1 .. n :
        /\ log[i].height = h
        /\ \A y \in Hashes, q \in Peers : <<q, h, y>> \in said => q \in log[i].seenBy[y]
        /\ \A j \in DOMAIN log : j > i => log[j].height \in since[h]
  BY DEF Complete
\* Each height that follows is in a place of its own.
<1>3. n - i <= Cardinality(since[h])
  <2> DEFINE Places == i + 1 .. n
             heightAt == [j \in Places |-> log[j].height]
  <2>1. IsFiniteSet(Places) /\ Cardinality(Places) = n - i
    <3>1. i + 1 \in Int /\ n \in Int /\ (i + 1 > n => n - i = 0) /\ n - (i + 1) + 1 = n - i
      OBVIOUS
    <3> QED BY <3>1, FS_Interval
  <2>2. heightAt \in [Places -> since[h]]
    BY <1>2
  <2>3. \A j, l \in Places : heightAt[j] = heightAt[l] => j = l
    BY DEF Sound
  <2> HIDE DEF Places, heightAt
  <2>4. ~(Cardinality(since[h]) < Cardinality(Places))
    BY <2>1, <2>2, <2>3, FS_PigeonHole
  <2> QED BY <1>1, <2>1, <2>4
<1>4. /\ rest \in Seq(Records)
      /\ n <= MaxHeights => rest = log
      /\ n > MaxHeights => Len(rest) = MaxHeights
  BY <1>1, LatestIsEnd
<1>5. CASE n <= MaxHeights
  BY <1>4, <1>5
<1>6. CASE n > MaxHeights
  <2>1. PICK k \in 0 .. n : IsEnd(rest, log, k)
    BY <1>1, LatestIsEnd
  <2>2. k = n - MaxHeights /\ \A j \in 1 .. MaxHeights : rest[j] = log[j + k]
    <3>1. Len(rest) = MaxHeights /\ Len(rest) = n - k
      BY <1>4, <1>6, <2>1 DEF IsEnd
    <3>2. k = n - MaxHeights
      BY <1>1, <3>1
    <3> QED BY <2>1, <3>1, <3>2 DEF IsEnd
  <2>3. DOMAIN rest = 1 .. MaxHeights
    BY <1>4, <1>6
  <2>4. i - k \in DOMAIN rest /\ rest[i - k] = log[i]
    <3>1. i - k \in 1 .. MaxHeights /\ (i - k) + k = i
      BY <1>1, <1>3, <1>6, <2>2
    <3> QED BY <2>2, <2>3, <3>1
  <2>5. ASSUME NEW j \in DOMAIN rest, j > i - k PROVE rest[j].height \in since[h]
    <3>1. j + k \in 1 .. n /\ j + k > i /\ rest[j] = log[j + k]
      BY <1>1, <1>6, <2>2, <2>3, <2>5
    <3> QED BY <1>2, <3>1
  <2> QED BY <1>2, <2>4, <2>5 DEF Complete
<1> QED BY <1>1, <1>5, <1>6

\* A frame that is recorded and chronicled.
LEMMA RecordingIsTrue ==
  ASSUME HInv, NEW p \in Peers, NEW h \in Heights, NEW x \in Hashes,
         observed' = Recorded(p, h, x), Chronicle(p, h, x)
  PROVE  /\ Chronicled' /\ Sound(observed, told)' /\ LogIsComplete'
         /\ told \subseteq told' /\ <<p, h, x>> \in told'
<1> PICK all : all = Grown(p, h, x)
  OBVIOUS
<1> PICK n \in Nat : n = Len(observed)
  BY DEF HInv, IInv, TypeOK
<1> PICK known : known = OnRecord(h)
  OBVIOUS
<1>0. observed' = Latest(all, MaxHeights) /\ GrowsTo(all, p, h, x)
  BY GrownIs DEF HInv, IInv, TypeOK
<1>1. /\ observed \in Seq(Records) /\ DOMAIN observed = 1 .. n
      /\ Chronicled /\ Sound(observed, told) /\ LogIsComplete
  BY DEF HInv, IInv, TypeOK
<1>2. /\ observed' = Latest(all, MaxHeights)
      /\ all \in Seq(Records) /\ Len(all) = IF known THEN n ELSE n + 1
  BY <1>0, <1>1 DEF GrowsTo
<1>3. \A i \in 1 .. n :
        /\ all[i].height = observed[i].height
        /\ observed[i].height # h => all[i].seenBy = observed[i].seenBy
        /\ observed[i].height = h =>
             \A y \in Hashes : all[i].seenBy[y] =
               IF y = x THEN observed[i].seenBy[y] \cup {p} ELSE observed[i].seenBy[y]
  BY <1>0, <1>1 DEF GrowsTo
<1>4. ~known => /\ all[n + 1].height = h
                /\ \A y \in Hashes : all[n + 1].seenBy[y] = IF y = x THEN {p} ELSE {}
  BY <1>0, <1>1 DEF GrowsTo
<1>5. DOMAIN all = 1 .. (IF known THEN n ELSE n + 1)
  BY <1>2
<1>6. /\ told' = told \cup {<<p, h, x>>}
      /\ later' = [g \in Heights |-> IF g # h /\ SpokenOf(g) THEN later[g] \cup {h} ELSE later[g]]
  BY DEF Chronicle
<1>6a. (~known => \A i \in 1 .. n : observed[i].height # h) /\ (known => \E i \in 1 .. n : observed[i].height = h)
  BY <1>1 DEF OnRecord
<1>7. Chronicled'
  <2>1. \A g \in Heights : IsFiniteSet(later[g] \cup {h}) /\ IsFiniteSet(later[g])
    BY <1>1, FS_AddElement DEF Chronicled
  <2> QED BY <1>1, <1>6, <2>1 DEF Chronicled
<1>8. Sound(all, told')
  <2>1. \A i, j \in DOMAIN all : all[i].height = all[j].height => i = j
    <3> SUFFICES ASSUME NEW i \in DOMAIN all, NEW j \in DOMAIN all, all[i].height = all[j].height
                 PROVE  i = j
      OBVIOUS
    <3>1. CASE i \in 1 .. n /\ j \in 1 .. n
      BY <1>1, <1>3, <3>1 DEF Sound
    <3>2. CASE ~(i \in 1 .. n) /\ ~(j \in 1 .. n)
      BY <1>5, <3>2
    <3>3. CASE i \in 1 .. n /\ ~(j \in 1 .. n)
      <4>1. ~known /\ j = n + 1 /\ all[i].height = observed[i].height /\ all[j].height = h
        BY <1>3, <1>4, <1>5, <3>3
      <4> QED BY <1>6a, <3>3, <4>1
    <3>4. CASE ~(i \in 1 .. n) /\ j \in 1 .. n
      <4>1. ~known /\ i = n + 1 /\ all[j].height = observed[j].height /\ all[i].height = h
        BY <1>3, <1>4, <1>5, <3>4
      <4> QED BY <1>6a, <3>4, <4>1
    <3> QED BY <3>1, <3>2, <3>3, <3>4
  <2>2. ASSUME NEW i \in DOMAIN all
        PROVE  /\ \E q \in Peers, y \in Hashes : <<q, all[i].height, y>> \in told'
               /\ \A y \in Hashes : \A q \in all[i].seenBy[y] : <<q, all[i].height, y>> \in told'
    <3>1. CASE i \in 1 .. n
      <4>1. /\ \E q \in Peers, y \in Hashes : <<q, observed[i].height, y>> \in told
            /\ \A y \in Hashes : \A q \in observed[i].seenBy[y] : <<q, observed[i].height, y>> \in told
        BY <1>1, <3>1 DEF Sound
      <4>2. CASE observed[i].height = h
        <5>1. all[i].height = h /\ \A y \in Hashes : all[i].seenBy[y] \subseteq observed[i].seenBy[y] \cup {p}
          BY <1>3, <3>1, <4>2
        <5>2. \A y \in Hashes : y # x => all[i].seenBy[y] = observed[i].seenBy[y]
          BY <1>3, <3>1, <4>2
        <5>3. \A y \in Hashes : \A q \in all[i].seenBy[y] : <<q, h, y>> \in told \cup {<<p, h, x>>}
          BY <4>1, <4>2, <5>1, <5>2
        <5> QED BY <1>6, <4>1, <5>1, <5>3
      <4>3. CASE observed[i].height # h
        BY <1>3, <1>6, <3>1, <4>1, <4>3
      <4> QED BY <4>2, <4>3
    <3>2. CASE ~(i \in 1 .. n)
      <4>1. ~known /\ i = n + 1
        BY <1>5, <3>2
      <4> QED BY <1>4, <1>6, <4>1
    <3> QED BY <3>1, <3>2
  <2> QED BY <2>1, <2>2 DEF Sound
<1>9. ASSUME NEW g \in Heights, SpokenOf(g)', Cardinality(later'[g]) < MaxHeights
      PROVE  Complete(observed', told', later', g)
  <2>1. IsFiniteSet(later'[g])
    BY <1>7 DEF Chronicled
  <2>2. CASE SpokenOf(g)
    <3>1. later[g] \subseteq later'[g] /\ (g # h => h \in later'[g])
      BY <1>6, <2>2
    <3>2. Cardinality(later[g]) < MaxHeights
      <4>1. IsFiniteSet(later[g]) /\ Cardinality(later[g]) <= Cardinality(later'[g])
        BY <2>1, <3>1, FS_Subset
      <4>2. Cardinality(later[g]) \in Nat /\ Cardinality(later'[g]) \in Nat /\ MaxHeights \in Nat
        BY <2>1, <4>1, FS_CardinalityType, NumbersAssumption
      <4> QED BY <1>9, <4>1, <4>2
    <3>3. PICK i \in 1 .. n :
            /\ observed[i].height = g
            /\ \A y \in Hashes, q \in Peers : <<q, g, y>> \in told => q \in observed[i].seenBy[y]
            /\ \A j \in 1 .. n : j > i => observed[j].height \in later[g]
      <4>1. Complete(observed, told, later, g)
        BY <1>1, <2>2, <3>2 DEF LogIsComplete
      <4> QED BY <1>1, <4>1 DEF Complete
    <3>4. i \in DOMAIN all /\ all[i].height = g
      BY <1>3, <1>5, <3>3
    <3>5. ASSUME NEW y \in Hashes, NEW q \in Peers, <<q, g, y>> \in told'
          PROVE  q \in all[i].seenBy[y]
      <4>1. <<q, g, y>> \in told \/ (q = p /\ g = h /\ y = x)
        BY <1>6, <3>5
      <4>2. CASE g = h
        BY <1>3, <3>3, <4>1, <4>2
      <4>3. CASE g # h
        BY <1>3, <3>3, <4>1, <4>3
      <4> QED BY <4>2, <4>3
    <3>6. ASSUME NEW j \in DOMAIN all, j > i PROVE all[j].height \in later'[g]
      <4>1. CASE j \in 1 .. n
        BY <1>3, <3>1, <3>3, <3>6, <4>1
      <4>2. CASE ~(j \in 1 .. n)
        <5>1. ~known /\ j = n + 1 /\ all[j].height = h
          BY <1>4, <1>5, <4>2
        <5>2. g # h
          BY <1>6a, <3>3, <5>1
        <5> QED BY <3>1, <5>1, <5>2
      <4> QED BY <4>1, <4>2
    <3>7. Complete(all, told', later', g)
      BY <3>4, <3>5, <3>6 DEF Complete
    <3> QED BY <1>2, <1>8, <1>9, <2>1, <3>7, CutIsComplete
  <2>3. CASE ~SpokenOf(g)
    <3>1. g = h
      BY <1>6, <1>9, <2>3 DEF SpokenOf
    <3>2. ~known
      BY <1>1, <1>6a, <2>3, <3>1 DEF Sound, SpokenOf
    <3>3. /\ n + 1 \in DOMAIN all /\ all[n + 1].height = g
          /\ \A j \in DOMAIN all : ~(j > n + 1)
      BY <1>4, <1>5, <3>1, <3>2
    <3>4. ASSUME NEW y \in Hashes, NEW q \in Peers, <<q, g, y>> \in told'
          PROVE  q \in all[n + 1].seenBy[y]
      <4>1. q = p /\ y = x
        BY <1>6, <2>3, <3>4 DEF SpokenOf
      <4> QED BY <1>4, <3>2, <4>1
    <3>5. Complete(all, told', later', g)
      BY <3>3, <3>4 DEF Complete
    <3> QED BY <1>2, <1>8, <1>9, <2>1, <3>5, CutIsComplete
  <2> QED BY <2>2, <2>3
<1>10. Sound(observed', told')
  BY <1>2, <1>8, CutIsSound
<1> QED BY <1>6, <1>7, <1>9, <1>10 DEF LogIsComplete

\* What is in the cache was told, whatever is refreshed or evicted.
LEMMA EvictedIsTold ==
  ASSUME HInv
  PROVE  \A i \in DOMAIN Evicted :
           <<Evicted[i].peer, Evicted[i].height, Evicted[i].hash>> \in told
<1>1. cache \in Seq(Entries)
  BY DEF HInv, IInv, TypeOK
<1>2. PICK k \in 0 .. Len(cache) : IsEnd(Evicted, cache, k)
  BY <1>1, EvictedIsEnd
<1>3. Evicted \in Seq(Entries)
  BY <1>1, EvictedIsEnd
<1>4. \A i \in DOMAIN Evicted : i + k \in DOMAIN cache /\ Evicted[i] = cache[i + k]
  BY <1>1, <1>2, <1>3 DEF IsEnd
<1> QED BY <1>4 DEF HInv, CacheIsTold

LEMMA HNextKeepsInv ==
  ASSUME HInv, [HNext]_hvars
  PROVE  HInv'
<1>1. ASSUME NEW p \in Peers, NEW h \in Heights, NEW x \in Hashes,
             Consistent(p, h, x), Chronicle(p, h, x)
      PROVE  HInv'
  <2>1. IInv'
    BY <1>1, ConsistentSteps DEF HInv
  <2>2. /\ Chronicled' /\ Sound(observed, told)' /\ LogIsComplete'
        /\ told \subseteq told' /\ <<p, h, x>> \in told'
    BY <1>1, RecordingIsTrue DEF Consistent
  <2>3. CacheIsTold'
    <3> PICK new : new = [peer |-> p, height |-> h, hash |-> x, age |-> 0]
      OBVIOUS
    <3>1. \A i \in DOMAIN cache' :
            cache'[i] = new \/ \E j \in DOMAIN Evicted : cache'[i] = Evicted[j]
      BY <1>1, RefreshedOrdered DEF HInv, IInv, TypeOK, Consistent
    <3>2. new.peer = p /\ new.height = h /\ new.hash = x
      OBVIOUS
    <3> QED BY <2>2, <3>1, <3>2, EvictedIsTold DEF CacheIsTold
  <2>4. VerdictsAreJust'
    <3>1. verdict'.kind = "announce"
      BY <1>1 DEF Consistent, Judge
    <3> QED BY <3>1 DEF VerdictsAreJust
  <2> QED BY <2>1, <2>2, <2>3, <2>4 DEF HInv
<1>2. ASSUME NEW p \in Peers, NEW h \in Heights, NEW x \in Hashes,
             Contradictory(p, h, x), Chronicle(p, h, x)
      PROVE  HInv'
  <2>1. IInv'
    BY <1>2, ContradictorySteps DEF HInv
  <2>2. PICK e \in Evidence(p, h, x) :
          /\ cache' = Evicted /\ observed' = Recorded(p, h, x)
          /\ Judge(p, h, IF LooksLikeHonestReorg(observed', h, e.hash) THEN "reorg" ELSE "ban", e.hash)
    BY <1>2 DEF Contradictory
  <2>3. /\ Chronicled' /\ Sound(observed, told)' /\ LogIsComplete'
        /\ told \subseteq told' /\ <<p, h, x>> \in told'
    BY <1>2, <2>2, RecordingIsTrue
  <2>4. CacheIsTold'
    BY <2>2, <2>3, EvictedIsTold DEF CacheIsTold
  <2> PICK y : y = e.hash
    OBVIOUS
  <2>5. y \in Hashes /\ <<p, h, y>> \in told'
    <3>1. Evicted \in Seq(Entries)
      BY EvictedIsEnd DEF HInv, IInv, TypeOK
    <3>2. PICK i \in DOMAIN Evicted : Evicted[i] = e
      BY <3>1 DEF Evidence, ToSet
    <3>3. e.peer = p /\ e.height = h
      BY DEF Evidence, OfKey
    <3> QED BY <2>3, <3>2, <3>3, EvictedIsTold, EvidenceType DEF HInv, IInv
  <2>6. VerdictsAreJust'
    <3> PICK said : said = Witnesses(h, y)'
      OBVIOUS
    <3> PICK seers : seers = Observers(observed', h, y)
      OBVIOUS
    <3> PICK kind : kind = IF \E q, r \in seers : q # r THEN "reorg" ELSE "ban"
      OBVIOUS
    <3>1. /\ verdict'.peer = p /\ verdict'.height = h /\ verdict'.existing = y
          /\ verdict'.kind = kind
      BY <2>2 DEF Judge, LooksLikeHonestReorg
    <3>2. p \in said /\ \A q \in Peers : q \in said <=> <<q, h, y>> \in told'
      BY <2>5 DEF Witnesses
    <3>3. seers \subseteq said
      <4>1. observed' \in Seq(Records)
        BY <2>1 DEF IInv, TypeOK
      <4> SUFFICES ASSUME NEW i \in DOMAIN observed', observed'[i].height = h,
                          NEW q \in observed'[i].seenBy[y]
                   PROVE  q \in said
        BY DEF Observers
      <4>2. q \in Peers
        <5>1. observed'[i] \in Records /\ y \in Hashes
          BY <2>5, <4>1
        <5> QED BY <5>1 DEF Records
      <4> QED BY <2>3, <2>5, <3>2, <4>2 DEF Sound
    <3>4. kind = "reorg" => said # {p}
      BY <3>3
    <3>5. ASSUME kind = "ban", ~(Cardinality(later'[h]) >= MaxHeights) PROVE said = {p}
      <4>1. Cardinality(later'[h]) < MaxHeights
        <5>1. Cardinality(later'[h]) \in Nat /\ MaxHeights \in Nat
          BY <2>3, FS_CardinalityType, NumbersAssumption DEF Chronicled
        <5> QED BY <3>5, <5>1
      <4>2. SpokenOf(h)'
        BY <2>3 DEF SpokenOf
      <4>3. Complete(observed', told', later', h)
        BY <2>3, <4>1, <4>2 DEF LogIsComplete
      <4>4. said \subseteq seers
        <5>1. said \subseteq Peers
          BY DEF Witnesses
        <5> QED BY <2>5, <3>2, <4>3, <5>1 DEF Complete, Observers
      <4>5. \A q, r \in seers : q = r
        BY <3>5
      <4> QED BY <3>2, <4>4, <4>5
    <3> QED BY <3>1, <3>2, <3>4, <3>5 DEF VerdictsAreJust
  <2> QED BY <2>1, <2>3, <2>4, <2>6 DEF HInv
<1>3. ASSUME Tick, UNCHANGED chronicle PROVE HInv'
  <2>1. IInv'
    BY <1>3, NextKeepsInv DEF HInv, Next
  <2>2. verdict' = None /\ observed' = observed /\ told' = told /\ later' = later
    BY <1>3 DEF Tick, chronicle
  <2>3. CacheIsTold'
    <3>1. cache \in Seq(Entries) /\ OldestFirst
      BY DEF HInv, IInv, TypeOK
    <3>2. /\ DOMAIN cache' = DOMAIN cache
          /\ \A i \in DOMAIN cache :
               /\ cache'[i].peer = cache[i].peer /\ cache'[i].height = cache[i].height
               /\ cache'[i].hash = cache[i].hash
      BY <1>3, <3>1, TickOrdered
    <3> QED BY <2>2, <3>2 DEF HInv, CacheIsTold
  <2>4. VerdictsAreJust'
    BY <2>2 DEF VerdictsAreJust
  <2> QED BY <2>1, <2>2, <2>3, <2>4
          DEF HInv, Chronicled, LogIsComplete, SpokenOf
<1>4. ASSUME UNCHANGED hvars PROVE HInv'
  <2>1. /\ cache' = cache /\ observed' = observed /\ verdict' = verdict
        /\ told' = told /\ later' = later
    BY <1>4 DEF hvars, vars, chronicle
  <2>2. IInv'
    BY <1>4, NextKeepsInv DEF HInv, hvars
  <2> QED BY <2>1, <2>2
          DEF HInv, Chronicled, CacheIsTold, LogIsComplete, SpokenOf, VerdictsAreJust, Witnesses
<1> QED BY <1>1, <1>2, <1>3, <1>4 DEF HNext

LEMMA HInitInv == HInit => HInv
<1> SUFFICES ASSUME HInit PROVE HInv
  OBVIOUS
<1>1. /\ IInv /\ cache = <<>> /\ observed = <<>> /\ verdict = None
      /\ told = {} /\ later = [h \in Heights |-> {}]
  BY InitInv DEF HInit, Init
<1>2. Chronicled
  BY <1>1, FS_EmptySet DEF Chronicled
<1>3. CacheIsTold /\ Sound(observed, told) /\ LogIsComplete
  BY <1>1 DEF CacheIsTold, Sound, LogIsComplete, SpokenOf
<1>4. VerdictsAreJust
  BY <1>1 DEF VerdictsAreJust
<1> QED BY <1>1, <1>2, <1>3, <1>4 DEF HInv

\* The chronicler only watches: with it the cache, the log and the verdicts are what
\* they are without, and what is said of Spec holds.
THEOREM ChroniclerOnlyWatches == HSpec => Spec
<1>1. HInit => Init
  BY DEF HInit
<1>2. [HNext]_hvars => [Next]_vars
  BY DEF HNext, hvars, Next
<1> QED BY <1>1, <1>2, PTL DEF HSpec, Spec

\* equivocation.js and node.js, _recordObservation and _looksLikeHonestReorg: whoever is
\* judged for a contradiction has contradicted itself, is spared only if somebody else
\* has truly said the same, and is banned in spite of that only if as many other
\* heights as the log holds were spoken of since.
THEOREM ContradictionsAreJudgedJustly == HSpec => []VerdictsAreJust
<1>1. HInv => VerdictsAreJust
  BY DEF HInv
<1> QED BY <1>1, HInitInv, HNextKeepsInv, PTL DEF HSpec

=============================================================================
