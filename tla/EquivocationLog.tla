---------------------------- MODULE EquivocationLog ----------------------------
(***************************************************************************)
(* How a node judges PREVHASH frames that contradict earlier ones: the     *)
(* cache of src/federation/equivocation.js, the log of observations by     *)
(* height of node.js, and the part of the 'frame' handler that uses them.  *)
(*                                                                         *)
(* Both are Maps used in the order of their insertion: sequences here.     *)
(* The age of an entry is counted up to one more than the window.          *)
(***************************************************************************)
EXTENDS AgedLists

CONSTANTS
  Peers, Heights, Hashes,
  Window,      \* EQUIVOCATION_WINDOW_MS, in clock units
  MaxEntries,  \* EQUIVOCATION_CACHE_MAX
  MaxHeights,  \* how many heights the log of observations keeps
  None

ASSUME NumbersAssumption == Window \in Nat \ {0} /\ MaxEntries \in Nat \ {0} /\ MaxHeights \in Nat \ {0}

Entries == [peer : Peers, height : Heights, hash : Hashes, age : 0 .. Window + 1]
Records == [height : Heights, seenBy : [Hashes -> SUBSET Peers]]
Verdicts == [kind : {"announce", "reorg", "ban"}, peer : Peers, height : Heights,
             existing : Hashes \cup {None}]

ASSUME NoneAssumption ==
  None \notin Hashes /\ None \notin Verdicts /\ None \notin [hash : Hashes, age : Nat]

VARIABLES
  cache,     \* _cache, oldest first
  observed,  \* _observedByHeight, oldest first
  verdict    \* what the last step made of a frame, or None

vars == <<cache, observed, verdict>>

Init == cache = <<>> /\ observed = <<>> /\ verdict = None

-----------------------------------------------------------------------------
(* The cache. *)

\* _evictExpired: from the front, up to the first entry that has not expired.
Expired(entry) == entry.age > Window
Unexpired == FromFirst(cache, {i \in DOMAIN cache : ~Expired(cache[i])})

\* _evictToBounds, of what is not expired.
Evicted == Latest(Unexpired, MaxEntries)

OfKey(entry, p, h) == entry.peer = p /\ entry.height = h
PlacesOf(p, h) == {i \in DOMAIN Evicted : OfKey(Evicted[i], p, h)}

\* What the cache holds against a frame of p that says x of height h.
Evidence(p, h, x) ==
  {e \in ToSet(Evicted) : OfKey(e, p, h) /\ e.age < Window /\ e.hash # x}

\* Mutation of Refreshed: an entry that exists is updated where it is.
RefreshedInPlace(p, h, x) ==
  LET new == [peer |-> p, height |-> h, hash |-> x, age |-> 0]
  IN  IF \E e \in ToSet(Evicted) : OfKey(e, p, h)
      THEN [i \in DOMAIN Evicted |-> IF OfKey(Evicted[i], p, h) THEN new ELSE Evicted[i]]
      ELSE Append(Evicted, new)

\* Mutation of Refreshed: the entry is stored without its prevhash.
RefreshedWithoutHash(p, h, x) ==
  Append(Deleted(Evicted, PlacesOf(p, h)),
         [peer |-> p, height |-> h, hash |-> None, age |-> 0])

\* The entry of the key is new, and the last one.
Refreshed(p, h, x) ==
  Append(Deleted(Evicted, PlacesOf(p, h)),
         [peer |-> p, height |-> h, hash |-> x, age |-> 0])

-----------------------------------------------------------------------------
(* The log of observations. *)

NoOne == [x \in Hashes |-> {}]

\* Mutation of Recorded: another hash of a height starts the record of it anew.
RecordedAnew(p, h, x) ==
  LET known == \E i \in DOMAIN observed : observed[i].height = h
      log == IF known THEN observed ELSE Append(observed, [height |-> h, seenBy |-> NoOne])
      anew(seenBy) == [NoOne EXCEPT ![x] = seenBy[x] \cup {p}]
      seen == [i \in DOMAIN log |->
                 IF log[i].height = h THEN [log[i] EXCEPT !.seenBy = anew(@)] ELSE log[i]]
  IN  Latest(seen, MaxHeights)

\* _recordObservation.
Recorded(p, h, x) ==
  LET known == \E i \in DOMAIN observed : observed[i].height = h
      log == IF known THEN observed ELSE Append(observed, [height |-> h, seenBy |-> NoOne])
      seen == [i \in DOMAIN log |->
                 IF log[i].height = h THEN [log[i] EXCEPT !.seenBy[x] = @ \cup {p}] ELSE log[i]]
  IN  Latest(seen, MaxHeights)

Observers(log, h, x) ==
  UNION {log[i].seenBy[x] : i \in {j \in DOMAIN log : log[j].height = h}}

\* _looksLikeHonestReorg: two peers are on record for what was said first.
LooksLikeHonestReorg(log, h, x) ==
  \E p, q \in Observers(log, h, x) : p # q

-----------------------------------------------------------------------------
(* The handler. *)

Judge(p, h, kind, existing) ==
  verdict' = [kind |-> kind, peer |-> p, height |-> h, existing |-> existing]

\* Nothing contradicts the frame.
Consistent(p, h, x) ==
  /\ Evidence(p, h, x) = {}
  /\ observed' = Recorded(p, h, x)
  /\ cache' = Refreshed(p, h, x)
  /\ Judge(p, h, "announce", None)

\* Mutation of Contradictory: the later prevhash replaces the earlier one.
ContradictoryOverwriting(p, h, x) ==
  \E e \in Evidence(p, h, x) :
    /\ observed' = Recorded(p, h, x)
    /\ cache' = Refreshed(p, h, x)
    /\ Judge(p, h, IF LooksLikeHonestReorg(observed', h, e.hash) THEN "reorg" ELSE "ban", e.hash)

\* The peer said something else before: what it said first is kept.  It is
\* banned, or its frame passes as part of a reorg.
Contradictory(p, h, x) ==
  \E e \in Evidence(p, h, x) :
    /\ observed' = Recorded(p, h, x)
    /\ cache' = Evicted
    /\ Judge(p, h, IF LooksLikeHonestReorg(observed', h, e.hash) THEN "reorg" ELSE "ban", e.hash)

Tick ==
  /\ cache' = [i \in DOMAIN cache |->
                 IF Expired(cache[i]) THEN cache[i] ELSE [cache[i] EXCEPT !.age = @ + 1]]
  /\ verdict' = None
  /\ UNCHANGED observed

Next ==
  \/ \E p \in Peers, h \in Heights, x \in Hashes : Consistent(p, h, x) \/ Contradictory(p, h, x)
  \/ Tick

Spec == Init /\ [][Next]_vars

-----------------------------------------------------------------------------
(* Every variable has the type its comment gives. *)
TypeOK ==
  /\ cache \in Seq(Entries)
  /\ observed \in Seq(Records)
  /\ verdict \in Verdicts \cup {None}

\* The cache is ordered by age and has one entry a key, refreshed or not: so
\* eviction may stop at the first entry that has not expired, and what it
\* evicts for lack of room is what is oldest.
OldestFirst ==
  \A i, j \in DOMAIN cache : i < j =>
    /\ cache[i].age >= cache[j].age
    /\ ~OfKey(cache[i], cache[j].peer, cache[j].height)

\* The cache keeps the promise of EquivocationMemory: no contradiction within
\* the window is missed and none is made up, but for what had to go because
\* more than MaxEntries keys are fresh, and that is always what is oldest.
Fresh(entries, k) ==
  {e \in ToSet(entries) : OfKey(e, k[1], k[2]) /\ e.age < Window}
SaidIn(entries) ==
  [k \in Peers \X Heights |->
     IF Fresh(entries, k) = {} THEN None
     ELSE LET e == CHOOSE e \in Fresh(entries, k) : TRUE IN [hash |-> e.hash, age |-> e.age]]
Memory == INSTANCE EquivocationMemory WITH
  Capacity <- MaxEntries,
  said <- SaidIn(cache),
  caught <- verdict # None /\ verdict.kind # "announce"
NoContradictionIsMissed == Memory!Spec

-----------------------------------------------------------------------------
(* What the documents say and the code does not do. *)

\* equivocation.js: the cache is bounded by EQUIVOCATION_CACHE_MAX entries.
CacheIsBounded == Len(cache) <= MaxEntries

\* node.js: a peer is not banned when what it said first has been observed by at
\* least one other peer.
OtherObserverSpares ==
  verdict # None /\ verdict.kind = "ban"
    => Observers(observed, verdict.height, verdict.existing) \subseteq {verdict.peer}

=============================================================================
