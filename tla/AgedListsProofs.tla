----------------------------- MODULE AgedListsProofs -----------------------------
(***************************************************************************)
(* What pruning a list leaves of it: lemmas for the caches and records     *)
(* that are made of such lists.                                            *)
(***************************************************************************)
EXTENDS AgedLists, FiniteSetTheorems, NaturalsInduction, SequenceTheorems, TLAPS

\* The least of a set of naturals is one of them.
LEMMA LeastIsMember ==
  ASSUME NEW S, S \subseteq Nat, S # {}
  PROVE  Min(S) \in S /\ \A n \in S : Min(S) <= n
<1> DEFINE Lower == {pair \in Nat \X Nat : pair[1] < pair[2]}
<1>1. IsWellFoundedOn(Lower, Nat)
  BY NatLessThanWellFounded, Zenon DEF OpToRel
<1> HIDE DEF Lower
<1>2. \E x \in S : \A y \in S : <<y, x>> \notin Lower
  BY <1>1, WFMin
<1>3. \A x, y \in Nat : <<y, x>> \notin Lower => x <= y
  BY DEF Lower
<1>4. \E x \in S : \A y \in S : x <= y
  BY <1>2, <1>3
<1> QED BY <1>4 DEF Min

\* t is what is left of s when its first k entries are gone.
IsEnd(t, s, k) ==
  /\ Len(t) = Len(s) - k
  /\ \A i \in 1 .. Len(t) : t[i] = s[i + k]

LEMMA SuffixIsEnd ==
  ASSUME NEW S, NEW s \in Seq(S), NEW k \in 0 .. Len(s)
  PROVE  SubSeq(s, k + 1, Len(s)) \in Seq(S) /\ IsEnd(SubSeq(s, k + 1, Len(s)), s, k)
<1>1. \A i \in k + 1 .. Len(s) : s[i] \in S
  OBVIOUS
<1>2. /\ SubSeq(s, k + 1, Len(s)) \in Seq(S)
      /\ Len(SubSeq(s, k + 1, Len(s))) = Len(s) - k
      /\ \A i \in 1 .. Len(s) - k : SubSeq(s, k + 1, Len(s))[i] = s[i + k]
  BY <1>1, SubSeqProperties
<1> QED BY <1>2 DEF IsEnd

\* What is left is an end of the list; none of what is gone was at one of the places,
\* and what is first is.
LEMMA FromFirstIsEnd ==
  ASSUME NEW S, NEW s \in Seq(S), NEW places \in SUBSET (1 .. Len(s))
  PROVE  /\ FromFirst(s, places) \in Seq(S)
         /\ \E k \in 0 .. Len(s) :
              /\ IsEnd(FromFirst(s, places), s, k)
              /\ \A i \in 1 .. k : i \notin places
              /\ k < Len(s) => k + 1 \in places
<1>1. CASE places = {}
  <2>1. FromFirst(s, places) = <<>>
    BY <1>1 DEF FromFirst
  <2> DEFINE k == Len(s)
  <2>2. IsEnd(<<>>, s, k) /\ k \in 0 .. Len(s) /\ ~(k < Len(s)) /\ \A i \in 1 .. k : i \notin places
    BY <1>1 DEF IsEnd
  <2>3. <<>> \in Seq(S)
    OBVIOUS
  <2> HIDE DEF k
  <2> QED BY <2>1, <2>2, <2>3
<1>2. CASE places # {}
  <2> DEFINE first == Min(places)
  <2>0. places \subseteq Nat
    OBVIOUS
  <2>1. first \in places /\ \A i \in places : first <= i
    BY <1>2, <2>0, LeastIsMember
  <2>2. FromFirst(s, places) = SubSeq(s, first, Len(s))
    BY <1>2 DEF FromFirst
  <2> HIDE DEF first
  <2>3. first \in 1 .. Len(s)
    BY <2>1
  <2>4. \A i \in first .. Len(s) : s[i] \in S
    BY <2>3
  <2>5. /\ FromFirst(s, places) \in Seq(S)
        /\ Len(FromFirst(s, places)) = Len(s) - first + 1
        /\ \A i \in 1 .. Len(s) - first + 1 : FromFirst(s, places)[i] = s[first + i - 1]
    BY <2>2, <2>3, <2>4, SubSeqProperties
  <2> DEFINE k == first - 1
  <2>6. IsEnd(FromFirst(s, places), s, k)
    BY <2>3, <2>5 DEF IsEnd
  <2>7. k \in 0 .. Len(s) /\ k + 1 \in places /\ \A i \in 1 .. k : i \notin places
    BY <2>1, <2>3
  <2> HIDE DEF k
  <2> QED BY <2>5, <2>6, <2>7
<1> QED BY <1>1, <1>2

\* The fewer the places, the less is left.
LEMMA FromFirstIsShorter ==
  ASSUME NEW S, NEW s \in Seq(S), NEW t \in Seq(S), Len(t) = Len(s),
         NEW places \in SUBSET (1 .. Len(s)), NEW fewer \in SUBSET places
  PROVE  Len(FromFirst(t, fewer)) <= Len(FromFirst(s, places))
<1>1. PICK k \in 0 .. Len(s) :
        IsEnd(FromFirst(s, places), s, k) /\ \A i \in 1 .. k : i \notin places
  BY FromFirstIsEnd
<1>2. PICK l \in 0 .. Len(t) :
        IsEnd(FromFirst(t, fewer), t, l) /\ (l < Len(t) => l + 1 \in fewer)
  <2>1. fewer \in SUBSET (1 .. Len(t))
    OBVIOUS
  <2> QED BY <2>1, FromFirstIsEnd
<1>3. Len(FromFirst(s, places)) = Len(s) - k /\ Len(FromFirst(t, fewer)) = Len(t) - l
  BY <1>1, <1>2 DEF IsEnd
<1>4. k <= l
  <2> SUFFICES ASSUME l < k PROVE FALSE
    OBVIOUS
  <2>1. l + 1 \in fewer /\ l + 1 \in 1 .. k
    BY <1>2
  <2> QED BY <1>1, <2>1
<1> QED BY <1>3, <1>4

LEMMA LatestIsEnd ==
  ASSUME NEW S, NEW s \in Seq(S), NEW n \in Nat
  PROVE  /\ Latest(s, n) \in Seq(S)
         /\ Len(Latest(s, n)) <= n
         /\ Len(s) <= n => Latest(s, n) = s
         /\ Len(s) > n => Len(Latest(s, n)) = n
         /\ \E k \in 0 .. Len(s) : IsEnd(Latest(s, n), s, k)
<1>1. CASE Len(s) <= n
  <2>1. Latest(s, n) = s
    BY <1>1 DEF Latest
  <2>2. IsEnd(s, s, 0) /\ 0 \in 0 .. Len(s)
    BY DEF IsEnd
  <2> QED BY <1>1, <2>1, <2>2
<1>2. CASE Len(s) > n
  <2>1. \A i \in Len(s) - n + 1 .. Len(s) : s[i] \in S
    BY <1>2
  <2>2. /\ Latest(s, n) \in Seq(S)
        /\ Len(Latest(s, n)) = n
        /\ \A i \in 1 .. n : Latest(s, n)[i] = s[Len(s) - n + i]
    BY <1>2, <2>1, SubSeqProperties DEF Latest
  <2> DEFINE k == Len(s) - n
  <2>3. k \in 0 .. Len(s) /\ IsEnd(Latest(s, n), s, k)
    BY <1>2, <2>2 DEF IsEnd
  <2> HIDE DEF k
  <2> QED BY <1>2, <2>2, <2>3
<1> QED BY <1>1, <1>2

\* Deleting leaves everything else, in its order.
LEMMA DeletedIsRest ==
  ASSUME NEW S, NEW s \in Seq(S), NEW places \in SUBSET (1 .. Len(s))
  PROVE  /\ Deleted(s, places) \in Seq(S)
         /\ places = {} => Deleted(s, places) = s
         /\ places # {} => \E k \in places :
              /\ Len(Deleted(s, places)) = Len(s) - 1
              /\ \A i \in 1 .. Len(s) - 1 :
                   Deleted(s, places)[i] = IF i < k THEN s[i] ELSE s[i + 1]
<1>1. CASE places = {}
  BY <1>1 DEF Deleted
<1>2. CASE places # {}
  <2>0. places \subseteq Nat
    OBVIOUS
  <2>1. PICK k : k = Min(places)
    OBVIOUS
  <2>2. k \in places /\ k \in 1 .. Len(s)
    BY <1>2, <2>0, <2>1, LeastIsMember
  <2> DEFINE front == SubSeq(s, 1, k - 1)
             back == SubSeq(s, k + 1, Len(s))
  <2>3. Deleted(s, places) = front \o back
    BY <1>2, <2>1 DEF Deleted, RemoveAt
  <2>4. \A i \in 1 .. k - 1 : s[i] \in S
    BY <2>2
  <2>5. front \in Seq(S) /\ Len(front) = k - 1 /\ \A i \in 1 .. k - 1 : front[i] = s[i]
    BY <2>2, <2>4, SubSeqProperties
  <2>6. \A i \in k + 1 .. Len(s) : s[i] \in S
    BY <2>2
  <2>7. back \in Seq(S) /\ Len(back) = Len(s) - k /\ \A i \in 1 .. Len(s) - k : back[i] = s[k + i]
    BY <2>2, <2>6, SubSeqProperties
  <2> HIDE DEF front, back
  <2>8. /\ front \o back \in Seq(S)
        /\ Len(front \o back) = Len(s) - 1
        /\ \A i \in 1 .. Len(s) - 1 : (front \o back)[i] = IF i < k THEN front[i] ELSE back[i - (k - 1)]
    <3>1. /\ front \o back \in Seq(S)
          /\ Len(front \o back) = Len(front) + Len(back)
          /\ \A i \in 1 .. Len(front) + Len(back) :
               (front \o back)[i] = IF i <= Len(front) THEN front[i] ELSE back[i - Len(front)]
      BY <2>5, <2>7, ConcatProperties
    <3>2. Len(front) + Len(back) = Len(s) - 1
      BY <2>2, <2>5, <2>7
    <3>3. \A i \in 1 .. Len(s) - 1 : i <= Len(front) <=> i < k
      BY <2>2, <2>5
    <3> QED BY <2>5, <3>1, <3>2, <3>3
  <2>9. \A i \in 1 .. Len(s) - 1 : (front \o back)[i] = IF i < k THEN s[i] ELSE s[i + 1]
    <3> SUFFICES ASSUME NEW i \in 1 .. Len(s) - 1
                 PROVE  (front \o back)[i] = IF i < k THEN s[i] ELSE s[i + 1]
      OBVIOUS
    <3>1. CASE i < k
      BY <2>2, <2>5, <2>8, <3>1
    <3>2. CASE i >= k
      <4>1. i - (k - 1) \in 1 .. Len(s) - k /\ k + (i - (k - 1)) = i + 1
        BY <2>2, <3>2
      <4> QED BY <2>2, <2>7, <2>8, <3>2, <4>1
    <3>3. i < k \/ i >= k
      BY <2>2
    <3> QED BY <3>1, <3>2, <3>3
  <2> QED BY <1>2, <2>2, <2>3, <2>8, <2>9
<1> QED BY <1>1, <1>2

=============================================================================
