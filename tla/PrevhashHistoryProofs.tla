-------------------------- MODULE PrevhashHistoryProofs --------------------------
(***************************************************************************)
(* Proofs about the prevhash monitor, for every value of its constants:    *)
(* its types, that in majority mode it implements DivergenceAlarm, and, of *)
(* the monitor with its observer, that every alert is earned and that no   *)
(* lone peer can raise one.                                                *)
(***************************************************************************)
EXTENDS PrevhashHistory, TLAPS, FiniteSetTheorems

\* A peer map as the monitor holds it.
PeerMap(ps) == DOMAIN ps \subseteq Peers /\ ps \in [DOMAIN ps -> Entries]

-----------------------------------------------------------------------------
(* Constants and the tally. *)

\* The clamped historyK is at least one.
LEMMA HistoryKType == historyK \in Nat /\ historyK >= 1 /\ 0 \in 0 .. historyK
  BY NumbersAssumption DEF historyK

\* Evicting stale peers yields a peer map of fresh peers only.
LEMMA EvictType ==
  ASSUME NEW ps, PeerMap(ps)
  PROVE  /\ PeerMap(Evict(ps))
         /\ \A p \in DOMAIN Evict(ps) : Evict(ps)[p].age < PeerStale
  BY DEF PeerMap, Evict, Entries

\* The peers that back a hash are finitely many.
LEMMA BackersCount ==
  ASSUME NEW ps, PeerMap(ps), NEW h
  PROVE  IsFiniteSet(Backers(ps, h)) /\ Cardinality(Backers(ps, h)) \in Nat
<1>1. Backers(ps, h) \in SUBSET Peers
  BY DEF PeerMap, Backers
<1>2. IsFiniteSet(Backers(ps, h))
  BY <1>1, FS_Subset, PeersAssumption
<1>. QED
  BY <1>2, FS_CardinalityType

\* At most one hash wins a tally.
LEMMA UniqueWinner ==
  ASSUME NEW own \in Hashes, NEW ps, PeerMap(ps),
         NEW g \in Hashes, NEW h \in Hashes,
         Wins(own, ps, g), Wins(own, ps, h)
  PROVE  g = h
<1>1. Votes(own, ps, g) \in Nat /\ Votes(own, ps, h) \in Nat
  BY BackersCount DEF Votes
<1>2. SUFFICES ASSUME g # h PROVE FALSE
  OBVIOUS
<1>3. Votes(own, ps, g) < Votes(own, ps, h) /\ Votes(own, ps, h) < Votes(own, ps, g)
  BY <1>2 DEF Wins
<1>. QED
  BY <1>1, <1>3

-----------------------------------------------------------------------------
(* Types. *)

\* The initial state is well typed.
LEMMA InitType == Init => TypeOK
<1>. SUFFICES ASSUME Init PROVE TypeOK
  OBVIOUS
<1>1. DOMAIN peers = {} /\ peers \in [DOMAIN peers -> Entries]
  BY DEF Init
<1>. QED
  BY <1>1, HistoryKType DEF Init, TypeOK, EventNames

\* _checkDivergence leaves well-typed variables behind, whatever it decides.
LEMMA CheckType ==
  ASSUME TypeOK, NEW own \in Hashes \cup {None}, NEW ps, PeerMap(ps),
         NEW emitted, emitted \subseteq {"announce"},
         CheckDivergence(own, ps, emitted)
  PROVE  /\ PeerMap(peers')
         /\ divergeAge' \in {NotDiverging} \cup (0 .. DivergenceMs)
         /\ divergeEmitted' \in BOOLEAN
         /\ stableMinorityTicks' \in 0 .. historyK
         /\ events' \subseteq EventNames
<1>. DEFINE Typed ==
       /\ divergeAge' \in {NotDiverging} \cup (0 .. DivergenceMs)
       /\ divergeEmitted' \in BOOLEAN
       /\ stableMinorityTicks' \in 0 .. historyK
       /\ events' \subseteq EventNames
<1>1. ASSUME ResetMinorityState, events' = emitted
      PROVE  Typed
  BY <1>1, HistoryKType DEF ResetMinorityState, EventNames
<1>2. ASSUME TickMinority(emitted)
      PROVE  Typed
  <2>1. divergeAge' \in 0 .. DivergenceMs
    BY <1>2, NumbersAssumption DEF TickMinority, TypeOK, NotDiverging
  <2>2. stableMinorityTicks' \in 0 .. historyK
    BY <1>2, HistoryKType DEF TickMinority, TypeOK, Smaller
  <2>3. divergeEmitted' \in BOOLEAN /\ events' \subseteq EventNames
    BY <1>2 DEF TickMinority, TypeOK, EventNames
  <2>. QED
    BY <2>1, <2>2, <2>3
<1>3. ASSUME NEW tell \in BOOLEAN, EndEpisode(tell, emitted)
      PROVE  Typed
  <2>1. CASE divergeAge = NotDiverging
    BY <1>3, <2>1 DEF EndEpisode, minority, TypeOK, EventNames
  <2>2. CASE divergeAge # NotDiverging
    BY <1>3, <2>2, HistoryKType DEF EndEpisode, ResetMinorityState, EventNames
  <2>. QED
    BY <2>1, <2>2
<1>4. ASSUME UNCHANGED minority, events' = emitted
      PROVE  Typed
  BY <1>4 DEF minority, TypeOK, EventNames
<1>5. PeerMap(peers')
  BY EvictType DEF CheckDivergence
<1>6. CASE own = None
  BY <1>4, <1>5, <1>6 DEF CheckDivergence
<1>7. CASE own # None
  <2>. DEFINE fresh == Evict(ps)
  <2>1. CASE TooFew(fresh)
    BY <1>1, <1>5, <1>7, <2>1 DEF CheckDivergence
  <2>2. CASE ~TooFew(fresh) /\ MajorityVote
    <3>1. JudgeByMajority(own, fresh, emitted)
      BY <1>7, <2>2 DEF CheckDivergence
    <3>. QED
      BY <1>1, <1>2, <1>3, <1>5, <3>1 DEF JudgeByMajority, TypeOK
  <2>3. CASE ~TooFew(fresh) /\ ~MajorityVote
    <3>1. JudgeLegacy(own, fresh, emitted)
      BY <1>7, <2>3 DEF CheckDivergence
    <3>. QED
      BY <1>2, <1>3, <1>5, <3>1 DEF JudgeLegacy
  <2>. QED
    BY <2>1, <2>2, <2>3, NumbersAssumption
<1>. QED
  BY <1>6, <1>7

\* A poll leaves well-typed variables behind.
LEMMA PollType ==
  ASSUME TypeOK, DoPoll
  PROVE  /\ ownPrevhash' \in Hashes \cup {None}
         /\ PeerMap(peers')
         /\ divergeAge' \in {NotDiverging} \cup (0 .. DivergenceMs)
         /\ divergeEmitted' \in BOOLEAN
         /\ stableMinorityTicks' \in 0 .. historyK
         /\ events' \subseteq EventNames
<1>1. PeerMap(peers)
  BY DEF TypeOK, PeerMap
<1>2. CASE upstream = None
  BY <1>1, <1>2 DEF DoPoll, TypeOK, minority, PeerMap
<1>3. CASE upstream # None
  <2>. DEFINE emitted == IF upstream # ownPrevhash THEN {"announce"} ELSE {}
  <2>1. upstream \in Hashes /\ emitted \subseteq {"announce"}
    BY <1>3 DEF TypeOK
  <2>2. ownPrevhash' = upstream /\ CheckDivergence(upstream, peers, emitted)
    BY <1>3 DEF DoPoll
  <2>. QED
    BY <1>1, <2>1, <2>2, CheckType
<1>. QED
  BY <1>2, <1>3

\* The peer map an announcement is evaluated with.
LEMMA AnnounceMap ==
  ASSUME TypeOK, NEW p \in Peers, NEW h \in Hashes, NEW age \in AnnounceAges
  PROVE  PeerMap([q \in DOMAIN peers \cup {p} |->
                    IF q = p THEN [prevhash |-> h, age |-> age] ELSE peers[q]])
<1>1. [prevhash |-> h, age |-> age] \in Entries
  BY NumbersAssumption DEF Entries
<1>. QED
  BY <1>1 DEF PeerMap, TypeOK

\* Every step of the monitor keeps the types.
LEMMA NextType ==
  ASSUME TypeOK, [Next]_vars
  PROVE  TypeOK'
<1>1. CASE Start \/ Poll
  <2>1. DoPoll /\ upstream' = upstream /\ pollTimer' \in BOOLEAN
    BY <1>1 DEF Start, Poll, TypeOK
  <2>. QED
    BY <2>1, PollType DEF TypeOK, PeerMap
<1>2. ASSUME NEW p \in Peers, NEW h \in Hashes, NEW age \in AnnounceAges,
             OnPeerAnnounce(p, h, age)
      PROVE  TypeOK'
  <2>. DEFINE ps == [q \in DOMAIN peers \cup {p} |->
                       IF q = p THEN [prevhash |-> h, age |-> age] ELSE peers[q]]
  <2>1. PeerMap(ps)
    BY AnnounceMap
  <2>2. CheckDivergence(ownPrevhash, ps, {}) /\ UNCHANGED <<upstream, pollTimer, ownPrevhash>>
    BY <1>2 DEF OnPeerAnnounce
  <2>3. ownPrevhash \in Hashes \cup {None}
    BY DEF TypeOK
  <2>. HIDE DEF ps
  <2>4. /\ PeerMap(peers')
        /\ divergeAge' \in {NotDiverging} \cup (0 .. DivergenceMs)
        /\ divergeEmitted' \in BOOLEAN
        /\ stableMinorityTicks' \in 0 .. historyK
        /\ events' \subseteq EventNames
    BY <2>1, <2>2, <2>3, CheckType
  <2>. QED
    BY <2>2, <2>4 DEF TypeOK, PeerMap
<1>3. CASE Stop \/ \E h \in Hashes \cup {None} : UpstreamJob(h)
  BY <1>3 DEF Stop, UpstreamJob, TypeOK, minority, EventNames
<1>4. CASE Tick
  <2>1. DOMAIN peers' \subseteq Peers /\ peers' \in [DOMAIN peers' -> Entries]
    BY <1>4, NumbersAssumption DEF Tick, TypeOK, Entries
  <2>2. divergeAge' \in {NotDiverging} \cup (0 .. DivergenceMs)
    BY <1>4, NumbersAssumption DEF Tick, TypeOK, NotDiverging, Smaller
  <2>. QED
    BY <1>4, <2>1, <2>2 DEF Tick, TypeOK, EventNames
<1>5. CASE UNCHANGED vars
  BY <1>5 DEF vars, minority, TypeOK
<1>. QED
  BY <1>1, <1>2, <1>3, <1>4, <1>5 DEF Next

\* Type correctness: in every reachable state every variable has its type.
THEOREM TypeCorrect == Spec => []TypeOK
<1>1. TypeOK /\ [Next]_vars => TypeOK'
  BY NextType
<1>. QED
  BY <1>1, InitType, PTL DEF Spec

-----------------------------------------------------------------------------
(* The monitor implements DivergenceAlarm: every handler is one step of     *)
(* the alarm.                                                               *)

\* One evaluation in majority mode is a step of the alarm.
LEMMA CheckRefines ==
  ASSUME MajorityVote, TypeOK, NEW own \in Hashes \cup {None}, NEW ps, PeerMap(ps),
         NEW emitted, emitted \subseteq {"announce"},
         CheckDivergence(own, ps, emitted)
  PROVE  Alarm!Next
<1>. USE DEF Alarm!Next
<1>1. ASSUME UNCHANGED minority, events' = emitted
      PROVE  Alarm!Wait
  BY <1>1 DEF minority, Alarm!Wait
<1>2. ASSUME ResetMinorityState, events' = emitted
      PROVE  Alarm!Forget
  BY <1>2 DEF ResetMinorityState, Alarm!Forget
<1>3. ASSUME EndEpisode(divergeEmitted, emitted)
      PROVE  Alarm!Next
  <2>1. CASE divergeAge = NotDiverging
    BY <1>1, <1>3, <2>1 DEF EndEpisode
  <2>2. CASE divergeAge # NotDiverging /\ ~divergeEmitted
    BY <1>2, <1>3, <2>2 DEF EndEpisode
  <2>3. CASE divergeAge # NotDiverging /\ divergeEmitted
    <3>1. ResetMinorityState /\ events' = emitted \cup {"resolved"}
      BY <1>3, <2>3 DEF EndEpisode
    <3>. QED
      BY <2>3, <3>1 DEF ResetMinorityState, Alarm!CallOff
  <2>. QED
    BY <2>1, <2>2, <2>3 DEF TypeOK
<1>4. ASSUME TickMinority(emitted)
      PROVE  Alarm!Next
  <2>. DEFINE told == divergeAge # NotDiverging /\ divergeEmitted
  <2>1. divergeAge' # NotDiverging
    BY <1>4 DEF TickMinority, NotDiverging
  <2>2. CASE divergeEmitted' /\ ~told
    <3>1. /\ events' = emitted \cup {"divergence"}
          /\ divergeAge' >= DivergenceMs
          /\ divergeAge' = IF divergeAge = NotDiverging THEN 0 ELSE divergeAge
      BY <1>4, <2>2 DEF TickMinority
    <3>2. events' \ {"announce"} = {"divergence"}
      BY <3>1
    <3>. QED
      BY <2>1, <2>2, <3>1, <3>2 DEF Alarm!Raise, TypeOK
  <2>3. CASE ~divergeEmitted' \/ told
    <3>1. /\ events' = emitted
          /\ divergeEmitted' = told
          /\ divergeAge' = IF divergeAge = NotDiverging THEN 0 ELSE divergeAge
      BY <1>4, <2>3 DEF TickMinority
    <3>2. events' \ {"announce"} = {}
      BY <3>1
    <3>. QED
      BY <2>1, <3>1, <3>2 DEF Alarm!Suspect, Alarm!Wait, TypeOK
  <2>. QED
    BY <2>2, <2>3
<1>5. CASE own = None
  BY <1>1, <1>5 DEF CheckDivergence
<1>6. CASE own # None
  <2>. DEFINE fresh == Evict(ps)
  <2>1. CASE TooFew(fresh)
    BY <1>2, <1>6, <2>1 DEF CheckDivergence
  <2>2. CASE ~TooFew(fresh)
    <3>1. JudgeByMajority(own, fresh, emitted)
      BY <1>6, <2>2 DEF CheckDivergence
    <3>. QED
      BY <1>2, <1>3, <1>4, <3>1 DEF JudgeByMajority
  <2>. QED
    BY <2>1, <2>2
<1>. QED
  BY <1>5, <1>6

\* In majority mode every step of the monitor is a step of the alarm.
LEMMA NextRefines ==
  ASSUME MajorityVote, TypeOK, [Next]_vars
  PROVE  [Alarm!Next]_Alarm!alarmVars
<1>1. CASE Start \/ Poll
  <2>1. DoPoll
    BY <1>1 DEF Start, Poll
  <2>2. CASE upstream = None
    BY <2>1, <2>2 DEF DoPoll, minority, Alarm!Next, Alarm!Wait
  <2>3. CASE upstream # None
    <3>. DEFINE emitted == IF upstream # ownPrevhash THEN {"announce"} ELSE {}
    <3>1. upstream \in Hashes /\ PeerMap(peers) /\ emitted \subseteq {"announce"}
      BY <2>3 DEF TypeOK, PeerMap
    <3>2. CheckDivergence(upstream, peers, emitted)
      BY <2>1, <2>3 DEF DoPoll
    <3>. HIDE DEF emitted
    <3>. QED
      BY <3>1, <3>2, CheckRefines
  <2>. QED
    BY <2>2, <2>3
<1>2. ASSUME NEW p \in Peers, NEW h \in Hashes, NEW age \in AnnounceAges,
             OnPeerAnnounce(p, h, age)
      PROVE  Alarm!Next
  <2>. DEFINE ps == [q \in DOMAIN peers \cup {p} |->
                       IF q = p THEN [prevhash |-> h, age |-> age] ELSE peers[q]]
  <2>1. PeerMap(ps) /\ ownPrevhash \in Hashes \cup {None}
    BY AnnounceMap DEF TypeOK
  <2>2. CheckDivergence(ownPrevhash, ps, {})
    BY <1>2 DEF OnPeerAnnounce
  <2>. HIDE DEF ps
  <2>. QED
    BY <2>1, <2>2, CheckRefines
<1>3. CASE Stop \/ \E h \in Hashes \cup {None} : UpstreamJob(h)
  BY <1>3 DEF Stop, UpstreamJob, minority, Alarm!Next, Alarm!Wait
<1>4. CASE Tick
  <2>1. events' = {} /\ divergeEmitted' = divergeEmitted
    BY <1>4 DEF Tick
  <2>2. CASE divergeAge = NotDiverging
    BY <1>4, <2>1, <2>2 DEF Tick, Alarm!Next, Alarm!Wait
  <2>3. CASE divergeAge # NotDiverging
    <3>1. divergeAge \in 0 .. DivergenceMs
      BY <2>3 DEF TypeOK
    <3>2. divergeAge' = Smaller(divergeAge + 1, DivergenceMs) /\ divergeAge' # NotDiverging
      BY <1>4, <2>3, <3>1, NumbersAssumption DEF Tick, Smaller, NotDiverging
    <3>3. divergeAge' \in {divergeAge}
            \cup (IF divergeAge < DivergenceMs THEN {divergeAge + 1} ELSE {})
      BY <3>1, <3>2, NumbersAssumption DEF Smaller
    <3>. QED
      BY <2>1, <2>3, <3>2, <3>3 DEF Alarm!Next, Alarm!Wait, TypeOK
  <2>. QED
    BY <2>2, <2>3
<1>5. CASE UNCHANGED vars
  BY <1>5 DEF vars, minority, Alarm!alarmVars
<1>. QED
  BY <1>1, <1>2, <1>3, <1>4, <1>5 DEF Next

\* In majority mode, for any peers, clocks and options, the events follow the
\* alarm protocol: 'divergence' once per episode and not before the episode is
\* DivergenceMs old, 'resolved' only for an episode that was announced.
THEOREM MonitorImplementsAlarm == ASSUME MajorityVote PROVE Spec => AlarmProtocol
<1>1. Init => Alarm!Init
  BY DEF Init, Alarm!Init
<1>2. TypeOK /\ [Next]_vars => [Alarm!Next]_Alarm!alarmVars
  BY NextRefines
<1>. QED
  BY <1>1, <1>2, TypeCorrect, PTL DEF Spec, AlarmProtocol, Alarm!Spec

-----------------------------------------------------------------------------
(* The monitor with its observer. *)

HTypeOK ==
  /\ TypeOK
  /\ finding \in {"minority", "majority", "undecided"}
  /\ runAge \in 0 .. DivergenceMs
  /\ runEvals \in 0 .. historyK
  /\ runPolls \in 0 .. historyK
  /\ alarmed \in BOOLEAN

-----------------------------------------------------------------------------
\* The verdict of _tally agrees with the observer's judgement: it is our own
\* hash when we lead, another one when we are outvoted, None otherwise.
LEMMA VerdictMeaning ==
  ASSUME NEW own \in Hashes, NEW ps, PeerMap(ps)
  PROVE  /\ Verdict(own, ps) \in Hashes \cup {None}
         /\ Verdict(own, ps) = own <=> Leading(own, ps)
         /\ Verdict(own, ps) \notin {None, own} <=> Outvoted(own, ps)
         /\ Verdict(own, ps) # None => Wins(own, ps, Verdict(own, ps))
<1>1. \A h \in Hashes : Cardinality(Backers(ps, h)) \in Nat
  BY BackersCount
<1>2. Wins(own, ps, own) <=> Leading(own, ps)
  BY <1>1 DEF Wins, Leading, Votes
<1>3. \A h \in Hashes \ {own} :
        Wins(own, ps, h) <=> \A g \in Hashes \ {h} :
          Cardinality(Backers(ps, h)) >
            Cardinality(Backers(ps, g)) + (IF g = own THEN 1 ELSE 0)
  BY <1>1 DEF Wins, Votes
<1>4. Outvoted(own, ps) <=> \E h \in Hashes \ {own} : Wins(own, ps, h)
  BY <1>3 DEF Outvoted
<1>5. CASE \E h \in Hashes : Wins(own, ps, h)
  <2>1. Verdict(own, ps) \in Hashes /\ Wins(own, ps, Verdict(own, ps))
    BY <1>5 DEF Verdict
  <2>2. \A h \in Hashes : Wins(own, ps, h) => h = Verdict(own, ps)
    BY <2>1, UniqueWinner
  <2>. QED
    BY <1>2, <1>4, <2>1, <2>2, NoneAssumption
<1>6. CASE ~\E h \in Hashes : Wins(own, ps, h)
  <2>1. Verdict(own, ps) = None
    BY <1>6 DEF Verdict
  <2>. QED
    BY <1>2, <1>4, <1>6, <2>1, NoneAssumption
<1>. QED
  BY <1>5, <1>6

-----------------------------------------------------------------------------
(* Types of the observer. *)

\* The observer's own variables stay well typed.
LEMMA JudgeType ==
  ASSUME HTypeOK, NEW polled \in {0, 1}, Judge(polled)
  PROVE  /\ finding' \in {"minority", "majority", "undecided"}
         /\ runAge' \in 0 .. DivergenceMs
         /\ runEvals' \in 0 .. historyK
         /\ runPolls' \in 0 .. historyK
<1>1. finding' \in {"minority", "majority", "undecided"}
  BY DEF Judge, Finding
<1>2. runAge' \in 0 .. DivergenceMs
  BY NumbersAssumption DEF Judge, HTypeOK
<1>3. runEvals' \in 0 .. historyK /\ runPolls' \in 0 .. historyK
  BY HistoryKType DEF Judge, HTypeOK, Smaller
<1>. QED
  BY <1>1, <1>2, <1>3

\* The initial state is well typed, the observer's variables included.
LEMMA HInitType == HInit => HTypeOK
<1>. SUFFICES ASSUME HInit PROVE HTypeOK
  OBVIOUS
<1>1. runAge \in 0 .. DivergenceMs
  BY NumbersAssumption DEF HInit
<1>. QED
  BY <1>1, InitType, HistoryKType DEF HInit, HTypeOK

\* The monitor's part of an observed step is a step of the monitor.
LEMMA HNextIsNext == [HNext]_hvars => [Next]_vars
  BY DEF HNext, HPoll, HAnnounce, HOther, HTick, Next, hvars

\* Every step keeps the types.
LEMMA HNextType ==
  ASSUME HTypeOK, [HNext]_hvars
  PROVE  HTypeOK'
<1>1. TypeOK'
  BY HNextIsNext, NextType DEF HTypeOK
<1>2. ASSUME Listen PROVE alarmed' \in BOOLEAN
  BY <1>2 DEF Listen, HTypeOK
<1>3. ASSUME Idle
      PROVE  /\ finding' \in {"minority", "majority", "undecided"}
             /\ runAge' \in 0 .. DivergenceMs
             /\ runEvals' \in 0 .. historyK
             /\ runPolls' \in 0 .. historyK
  BY <1>3 DEF Idle, HTypeOK
<1>4. CASE HPoll
  BY <1>1, <1>2, <1>3, <1>4, JudgeType DEF HPoll, HTypeOK
<1>5. CASE HAnnounce
  BY <1>1, <1>2, <1>3, <1>5, JudgeType DEF HAnnounce, HTypeOK
<1>6. CASE HOther
  BY <1>1, <1>2, <1>3, <1>6 DEF HOther, HTypeOK
<1>7. CASE HTick
  <2>1. runAge' \in 0 .. DivergenceMs
    BY <1>7, NumbersAssumption DEF HTick, HTypeOK, Smaller
  <2>. QED
    BY <1>1, <1>2, <1>7, <2>1 DEF HTick, HTypeOK
<1>8. CASE UNCHANGED hvars
  BY <1>1, <1>8 DEF hvars, observer, HTypeOK
<1>. QED
  BY <1>4, <1>5, <1>6, <1>7, <1>8 DEF HNext

-----------------------------------------------------------------------------
(* The earned alert.  AlertIsEarned is not inductive: it speaks of the      *)
(* observer's counts, and the code of its own.  EpisodeIsTheRun ties the    *)
(* two together once a closed episode is known to count nothing            *)
(* (NoRunNoCount), and AccusersOutnumberUs needs no more than the verdict.    *)

\* Without a run of minority findings there is nothing to count.
NoRunNoCount == finding # "minority" => runEvals = 0

IInv == HTypeOK /\ NoRunNoCount /\ EpisodeIsTheRun /\ AlertIsEarned /\ AccusersOutnumberUs

\* An evaluation is sound: what _checkDivergence does with the minority state
\* and the events agrees with the observer's finding.
LEMMA EvaluationSound ==
  ASSUME MajorityVote, HTypeOK, NoRunNoCount, EpisodeIsTheRun,
         NEW own \in Hashes, NEW ps, PeerMap(ps),
         NEW emitted, emitted \subseteq {"announce"}, NEW polled \in {0, 1},
         ownPrevhash' = own,
         CheckDivergence(own, ps, emitted), Judge(polled)
  PROVE  NoRunNoCount' /\ EpisodeIsTheRun' /\ AlertIsEarned' /\ AccusersOutnumberUs'
<1>. DEFINE fresh == Evict(ps)
<1>1. own # None
  BY NoneAssumption
<1>2. peers' = fresh /\ PeerMap(fresh) /\ \A p \in DOMAIN fresh : fresh[p].age < PeerStale
  BY <1>1, EvictType DEF CheckDivergence
<1>3. finding' = Finding(own, fresh)
  BY <1>2 DEF Judge
<1>. NoRunNoCount'
  BY DEF NoRunNoCount, Judge
<1>4. ASSUME ResetMinorityState, events' = emitted, finding' # "minority"
      PROVE  EpisodeIsTheRun' /\ AlertIsEarned' /\ AccusersOutnumberUs'
  <2>1. EpisodeIsTheRun'
    BY <1>4 DEF EpisodeIsTheRun, ResetMinorityState, Judge
  <2>. QED
    BY <1>4, <2>1 DEF AlertIsEarned, AccusersOutnumberUs
<1>5. CASE TooFew(fresh)
  <2>1. ResetMinorityState /\ events' = emitted
    BY <1>1, <1>5 DEF CheckDivergence
  <2>2. finding' # "minority"
    BY <1>3, <1>5 DEF Finding, TooFew
  <2>. QED
    BY <1>4, <2>1, <2>2
<1>6. CASE ~TooFew(fresh)
  <2>. DEFINE verdict == Verdict(own, fresh)
  <2>1. JudgeByMajority(own, fresh, emitted)
    BY <1>1, <1>6 DEF CheckDivergence
  <2>2. /\ verdict = own <=> Leading(own, fresh)
        /\ verdict \notin {None, own} <=> Outvoted(own, fresh)
        /\ verdict \in Hashes \cup {None}
        /\ verdict # None => Wins(own, fresh, verdict)
    BY <1>2, VerdictMeaning
  <2>3. finding' = IF Outvoted(own, fresh) THEN "minority"
                   ELSE IF Leading(own, fresh) THEN "majority" ELSE "undecided"
    BY <1>3, <1>6 DEF Finding, TooFew
  <2>4. CASE verdict = None
    <3>1. ResetMinorityState /\ events' = emitted
      BY <1>1, <2>1, <2>4 DEF JudgeByMajority
    <3>2. finding' # "minority"
      BY <1>1, <2>2, <2>3, <2>4
    <3>. QED
      BY <1>4, <3>1, <3>2
  <2>5. CASE verdict = own
    <3>1. EndEpisode(divergeEmitted, emitted) /\ finding' # "minority"
      BY <1>1, <2>1, <2>2, <2>3, <2>5 DEF JudgeByMajority
    <3>2. "divergence" \notin events'
      BY <3>1 DEF EndEpisode
    <3>3. EpisodeIsTheRun'
      <4>1. runEvals' = 0
        BY <3>1 DEF Judge
      <4>2. CASE divergeAge = NotDiverging
        <5>1. stableMinorityTicks = 0
          BY <4>2 DEF EpisodeIsTheRun, NoRunNoCount
        <5>. QED
          BY <3>1, <4>1, <4>2, <5>1 DEF EpisodeIsTheRun, EndEpisode, minority
      <4>3. CASE divergeAge # NotDiverging
        BY <3>1, <4>1, <4>3 DEF EpisodeIsTheRun, EndEpisode, ResetMinorityState
      <4>. QED
        BY <4>2, <4>3
    <3>. QED
      BY <3>2, <3>3 DEF AlertIsEarned, AccusersOutnumberUs
  <2>6. CASE verdict \notin {None, own}
    <3>1. TickMinority(emitted)
      BY <2>1, <2>6 DEF JudgeByMajority
    <3>2. finding' = "minority"
      BY <2>2, <2>3, <2>6
    <3>3. EpisodeIsTheRun'
      BY <3>1, <3>2 DEF EpisodeIsTheRun, TickMinority, Judge, HTypeOK, TypeOK, NotDiverging
    <3>4. AlertIsEarned'
      <4>1. SUFFICES ASSUME "divergence" \in events'
                     PROVE  divergeAge' >= DivergenceMs /\ stableMinorityTicks' >= historyK
                            /\ divergeAge' # NotDiverging
        BY <3>2, <3>3 DEF AlertIsEarned, EpisodeIsTheRun
      <4>. QED
        BY <3>1, <4>1, NumbersAssumption DEF TickMinority, NotDiverging
    <3>5. AccusersOutnumberUs'
      <4>. DEFINE accusers == {p \in DOMAIN peers' :
                                 peers'[p].prevhash = verdict /\ peers'[p].age < PeerStale}
                  backers  == {p \in DOMAIN peers' : peers'[p].prevhash = ownPrevhash'}
      <4>1. accusers = Backers(fresh, verdict) /\ backers = Backers(fresh, own)
        BY <1>2 DEF Backers
      <4>2. Cardinality(accusers) \in Nat /\ Cardinality(backers) \in Nat
        BY <1>2, <4>1, BackersCount
      <4>3. Votes(own, fresh, own) < Votes(own, fresh, verdict)
        BY <2>2, <2>6 DEF Wins
      <4>4. Cardinality(backers) + 1 < Cardinality(accusers)
        <5>. HIDE DEF accusers, backers, verdict
        <5>1. Votes(own, fresh, own) = Cardinality(backers) + 1
          BY <4>1 DEF Votes
        <5>2. Votes(own, fresh, verdict) = Cardinality(accusers) + 0
          BY <2>6, <4>1 DEF Votes
        <5>. QED
          BY <4>2, <4>3, <5>1, <5>2
      <4>5. Cardinality(accusers) >= 2
        BY <4>2, <4>4
      <4>6. verdict \in Hashes \ {own}
        BY <2>2, <2>6
      <4>7. Cardinality(accusers) > Cardinality(backers) + 1
        BY <4>2, <4>4
      <4>8. verdict \in Hashes \ {ownPrevhash'}
        BY <4>6
      <4>. HIDE DEF verdict
      <4>. QED
        BY <4>5, <4>7, <4>8 DEF AccusersOutnumberUs
    <3>. QED
      BY <3>3, <3>4, <3>5
  <2>. QED
    BY <2>4, <2>5, <2>6
<1>. QED
  BY <1>5, <1>6

\* A step without an evaluation and without events disturbs nothing.
LEMMA QuietStep ==
  ASSUME NoRunNoCount, EpisodeIsTheRun, "divergence" \notin events',
         UNCHANGED minority, Idle
  PROVE  NoRunNoCount' /\ EpisodeIsTheRun' /\ AlertIsEarned' /\ AccusersOutnumberUs'
  BY DEF NoRunNoCount, EpisodeIsTheRun, AlertIsEarned, AccusersOutnumberUs, minority, Idle

\* In majority mode every step preserves the inductive invariant.
LEMMA NextEarned ==
  ASSUME MajorityVote, IInv, [HNext]_hvars
  PROVE  IInv'
<1>. USE DEF IInv
<1>1. HTypeOK'
  BY HNextType
<1>2. CASE HPoll
  <2>1. DoPoll
    BY <1>2 DEF HPoll, Start, Poll
  <2>2. CASE upstream = None
    BY <1>1, <1>2, <2>1, <2>2, QuietStep DEF HPoll, DoPoll
  <2>3. CASE upstream # None
    <3>. DEFINE emitted == IF upstream # ownPrevhash THEN {"announce"} ELSE {}
    <3>1. upstream \in Hashes /\ PeerMap(peers) /\ emitted \subseteq {"announce"}
      BY <2>3 DEF HTypeOK, TypeOK, PeerMap
    <3>2. ownPrevhash' = upstream /\ CheckDivergence(upstream, peers, emitted) /\ Judge(1)
      BY <1>2, <2>1, <2>3 DEF HPoll, DoPoll
    <3>. HIDE DEF emitted
    <3>. QED
      BY <1>1, <3>1, <3>2, EvaluationSound
  <2>. QED
    BY <2>2, <2>3
<1>3. CASE HAnnounce
  <2>1. PICK p \in Peers, h \in Hashes, age \in AnnounceAges : OnPeerAnnounce(p, h, age)
    BY <1>3 DEF HAnnounce
  <2>. DEFINE ps == [q \in DOMAIN peers \cup {p} |->
                       IF q = p THEN [prevhash |-> h, age |-> age] ELSE peers[q]]
  <2>2. PeerMap(ps)
    BY AnnounceMap DEF HTypeOK
  <2>3. CheckDivergence(ownPrevhash, ps, {}) /\ ownPrevhash' = ownPrevhash
    BY <2>1 DEF OnPeerAnnounce
  <2>. HIDE DEF ps
  <2>4. CASE ownPrevhash = None
    BY <1>1, <1>3, <2>3, <2>4, QuietStep DEF HAnnounce, CheckDivergence
  <2>5. CASE ownPrevhash # None
    <3>1. ownPrevhash \in Hashes /\ Judge(0)
      BY <1>3, <2>5 DEF HAnnounce, HTypeOK, TypeOK
    <3>. QED
      BY <1>1, <2>2, <2>3, <3>1, EvaluationSound
  <2>. QED
    BY <2>4, <2>5
<1>4. CASE HOther
  <2>1. events' = {} /\ UNCHANGED minority /\ Idle
    BY <1>4 DEF HOther, Stop, UpstreamJob
  <2>. QED
    BY <1>1, <2>1, QuietStep
<1>5. CASE HTick
  <2>1. Tick /\ events' = {} /\ UNCHANGED <<finding, runEvals>>
    BY <1>5 DEF HTick, Tick
  <2>2. EpisodeIsTheRun'
    BY <1>5, <2>1, NumbersAssumption
    DEF EpisodeIsTheRun, HTick, Tick, HTypeOK, TypeOK, NotDiverging, Smaller
  <2>. QED
    BY <1>1, <2>1, <2>2 DEF NoRunNoCount, AlertIsEarned, AccusersOutnumberUs
<1>6. CASE UNCHANGED hvars
  BY <1>1, <1>6 DEF hvars, vars, observer, minority, NoRunNoCount, EpisodeIsTheRun,
                    AlertIsEarned, AccusersOutnumberUs
<1>. QED
  BY <1>2, <1>3, <1>4, <1>5, <1>6 DEF HNext

\* In majority mode the inductive invariant holds in every reachable state.
LEMMA Earned == ASSUME MajorityVote PROVE HSpec => []IInv
<1>1. HInit => IInv
  <2>. SUFFICES ASSUME HInit PROVE IInv
    OBVIOUS
  <2>. QED
    BY HInitType DEF HInit, Init, IInv, NoRunNoCount, EpisodeIsTheRun, AlertIsEarned, AccusersOutnumberUs
<1>2. IInv /\ [HNext]_hvars => IInv'
  BY NextEarned
<1>. QED
  BY <1>1, <1>2, PTL DEF HSpec

\* Every 'divergence' follows an unbroken run of minority evaluations that is
\* DivergenceMs old and historyK long, for any peers, clocks and options.
THEOREM AlertsAreEarned == ASSUME MajorityVote PROVE HSpec => []AlertIsEarned
<1>1. IInv => AlertIsEarned
  BY DEF IInv
<1>. QED
  BY <1>1, Earned, PTL

\* No lone peer, and no group that does not outnumber us and our backers, can
\* have 'divergence' emitted.
THEOREM NoLoneAccuser == ASSUME MajorityVote PROVE HSpec => []AccusersOutnumberUs
<1>1. IInv => AccusersOutnumberUs
  BY DEF IInv
<1>. QED
  BY <1>1, Earned, PTL


\* What the observer sees and what _checkDivergence remembers are the same thing: no
\* path of an evaluation, a poll that fails, a stop or a tick parts them.
THEOREM EpisodesAreRuns == ASSUME MajorityVote PROVE HSpec => []EpisodeIsTheRun
<1>1. IInv => EpisodeIsTheRun
  BY DEF IInv
<1>. QED
  BY <1>1, Earned, PTL
=============================================================================
