---------------------------- MODULE PrevhashMonitor ----------------------------
(***************************************************************************)
(* The cross-pool prevhash divergence detector, src/prevhash-monitor.js.   *)
(*                                                                         *)
(* A monitor polls the prevhash of its own upstream pool, receives the     *)
(* prevhashes of federation peers, and after every poll and every peer     *)
(* announcement tallies (self + fresh peers).  When the unique plurality   *)
(* of the tally is not its own prevhash for long enough and often enough,  *)
(* it emits 'divergence'; when it rejoins, 'resolved'.                     *)
(*                                                                         *)
(* The code compares only differences of clock readings, so the model      *)
(* keeps ages instead of instants: now - ts for a peer, now - divergeStart *)
(* for a minority episode.  Tick ages everything by one unit; an age stops *)
(* growing where the code can no longer tell it from a larger one.  The    *)
(* state is therefore finite although time never stops.                    *)
(***************************************************************************)
EXTENDS Integers, FiniteSets

CONSTANTS
  Peers,             \* peer ids
  Hashes,            \* prevhashes
  None,              \* null
  PeerStale,         \* PEER_STALE_MS, in clock units
  DivergenceMs,      \* divergenceMs, in clock units
  MinPeersForAlert,  \* minPeersForAlert
  HistoryK,          \* the historyK option, before it is clamped
  MajorityVote,      \* majorityVote: TRUE is v0.2, FALSE the legacy v0.1 mode
  AnnounceAges       \* now - ts of an announcement on arrival; < 0: sender's clock is ahead

ASSUME PeersAssumption == IsFiniteSet(Peers)
ASSUME NoneAssumption == None \notin Hashes
ASSUME NumbersAssumption ==
  /\ PeerStale \in Nat
  /\ DivergenceMs \in Nat
  /\ MinPeersForAlert \in Nat
  /\ HistoryK \in Nat
  /\ MajorityVote \in BOOLEAN
  /\ AnnounceAges \subseteq Int

VARIABLES
  upstream,             \* what getPrevhash() returns now (the environment's)
  pollTimer,            \* TRUE iff the poll interval is armed
  ownPrevhash,          \* our prevhash at the last successful poll, or None
  peers,                \* Map peerId -> [prevhash, age]
  divergeAge,           \* now - divergeStart, or NotDiverging
  divergeEmitted,       \* 'divergence' was emitted in this episode
  stableMinorityTicks,  \* evaluations of this episode, counted up to historyK
  events                \* what the last step emitted

minority == <<divergeAge, divergeEmitted, stableMinorityTicks>>
vars == <<upstream, pollTimer, ownPrevhash, peers, minority, events>>

NotDiverging == -1
historyK == IF HistoryK > 1 THEN HistoryK ELSE 1
Smaller(a, b) == IF a < b THEN a ELSE b

Entries == [prevhash : Hashes, age : Int]
EventNames == {"announce", "divergence", "resolved"}

Init ==
  /\ upstream \in Hashes \cup {None}
  /\ pollTimer = FALSE
  /\ ownPrevhash = None
  /\ peers = [p \in {} |-> None]
  /\ divergeAge = NotDiverging
  /\ divergeEmitted = FALSE
  /\ stableMinorityTicks = 0
  /\ events = {}

-----------------------------------------------------------------------------
(* _tally: stale peers leave the map, the rest vote together with self. *)

Evict(ps) ==
  LET fresh == {p \in DOMAIN ps : ps[p].age < PeerStale}
  IN  [p \in fresh |-> ps[p]]

Backers(ps, h) == {p \in DOMAIN ps : ps[p].prevhash = h}

\* Mutation of Votes: our own vote is forgotten.
VotesOfOthers(own, ps, h) == Cardinality(Backers(ps, h))

Votes(own, ps, h) == Cardinality(Backers(ps, h)) + (IF h = own THEN 1 ELSE 0)

Wins(own, ps, h) == \A g \in Hashes \ {h} : Votes(own, ps, g) < Votes(own, ps, h)

\* The unique prevhash with the most votes, None on a tie.
Verdict(own, ps) ==
  IF \E h \in Hashes : Wins(own, ps, h)
  THEN CHOOSE h \in Hashes : Wins(own, ps, h)
  ELSE None

TooFew(ps) == DOMAIN ps = {} \/ Cardinality(DOMAIN ps) < MinPeersForAlert

-----------------------------------------------------------------------------
(* _checkDivergence and what it calls.  emitted is the set of events the   *)
(* handler has emitted before.                                             *)

\* Mutation of ResetMinorityState: the ticks of the last episode survive.
ResetButTicks ==
  /\ divergeAge' = NotDiverging
  /\ divergeEmitted' = FALSE
  /\ UNCHANGED stableMinorityTicks

ResetMinorityState ==
  /\ divergeAge' = NotDiverging
  /\ divergeEmitted' = FALSE
  /\ stableMinorityTicks' = 0

\* Mutation of TickMinority: every tick starts the clock anew.
TickRestarting(emitted) ==
  LET begins == divergeAge = NotDiverging
      ticks  == IF begins THEN 1 ELSE Smaller(stableMinorityTicks + 1, historyK)
      tell   == ~divergeEmitted /\ ticks >= historyK /\ divergeAge >= DivergenceMs
  IN  /\ divergeAge' = 0
      /\ stableMinorityTicks' = ticks
      /\ divergeEmitted' = (divergeEmitted \/ tell)
      /\ events' = IF tell THEN emitted \cup {"divergence"} ELSE emitted

TickMinority(emitted) ==
  LET begins == divergeAge = NotDiverging
      age    == IF begins THEN 0 ELSE divergeAge
      ticks  == IF begins THEN 1 ELSE Smaller(stableMinorityTicks + 1, historyK)
      told   == ~begins /\ divergeEmitted
      tell   == ~told /\ ticks >= historyK /\ age >= DivergenceMs
  IN  /\ divergeAge' = age
      /\ stableMinorityTicks' = ticks
      /\ divergeEmitted' = (told \/ tell)
      /\ events' = IF tell THEN emitted \cup {"divergence"} ELSE emitted

\* Mutation of EndEpisode: 'resolved' without asking whether anyone was alarmed.
EndAlwaysTelling(tell, emitted) ==
  /\ ResetMinorityState
  /\ events' = IF divergeAge = NotDiverging THEN emitted ELSE emitted \cup {"resolved"}

\* Mutation of EndEpisode: told, but not reset.
EndWithoutReset(tell, emitted) ==
  /\ UNCHANGED minority
  /\ events' = IF divergeAge # NotDiverging /\ tell THEN emitted \cup {"resolved"} ELSE emitted

\* Back in agreement: the episode ends, and 'resolved' is due when tell.
EndEpisode(tell, emitted) ==
  IF divergeAge = NotDiverging
  THEN UNCHANGED minority /\ events' = emitted
  ELSE /\ ResetMinorityState
       /\ events' = IF tell THEN emitted \cup {"resolved"} ELSE emitted

\* Mutation of JudgeLegacy: only unanimous peers make us divergent.
JudgeLegacyUnanimous(own, fresh, emitted) ==
  IF Backers(fresh, own) # {}
  THEN EndEpisode(TRUE, emitted)
  ELSE TickMinority(emitted)

\* v0.1: any fresh peer that disagrees with us makes us divergent.
JudgeLegacy(own, fresh, emitted) ==
  IF Backers(fresh, own) = DOMAIN fresh
  THEN EndEpisode(TRUE, emitted)
  ELSE TickMinority(emitted)

\* Mutation of JudgeByMajority: a tie leaves the episode open.
JudgeIgnoringTies(own, fresh, emitted) ==
  LET verdict == Verdict(own, fresh)
  IN  CASE verdict = None -> UNCHANGED minority /\ events' = emitted
        [] verdict = own  -> EndEpisode(divergeEmitted, emitted)
        [] OTHER          -> TickMinority(emitted)

\* v0.2: a tie is no verdict; otherwise the plurality judges us.
JudgeByMajority(own, fresh, emitted) ==
  LET verdict == Verdict(own, fresh)
  IN  CASE verdict = None -> ResetMinorityState /\ events' = emitted
        [] verdict = own  -> EndEpisode(divergeEmitted, emitted)
        [] OTHER          -> TickMinority(emitted)

CheckDivergence(own, ps, emitted) ==
  LET fresh == Evict(ps)
  IN  IF own = None
      THEN /\ peers' = ps
           /\ events' = emitted
           /\ UNCHANGED minority
      ELSE /\ peers' = fresh
           /\ CASE TooFew(fresh) -> ResetMinorityState /\ events' = emitted
                [] ~TooFew(fresh) /\ MajorityVote -> JudgeByMajority(own, fresh, emitted)
                [] ~TooFew(fresh) /\ ~MajorityVote -> JudgeLegacy(own, fresh, emitted)

\* _poll: nothing happens while getPrevhash() has nothing to tell.
DoPoll ==
  IF upstream = None
  THEN /\ events' = {}
       /\ UNCHANGED <<ownPrevhash, peers, minority>>
  ELSE /\ ownPrevhash' = upstream
       /\ CheckDivergence(upstream, peers,
                          IF upstream # ownPrevhash THEN {"announce"} ELSE {})

-----------------------------------------------------------------------------
(* The operations. *)

Start ==
  /\ DoPoll
  /\ pollTimer' = TRUE
  /\ UNCHANGED upstream

\* Only the timer goes: the peers and the minority state survive a stop.
Stop ==
  /\ pollTimer' = FALSE
  /\ events' = {}
  /\ UNCHANGED <<upstream, ownPrevhash, peers, minority>>

Poll ==
  /\ pollTimer
  /\ DoPoll
  /\ UNCHANGED <<upstream, pollTimer>>

\* Mutation of OnPeerAnnounce: an announcement without a prevhash is kept.
OnEmptyAnnounce(p, h, age) ==
  /\ CheckDivergence(ownPrevhash,
                     [q \in DOMAIN peers \cup {p} |->
                        IF q = p THEN [prevhash |-> None, age |-> age] ELSE peers[q]],
                     {})
  /\ UNCHANGED <<upstream, pollTimer, ownPrevhash>>

\* A running poll timer is not needed: the handler works on a stopped monitor.
OnPeerAnnounce(p, h, age) ==
  /\ CheckDivergence(ownPrevhash,
                     [q \in DOMAIN peers \cup {p} |->
                        IF q = p THEN [prevhash |-> h, age |-> age] ELSE peers[q]],
                     {})
  /\ UNCHANGED <<upstream, pollTimer, ownPrevhash>>

\* The upstream pool sends a new job, or we lose it (None).
UpstreamJob(h) ==
  /\ upstream' = h
  /\ events' = {}
  /\ UNCHANGED <<pollTimer, ownPrevhash, peers, minority>>

\* One unit of clock time passes.
Tick ==
  /\ peers' = [p \in DOMAIN peers |->
                 [peers[p] EXCEPT !.age = IF @ < PeerStale THEN @ + 1 ELSE @]]
  /\ divergeAge' = IF divergeAge = NotDiverging
                   THEN NotDiverging
                   ELSE Smaller(divergeAge + 1, DivergenceMs)
  /\ events' = {}
  /\ UNCHANGED <<upstream, pollTimer, ownPrevhash, divergeEmitted, stableMinorityTicks>>

Next ==
  \/ Start
  \/ Stop
  \/ Poll
  \/ \E p \in Peers, h \in Hashes, age \in AnnounceAges : OnPeerAnnounce(p, h, age)
  \/ \E h \in Hashes \cup {None} : UpstreamJob(h)
  \/ Tick

Spec == Init /\ [][Next]_vars

\* The poll interval keeps firing while armed, and the clock keeps running.
FairSpec == Spec /\ WF_vars(Poll) /\ WF_vars(Tick)

-----------------------------------------------------------------------------
(* Every variable has the type its comment gives. *)
TypeOK ==
  /\ upstream \in Hashes \cup {None}
  /\ pollTimer \in BOOLEAN
  /\ ownPrevhash \in Hashes \cup {None}
  /\ DOMAIN peers \subseteq Peers
  /\ peers \in [DOMAIN peers -> Entries]
  /\ divergeAge \in {NotDiverging} \cup (0 .. DivergenceMs)
  /\ divergeEmitted \in BOOLEAN
  /\ stableMinorityTicks \in 0 .. historyK
  /\ events \subseteq EventNames

-----------------------------------------------------------------------------
(* The monitor implements the alarm its events promise. *)

Alarm == INSTANCE DivergenceAlarm WITH
  MinAge <- DivergenceMs,
  phase  <- CASE divergeAge = NotDiverging -> "clear"
              [] divergeAge # NotDiverging /\ ~divergeEmitted -> "suspect"
              [] divergeAge # NotDiverging /\ divergeEmitted -> "alarmed",
  age    <- IF divergeAge = NotDiverging THEN 0 ELSE divergeAge,
  signal <- events \ {"announce"}

\* In majority mode 'divergence' is emitted once per minority episode, never
\* before the episode is DivergenceMs old, and 'resolved' only for an episode
\* that was announced: the monitor implements DivergenceAlarm.
AlarmProtocol == Alarm!Spec

=============================================================================
