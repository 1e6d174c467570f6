---------------------------- MODULE PrevhashHistory ----------------------------
(***************************************************************************)
(* The prevhash monitor with an observer beside it.  The observer knows    *)
(* nothing of the monitor's counters: it judges every evaluation by itself *)
(* from our prevhash and the peers' and remembers how long, and over how   *)
(* many evaluations and polls, its finding has been "minority".  It also   *)
(* listens to the events like an operator who is alarmed from 'divergence' *)
(* until 'resolved'.                                                       *)
(***************************************************************************)
EXTENDS PrevhashMonitor

VARIABLES
  finding,   \* of the last evaluation: "minority", "majority" or "undecided"
  runAge,    \* age of the unbroken run of minority findings, up to DivergenceMs
  runEvals,  \* evaluations in that run, up to historyK
  runPolls,  \* those that were polls, up to historyK
  alarmed    \* the operator's view

observer == <<finding, runAge, runEvals, runPolls, alarmed>>
hvars == <<vars, observer>>

HInit ==
  /\ Init
  /\ finding = "undecided"
  /\ runAge = 0
  /\ runEvals = 0
  /\ runPolls = 0
  /\ alarmed = FALSE

-----------------------------------------------------------------------------
(* Some h other than own is reported by more peers than every other hash   *)
(* has voices, ours included.                                              *)
Outvoted(own, ps) ==
  \E h \in Hashes \ {own} :
    \A g \in Hashes \ {h} :
      Cardinality(Backers(ps, h)) >
        Cardinality(Backers(ps, g)) + (IF g = own THEN 1 ELSE 0)

Leading(own, ps) ==
  \A g \in Hashes \ {own} : Cardinality(Backers(ps, g)) < Cardinality(Backers(ps, own)) + 1

Finding(own, ps) ==
  CASE DOMAIN ps = {} \/ Cardinality(DOMAIN ps) < MinPeersForAlert -> "undecided"
    [] OTHER -> IF Outvoted(own, ps) THEN "minority"
                ELSE IF Leading(own, ps) THEN "majority" ELSE "undecided"

Listen ==
  alarmed' = IF "divergence" \in events' THEN TRUE
             ELSE IF "resolved" \in events' THEN FALSE
             ELSE alarmed

\* An evaluation: by a poll (polled = 1) or by an announcement (0).
Judge(polled) ==
  LET found == Finding(ownPrevhash', peers')
      goes  == finding = "minority"
  IN  /\ finding' = found
      /\ runAge' = IF found = "minority" /\ goes THEN runAge ELSE 0
      /\ runEvals' = IF found # "minority" THEN 0
                     ELSE IF goes THEN Smaller(runEvals + 1, historyK) ELSE 1
      /\ runPolls' = IF found # "minority" THEN 0
                     ELSE IF goes THEN Smaller(runPolls + polled, historyK) ELSE polled

Idle == UNCHANGED <<finding, runAge, runEvals, runPolls>>

HPoll ==
  /\ Start \/ Poll
  /\ IF upstream = None THEN Idle ELSE Judge(1)
  /\ Listen

HAnnounce ==
  /\ \E p \in Peers, h \in Hashes, age \in AnnounceAges : OnPeerAnnounce(p, h, age)
  /\ IF ownPrevhash = None THEN Idle ELSE Judge(0)
  /\ Listen

HOther ==
  /\ Stop \/ \E h \in Hashes \cup {None} : UpstreamJob(h)
  /\ Idle
  /\ Listen

HTick ==
  /\ Tick
  /\ runAge' = IF finding = "minority" THEN Smaller(runAge + 1, DivergenceMs) ELSE runAge
  /\ UNCHANGED <<finding, runEvals, runPolls>>
  /\ Listen

HNext == HPoll \/ HAnnounce \/ HOther \/ HTick

HSpec == HInit /\ [][HNext]_hvars

-----------------------------------------------------------------------------
(* The safety of the default, majority-vote mode. *)

\* An alert is earned: when _tickMinority emits 'divergence', every
\* evaluation of the last DivergenceMs, and at least historyK in a row, found
\* us in the minority.  A tie, a lost quorum or a rejoin in between, however
\* short, restarts both counts.
AlertIsEarned ==
  "divergence" \in events =>
    /\ finding = "minority"
    /\ runAge >= DivergenceMs
    /\ runEvals >= historyK

\* The stabiliser "majority vote": no lone peer, and no group of peers that
\* is not larger than ours, can have 'divergence' emitted.  At least two
\* fresh peers agree on another hash, and they outnumber us with our backers.
AccusersOutnumberUs ==
  "divergence" \in events =>
    \E h \in Hashes \ {ownPrevhash} :
      LET accusers == {p \in DOMAIN peers : peers[p].prevhash = h /\ peers[p].age < PeerStale}
          backers  == {p \in DOMAIN peers : peers[p].prevhash = ownPrevhash}
      IN  Cardinality(accusers) >= 2 /\ Cardinality(accusers) > Cardinality(backers) + 1

\* The minority state of _checkDivergence is open exactly as long as the last
\* evaluation found us in the minority (no path out of the handler leaves a
\* stale _divergeStart behind, and none drops a live one), and it measures
\* that run of findings and nothing older.
EpisodeIsTheRun ==
  /\ divergeAge # NotDiverging <=> finding = "minority"
  /\ divergeAge # NotDiverging => divergeAge = runAge
  /\ stableMinorityTicks = runEvals

-----------------------------------------------------------------------------
(* What the documents say and the code does not do. *)

\* SPEC.md: divergence is emitted only when the minority condition has held
\* for at least historyK consecutive polling ticks.
AlertNeedsPolls == "divergence" \in events => runPolls >= historyK

\* The event 'resolved' tells that self has rejoined the majority verdict, and
\* must be emitted when it does: an evaluation that finds us in the majority
\* leaves no operator alarmed.
RejoinEndsAlarm == finding = "majority" => ~alarmed

\* An operator never sees 'resolved' without an alarm that precedes it.
ResolvedEndsAnAlarm == []["resolved" \in events' => alarmed]_hvars

\* docs/prevhash-monitor.md: 'resolved' means that all known peers agree.
ResolvedMeansAgreement ==
  "resolved" \in events => \A p \in DOMAIN peers : peers[p].prevhash = ownPrevhash

\* docs/prevhash-monitor.md: 'divergence' is a disagreement with at least
\* minPeersForAlert peers.
AlertNeedsDissenters ==
  "divergence" \in events =>
    Cardinality({p \in DOMAIN peers : peers[p].prevhash # ownPrevhash}) >= MinPeersForAlert

=============================================================================
