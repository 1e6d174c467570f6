--------------------------- MODULE MCPrevhashMonitor ---------------------------
(* Liveness of the prevhash monitor on small instances, in both modes: a   *)
(* behaviour is one of the majority mode that the constants choose, or,    *)
(* from the start, one of a legacy monitor (majorityVote = false).         *)
EXTENDS PrevhashMonitor

VARIABLE legacy  \* which of the two monitors this behaviour runs

Legacy == INSTANCE PrevhashMonitor WITH MajorityVote <- FALSE

\* Reports as fresh as onPeerAnnounce's default ts makes them.
MCFreshAnnounce == {0}

modeVars == <<vars, legacy>>

MCInit == Init /\ legacy \in BOOLEAN

MCNext ==
  /\ UNCHANGED legacy
  /\ \/ ~legacy /\ Next
     \/ legacy /\ Legacy!Next

MCPoll == UNCHANGED legacy /\ IF legacy THEN Legacy!Poll ELSE Poll
MCTick == UNCHANGED legacy /\ IF legacy THEN Legacy!Tick ELSE Tick

\* FairSpec of the monitor that runs.
MCFairSpec ==
  MCInit /\ [][MCNext]_modeVars /\ WF_modeVars(MCPoll) /\ WF_modeVars(MCTick)

-----------------------------------------------------------------------------
(* Liveness, under MCFairSpec. *)

Standing == IF ownPrevhash = None \/ TooFew(Evict(peers)) THEN None
            ELSE Verdict(ownPrevhash, Evict(peers))

\* A lasting minority is reported: if from some time on a fresh plurality
\* stands against us (peers keep announcing, or they would go stale), the
\* divergence is emitted and stays so, even if our own polls fail or stop.
MinorityIsReported ==
  ~legacy =>
    (<>[](Standing \notin {None, ownPrevhash}) => <>[]divergeEmitted)

\* A false alarm ends: once a running monitor that hears from its pool and
\* its peers agrees with the plurality for good, no alarm stays open.
AgreementEndsAlarm ==
  ~legacy =>
    (<>[](pollTimer /\ upstream # None /\ Standing = ownPrevhash /\ ownPrevhash # None)
       => <>[](~divergeEmitted))

\* Legacy mode: one fresh peer that keeps disagreeing with us is enough, and
\* once every peer agrees with a running monitor no alarm stays open.
LegacyFollowsPeers ==
  LET Heard     == ownPrevhash # None /\ ~TooFew(Evict(peers))
      Dissent   == Heard /\ Backers(Evict(peers), ownPrevhash) # DOMAIN Evict(peers)
      Agreement == Heard /\ Backers(Evict(peers), ownPrevhash) = DOMAIN Evict(peers)
  IN  legacy =>
        /\ <>[]Dissent => <>[]divergeEmitted
        /\ <>[](pollTimer /\ upstream # None /\ Agreement) => <>[](~divergeEmitted)

=============================================================================
