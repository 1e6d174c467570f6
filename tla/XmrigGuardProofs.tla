---------------------------- MODULE XmrigGuardProofs ----------------------------
(***************************************************************************)
(* Proofs about the hashrate monitor, for every set of sources, grace      *)
(* period, list of fallbacks and number of polls in flight, and about the  *)
(* wrapper that drives it, for every overlap of restarts, backoffs and     *)
(* evacuations.                                                            *)
(*                                                                         *)
(* The strengthening the monitor's invariants share is Countdown: a        *)
(* countdown is never younger than the cooldown of the evacuation before   *)
(* it, so what is left of the countdown and what has passed since that     *)
(* evacuation add up to at least two grace periods.  It is what makes a    *)
(* result that the cooldown drops unable to slip under a running           *)
(* countdown.  The wrapper keeps the monitor's invariant: whatever it does *)
(* to the monitor is a step of the monitor's own specification, or only    *)
(* takes the event.                                                        *)
(***************************************************************************)
EXTENDS XmrigGuard, HashrateFetches, TLAPS

\* What a running countdown says about the time of the last evacuation.
Countdown ==
  graceLeft # NoGrace =>
    /\ sinceEvac >= GracePeriod
    /\ sinceEvac + graceLeft >= 2 * GracePeriod

\* The inductive invariant.
IInv == TypeOK /\ GraceIsJustified /\ Countdown

-----------------------------------------------------------------------------

\* The counts of polls in flight stay natural numbers when a poll moves.
LEMMA PollsStayCounted ==
  ASSUME polls \in [Stages -> Nat], NEW s \in Stages, NEW t \in Stages, polls[s] > 0
  PROVE  /\ [polls EXCEPT ![s] = @ - 1] \in [Stages -> Nat]
         /\ [polls EXCEPT ![s] = @ + 1] \in [Stages -> Nat]
         /\ s # t => [polls EXCEPT ![s] = @ - 1, ![t] = @ + 1] \in [Stages -> Nat]
  OBVIOUS

\* A poll that ends on a level below or above the limits leaves a countdown
\* that is justified by that level.
LEMMA EvaluateKeeps ==
  ASSUME IInv, NEW s \in Stages, NEW level \in Levels,
         Conclude(s, level), Evaluate(level), evacuation' = None,
         UNCHANGED <<pollTimer, sinceEvac, fallbacks>>
  PROVE  IInv'
<1> USE NumbersAssumption
<1>1. polls' \in [Stages -> Nat] /\ lastLevel' = level /\ lastError' = FALSE
  BY PollsStayCounted DEF Conclude, IInv, TypeOK
<1>2. sinceEvac \in Nat /\ GracePeriod \in Nat
  BY DEF IInv, TypeOK, LongAgo
<1>3. CASE CoolingDown
  <2>1. graceLeft = NoGrace
    BY <1>2, <1>3 DEF IInv, Countdown, CoolingDown
  <2>2. graceLeft' = NoGrace /\ shown' = shown
    BY <1>3, <2>1 DEF Evaluate
  <2> QED BY <1>1, <2>1, <2>2 DEF fallbacks, IInv, TypeOK, GraceIsJustified, Countdown, LongAgo
<1>4. CASE ~CoolingDown
  <2>1. sinceEvac >= GracePeriod
    BY <1>2, <1>4 DEF CoolingDown
  <2>2. CASE level = "high"
    <3>1. shown' = "crit" /\ graceLeft' = IF graceLeft = NoGrace THEN GracePeriod ELSE graceLeft
      BY <1>4, <2>2 DEF Evaluate
    <3>2. graceLeft' \in 0 .. GracePeriod /\ Countdown'
      BY <1>2, <2>1, <3>1 DEF IInv, TypeOK, Countdown, NoGrace
    <3>3. GraceIsJustified'
      BY <1>1, <2>2 DEF GraceIsJustified
    <3>4. TypeOK'
      BY <1>1, <3>1, <3>2 DEF fallbacks, IInv, TypeOK, LongAgo
    <3> QED BY <3>2, <3>3, <3>4 DEF IInv
  <2>3. CASE level # "high"
    <3>1. graceLeft' = NoGrace /\ shown' \in {None, "safe", "warn", "crit"}
      BY <1>4, <2>3 DEF Evaluate, Levels, IInv, TypeOK
    <3> QED BY <1>1, <1>2, <3>1
        DEF fallbacks, IInv, TypeOK, GraceIsJustified, Countdown, NoGrace, LongAgo, Levels
  <2> QED BY <2>2, <2>3
<1> QED BY <1>3, <1>4

\* An evacuation leaves no countdown behind and a well-formed event.
LEMMA EvacuateKeeps ==
  ASSUME IInv, NEW reason \in {"fork", "threshold"}, StartEvacuate(reason)
  PROVE  /\ graceLeft' = NoGrace
         /\ pollTimer' \in BOOLEAN
         /\ sinceEvac' \in 0 .. LongAgo
         /\ numFallbacks' \in 0 .. MaxFallbacks
         /\ fallbackIdx' \in Nat /\ (numFallbacks' > 0 => fallbackIdx' < numFallbacks')
         /\ evacuation' \in [reason : {"fork", "threshold"}, fallback : Fallbacks]
         /\ evacuation'.reason = reason
<1> USE NumbersAssumption
<1>1. /\ numFallbacks' \in 0 .. MaxFallbacks
      /\ fallbackIdx' \in Nat /\ (numFallbacks' > 0 => fallbackIdx' < numFallbacks')
  BY DEF StartEvacuate, IInv, TypeOK
<1>2. NextFallback \in Fallbacks
  BY DEF NextFallback, Fallbacks, IInv, TypeOK
<1>3. evacuation' = [reason |-> reason, fallback |-> NextFallback]
  BY DEF StartEvacuate
<1>4. evacuation' \in [reason : {"fork", "threshold"}, fallback : Fallbacks]
  BY <1>2, <1>3
<1>5. evacuation'.reason = reason
  BY <1>3
<1>6. graceLeft' = NoGrace /\ pollTimer' = FALSE /\ sinceEvac' = 0
  BY DEF StartEvacuate
<1>7. 0 \in 0 .. LongAgo
  BY DEF LongAgo
<1> QED BY <1>1, <1>4, <1>5, <1>6, <1>7

-----------------------------------------------------------------------------

LEMMA InitKeeps == Init => IInv
<1> SUFFICES ASSUME Init PROVE IInv
  OBVIOUS
<1>1. polls \in [Stages -> Nat]
  BY DEF Init
<1>2. sinceEvac \in 0 .. LongAgo /\ fallbackIdx = 0 /\ numFallbacks \in 0 .. MaxFallbacks
  BY NumbersAssumption DEF Init, LongAgo
<1>3. GraceIsJustified /\ Countdown
  BY DEF Init, GraceIsJustified, Countdown
<1>4. lastError \in BOOLEAN /\ pollTimer \in BOOLEAN
  BY DEF Init
<1> QED BY NumbersAssumption, <1>1, <1>2, <1>3, <1>4 DEF Init, IInv, TypeOK

LEMMA NextKeeps == IInv /\ [Next]_vars => IInv'
<1> SUFFICES ASSUME IInv, [Next]_vars PROVE IInv'
  OBVIOUS
<1> USE NumbersAssumption
<1>0. TypeOK /\ GraceIsJustified /\ Countdown
  BY DEF IInv
<1>1. ASSUME BeginPoll PROVE polls' \in [Stages -> Nat]
  BY <1>0, <1>1 DEF BeginPoll, TypeOK, Stages
<1>2. CASE Start
  <2>1. polls' \in [Stages -> Nat]
    BY <1>0, <1>1, <1>2 DEF Start, TypeOK
  <2> QED BY <1>0, <1>2, <2>1
      DEF Start, fallbacks, rest, IInv, TypeOK, GraceIsJustified, Countdown, LongAgo
<1>3. CASE Stop
  BY <1>0, <1>3 DEF Stop, fallbacks, rest, IInv, TypeOK, GraceIsJustified, Countdown, LongAgo
<1>4. CASE TimerPoll
  BY <1>0, <1>1, <1>4 DEF TimerPoll, fallbacks, rest, IInv, TypeOK, GraceIsJustified, Countdown, LongAgo
<1>5. CASE PollNow
  BY <1>0, <1>1, <1>5 DEF PollNow, fallbacks, rest, IInv, TypeOK, GraceIsJustified, Countdown, LongAgo
<1>6. ASSUME NEW s \in Stages, NEW later \in SUBSET {"stats", "health"},
             s \notin later, TryNext(s, later)
      PROVE  IInv'
  <2>1. polls' \in [Stages -> Nat] /\ lastError' \in BOOLEAN
    <3>1. CASE later \cap Sources = {}
      BY <1>0, <1>6, <3>1, PollsStayCounted DEF TryNext, TypeOK
    <3>2. CASE later \cap Sources # {}
      <4> DEFINE t == IF "stats" \in later \cap Sources THEN "stats" ELSE "health"
      <4>1. t \in Stages /\ t # s
        BY <1>6, <3>2 DEF Stages
      <4>2. polls' = [polls EXCEPT ![s] = @ - 1, ![t] = @ + 1] /\ lastError' = lastError
        BY <1>6, <3>2 DEF TryNext
      <4>3. polls[s] > 0
        BY <1>6 DEF TryNext
      <4> HIDE DEF t
      <4> QED BY <1>0, <4>1, <4>2, <4>3, PollsStayCounted DEF TypeOK
    <3> QED BY <3>1, <3>2
  <2> QED BY <1>0, <1>6, <2>1
      DEF TryNext, fallbacks, IInv, TypeOK, GraceIsJustified, Countdown, LongAgo
<1>7. CASE NetworkFails \/ NetworkAnswers \/ StatsFails \/ HealthFails
  BY <1>6, <1>7 DEF NetworkFails, NetworkAnswers, StatsFails, HealthFails, Stages
<1>8. ASSUME NEW level \in Levels, LocalAnswers(level) PROVE IInv'
  BY <1>8, EvaluateKeeps DEF LocalAnswers, Stages
<1>9. ASSUME NEW level \in Levels, StatsAnswers(level) PROVE IInv'
  BY <1>9, EvaluateKeeps DEF StatsAnswers, Stages
<1>10. ASSUME NEW level \in Levels, NEW forkDetected \in BOOLEAN,
              HealthAnswers(level, forkDetected)
       PROVE  IInv'
  <2>1. CASE forkDetected
    <3>1. polls' \in [Stages -> Nat] /\ lastLevel' = level /\ lastError' = FALSE
      BY <1>0, <1>10, PollsStayCounted DEF HealthAnswers, Conclude, TypeOK, Stages
    <3>2. StartEvacuate("fork") /\ UNCHANGED shown
      BY <1>10, <2>1 DEF HealthAnswers
    <3>3. /\ graceLeft' = NoGrace
          /\ pollTimer' \in BOOLEAN
          /\ sinceEvac' \in 0 .. LongAgo
          /\ numFallbacks' \in 0 .. MaxFallbacks
          /\ fallbackIdx' \in Nat /\ (numFallbacks' > 0 => fallbackIdx' < numFallbacks')
          /\ evacuation' \in [reason : {"fork", "threshold"}, fallback : Fallbacks]
          /\ evacuation'.reason = "fork"
      BY <3>2, EvacuateKeeps
    <3> QED BY <1>0, <1>10, <3>1, <3>2, <3>3
        DEF IInv, TypeOK, GraceIsJustified, Countdown
  <2>2. CASE ~forkDetected
    BY <1>10, <2>2, EvaluateKeeps DEF HealthAnswers, Stages
  <2> QED BY <2>1, <2>2
<1>11. CASE Second
  <2>1. CASE graceLeft = NoGrace \/ graceLeft > 1
    <3>1. /\ graceLeft' = IF graceLeft = NoGrace THEN NoGrace ELSE graceLeft - 1
          /\ sinceEvac' = Smaller(sinceEvac + 1, LongAgo)
          /\ evacuation' = None
          /\ UNCHANGED <<pollTimer, fallbacks, polls, lastLevel, lastError, shown>>
      BY <1>11, <2>1 DEF Second, rest, NoGrace
    <3>2. sinceEvac' \in 0 .. LongAgo
      BY <1>0, <3>1 DEF TypeOK, Smaller, LongAgo
    <3>3. Countdown'
      BY <1>0, <2>1, <3>1 DEF Countdown, TypeOK, Smaller, LongAgo, NoGrace
    <3> QED BY <1>0, <2>1, <3>1, <3>2, <3>3 DEF fallbacks, IInv, TypeOK, GraceIsJustified, NoGrace, LongAgo
  <2>2. CASE graceLeft \in {0, 1}
    <3>1. StartEvacuate("threshold") /\ UNCHANGED <<polls, lastLevel, lastError, shown>>
      BY <1>11, <2>2 DEF Second, rest, NoGrace
    <3>2. lastLevel = "high"
      BY <1>0, <2>2 DEF GraceIsJustified, NoGrace
    <3>3. /\ graceLeft' = NoGrace
          /\ pollTimer' \in BOOLEAN
          /\ sinceEvac' \in 0 .. LongAgo
          /\ numFallbacks' \in 0 .. MaxFallbacks
          /\ fallbackIdx' \in Nat /\ (numFallbacks' > 0 => fallbackIdx' < numFallbacks')
          /\ evacuation' \in [reason : {"fork", "threshold"}, fallback : Fallbacks]
      BY <3>1, EvacuateKeeps
    <3> QED BY <1>0, <3>1, <3>2, <3>3 DEF IInv, TypeOK, GraceIsJustified, Countdown
  <2> QED BY <1>11, <2>1, <2>2 DEF Second
<1>12. CASE UNCHANGED vars
  BY <1>0, <1>12 DEF vars, fallbacks, rest, IInv, TypeOK, GraceIsJustified, Countdown, LongAgo
<1> QED BY <1>2, <1>3, <1>4, <1>5, <1>7, <1>8, <1>9, <1>10, <1>11, <1>12
       DEF Next, Answer, Succeeds

THEOREM Invariant == Spec => []IInv
  BY InitKeeps, NextKeeps, PTL DEF Spec

\* The state of the monitor is well-typed.
THEOREM TypeCorrect == Spec => []TypeOK
  BY Invariant, PTL DEF IInv

\* A countdown, and the evacuation it ends in, always has the last known
\* share behind it.
THEOREM GraceJustified == Spec => []GraceIsJustified
  BY Invariant, PTL DEF IInv

\* Threshold evacuations come at least a cooldown and a countdown after any
\* other evacuation.
THEOREM EvacuationsApart == Spec => ThresholdEvacuationsAreApart
<1>1. IInv /\ [Next]_vars
        => [evacuation' # None /\ evacuation'.reason = "threshold"
              => sinceEvac + 1 >= 2 * GracePeriod]_vars
  <2> SUFFICES ASSUME IInv, Next, evacuation' # None, evacuation'.reason = "threshold"
               PROVE  sinceEvac + 1 >= 2 * GracePeriod
    OBVIOUS
  <2> USE NumbersAssumption
  <2>1. CASE Second
    <3>1. graceLeft \in {0, 1}
      BY <2>1 DEF Second
    <3> QED BY <3>1 DEF IInv, Countdown, TypeOK, NoGrace, LongAgo
  <2>2. ASSUME NEW level \in Levels, NEW forkDetected \in BOOLEAN,
               HealthAnswers(level, forkDetected)
        PROVE  FALSE
    BY <2>2 DEF HealthAnswers, StartEvacuate
  <2> QED BY <2>1, <2>2
      DEF Next, Answer, Succeeds, Start, Stop, TimerPoll, PollNow, NetworkFails, NetworkAnswers,
          StatsFails, HealthFails, LocalAnswers, StatsAnswers, TryNext
<1> QED BY <1>1, Invariant, PTL DEF Spec, ThresholdEvacuationsAreApart

-----------------------------------------------------------------------------
\* A poll whose fetches are followed is a poll of the monitor: what is shown about
\* polls that go on at any time in any way holds of those that await their fetches.
THEOREM FetchesImplementPolls == FetchSpec => Spec
<1>1. FetchInit => Init
  BY DEF FetchInit
<1>2. [FetchNext]_fetchVars => [Next]_vars
  <2>1. Begins => Start \/ TimerPoll \/ PollNow
    BY DEF Begins
  <2>2. Resumes => Answer
    BY DEF Resumes, Answer
  <2>3. ASSUME NEW url, Fetch(url) PROVE UNCHANGED vars
    BY <2>3 DEF Fetch
  <2> QED BY <2>1, <2>2, <2>3 DEF FetchNext, Next, fetchVars
<1> QED BY <1>1, <1>2, PTL DEF FetchSpec, Spec

-----------------------------------------------------------------------------
(* The wrapper. *)

\* Once the process is on its way out no event is left to handle.
QuietAtTheEnd == shuttingDown => evacuation = None

\* xmrigProc names a live process only on the current pool.
MinerIsCurrent == MinerAlive => miner.pool = currentPool

\* The inductive invariant.
GuardInv ==
  /\ IInv /\ GuardTypeOK
  /\ OneMinerOnCurrentPool /\ MinerIsCurrent
  /\ NeverUnwatched /\ QuietAtTheEnd

-----------------------------------------------------------------------------

\* A spawned miner is a value of xmrigProc other than null.
LEMMA SpawnedIsMiner ==
  ASSUME NEW pool \in Pools
  PROVE  /\ Spawned(pool) \in [pool : Pools, alive : BOOLEAN]
         /\ Spawned(pool) # None
<1>1. Spawned(pool) \in [pool : Pools, alive : BOOLEAN]
  BY DEF Spawned
<1>2. None \notin [pool : Pools, alive : BOOLEAN]
  BY MinerAssumption DEF Pools
<1> QED BY <1>1, <1>2

\* After kill() no process runs that nobody has killed.
LEMMA KillLeavesNone ==
  ASSUME GuardInv, ~shuttingDown
  PROVE  /\ RunningLess = [p \in Pools |-> 0]
         /\ DyingMore \in Nat
<1>1. CASE MinerAlive
  <2>1. miner.pool \in Pools /\ miner.pool = currentPool
    BY <1>1, MinerAssumption DEF GuardInv, GuardTypeOK, MinerAlive, MinerIsCurrent, Pools
  <2>2. \A p \in Pools : running[p] = IF p = currentPool THEN 1 ELSE 0
    BY <1>1 DEF GuardInv, OneMinerOnCurrentPool
  <2>3. RunningLess = [running EXCEPT ![miner.pool] = @ - 1] /\ DyingMore = dying + 1
    BY <1>1 DEF RunningLess, DyingMore
  <2>4. running \in [Pools -> Nat] /\ dying \in Nat
    BY DEF GuardInv, GuardTypeOK
  <2>5. \A p \in Pools : RunningLess[p] = 0
    BY <2>1, <2>2, <2>3, <2>4
  <2>6. RunningLess = [p \in Pools |-> RunningLess[p]]
    BY <2>3, <2>4
  <2>7. RunningLess = [p \in Pools |-> 0]
    BY <2>5, <2>6
  <2>8. DyingMore \in Nat
    BY <2>3, <2>4
  <2> QED BY <2>7, <2>8
<1>2. CASE ~MinerAlive
  <2>1. \A p \in Pools : running[p] = 0
    BY <1>2 DEF GuardInv, OneMinerOnCurrentPool
  <2> QED BY <1>2, <2>1 DEF GuardInv, GuardTypeOK, RunningLess, DyingMore
<1> QED BY <1>1, <1>2

\* startXMRig on the pool that becomes the current one restores the match of
\* processes, xmrigProc and current pool.
LEMMA StartMatches ==
  ASSUME GuardInv, ~shuttingDown, NEW pool \in Pools, StartXMRig(pool),
         currentPool' = pool, shuttingDown' = shuttingDown
  PROVE  /\ currentPool' \in Pools
         /\ miner' \in [pool : Pools, alive : BOOLEAN] \cup {None}
         /\ running' \in [Pools -> Nat]
         /\ dying' \in Nat
         /\ OneMinerOnCurrentPool' /\ MinerIsCurrent'
<1>1. running' = [p \in Pools |-> IF p = pool THEN 1 ELSE 0]
  <2>1. RunningLess = [p \in Pools |-> 0]
    BY KillLeavesNone
  <2>2. running' = [RunningLess EXCEPT ![pool] = @ + 1]
    BY DEF StartXMRig
  <2> QED BY <2>1, <2>2
<1>2. miner' = Spawned(pool) /\ dying' \in Nat
  BY KillLeavesNone DEF StartXMRig
<1>3. miner' \in [pool : Pools, alive : BOOLEAN] /\ miner' # None
  BY <1>2, SpawnedIsMiner
<1>4. miner'.alive /\ miner'.pool = pool
  BY <1>2 DEF Spawned
<1>5. MinerAlive'
  BY <1>3, <1>4 DEF MinerAlive
<1> QED BY <1>1, <1>2, <1>3, <1>4, <1>5 DEF OneMinerOnCurrentPool, MinerIsCurrent

\* No miner runs when a step leaves xmrigProc dead or the process exits.
LEMMA NoneMatches ==
  ASSUME running' = [p \in Pools |-> 0], ~MinerAlive' \/ shuttingDown'
  PROVE  OneMinerOnCurrentPool'
  BY DEF OneMinerOnCurrentPool

\* What the wrapper does to the monitor keeps the monitor's invariant.
LEMMA MonitorKept ==
  ASSUME IInv,
         \/ Start \/ Stop \/ TimerPoll \/ Answer \/ Second \/ UNCHANGED vars
         \/ evacuation' = None
            /\ UNCHANGED <<pollTimer, polls, graceLeft, sinceEvac, fallbacks, rest>>
  PROVE  IInv'
<1>1. CASE \/ Start \/ Stop \/ TimerPoll \/ Answer \/ Second \/ UNCHANGED vars
  BY <1>1, NextKeeps DEF Next
<1>2. CASE evacuation' = None
           /\ UNCHANGED <<pollTimer, polls, graceLeft, sinceEvac, fallbacks, rest>>
  BY <1>2, NumbersAssumption
  DEF fallbacks, rest, IInv, TypeOK, GraceIsJustified, Countdown, LongAgo
<1> QED BY <1>1, <1>2

\* The poll timer is disarmed only by stop() and by an evacuation.
LEMMA TimerStaysOrEvacuates ==
  ASSUME IInv, TimerPoll \/ Answer \/ Second, evacuation = None
  PROVE  pollTimer' = pollTimer \/ evacuation' # None
<1>1. ASSUME NEW reason \in {"fork", "threshold"}, StartEvacuate(reason)
      PROVE  evacuation' # None
  BY <1>1, EvacuateKeeps, NoneAssumption
<1>2. ASSUME NEW level \in Levels, NEW forkDetected \in BOOLEAN,
             HealthAnswers(level, forkDetected)
      PROVE  pollTimer' = pollTimer \/ evacuation' # None
  BY <1>1, <1>2 DEF HealthAnswers
<1>3. CASE Second
  BY <1>1, <1>3 DEF Second
<1>4. CASE TimerPoll
  BY <1>4 DEF TimerPoll
<1>5. CASE Answer
  BY <1>2, <1>5
  DEF Answer, Succeeds, NetworkFails, NetworkAnswers, StatsFails, HealthFails, TryNext,
      LocalAnswers, StatsAnswers
<1> QED BY <1>3, <1>4, <1>5

-----------------------------------------------------------------------------

LEMMA GuardInitKeeps == GuardInit => GuardInv
<1> SUFFICES ASSUME GuardInit PROVE GuardInv
  OBVIOUS
<1> USE NumbersAssumption
<1>1. IInv
  <2>1. polls \in [Stages -> Nat]
    BY DEF GuardInit
  <2>2. sinceEvac \in 0 .. LongAgo /\ fallbackIdx = 0 /\ numFallbacks \in 0 .. MaxFallbacks
    BY DEF GuardInit, LongAgo
  <2>3. GraceIsJustified /\ Countdown
    BY DEF GuardInit, GraceIsJustified, Countdown
  <2>4. lastError \in BOOLEAN /\ pollTimer \in BOOLEAN
    BY DEF GuardInit
  <2> QED BY <2>1, <2>2, <2>3, <2>4 DEF GuardInit, IInv, TypeOK
<1>2. 0 \in Pools /\ currentPool = 0
  BY DEF Pools, GuardInit
<1>3. running = [p \in Pools |-> IF p = 0 THEN 1 ELSE 0]
  BY DEF GuardInit
<1>4. miner = Spawned(0)
  BY DEF GuardInit
<1>5. miner \in [pool : Pools, alive : BOOLEAN] /\ miner # None
  BY <1>2, <1>4, SpawnedIsMiner
<1>6. MinerAlive /\ miner.pool = 0
  BY <1>4, <1>5 DEF MinerAlive, Spawned
<1>7. running \in [Pools -> Nat]
  BY <1>3
<1>8. shuttingDown = FALSE /\ pollTimer = TRUE /\ evacuation = None
  BY DEF GuardInit
<1>9. dying \in Nat /\ restartTimers \in Nat /\ backoffTimers \in Nat
  BY DEF GuardInit
<1>10. OneMinerOnCurrentPool /\ MinerIsCurrent
  BY <1>2, <1>3, <1>6, <1>8 DEF OneMinerOnCurrentPool, MinerIsCurrent
<1> QED BY <1>1, <1>2, <1>5, <1>7, <1>8, <1>9, <1>10
    DEF GuardInv, GuardTypeOK, NeverUnwatched, QuietAtTheEnd, IInv

LEMMA GuardNextKeeps == GuardInv /\ [GuardNext]_allVars => GuardInv'
<1> SUFFICES ASSUME GuardInv, [GuardNext]_allVars PROVE GuardInv'
  OBVIOUS
<1>0. /\ IInv /\ GuardTypeOK /\ OneMinerOnCurrentPool /\ MinerIsCurrent
      /\ NeverUnwatched /\ QuietAtTheEnd
  BY DEF GuardInv
<1>u. ASSUME UNCHANGED guardVars
      PROVE  /\ currentPool' \in Pools
             /\ miner' \in [pool : Pools, alive : BOOLEAN] \cup {None}
             /\ running' \in [Pools -> Nat]
             /\ dying' \in Nat /\ restartTimers' \in Nat /\ backoffTimers' \in Nat
             /\ shuttingDown' \in BOOLEAN
             /\ OneMinerOnCurrentPool' /\ MinerIsCurrent'
  BY <1>0, <1>u DEF guardVars, processes, timers, GuardTypeOK, OneMinerOnCurrentPool,
                    MinerIsCurrent, MinerAlive
<1>1. CASE MonitorStep
  <2>1. IInv'
    BY <1>0, <1>1, MonitorKept DEF MonitorStep
  <2>2. NeverUnwatched' /\ QuietAtTheEnd'
    BY <1>0, <1>1, TimerStaysOrEvacuates
    DEF MonitorStep, Turn, NeverUnwatched, QuietAtTheEnd, guardVars, timers
  <2>3. UNCHANGED guardVars
    BY <1>1 DEF MonitorStep
  <2> QED BY <1>u, <2>1, <2>2, <2>3 DEF GuardInv, GuardTypeOK, IInv
<1>2. CASE MoveToFallback
  <2>1. evacuation.fallback \in Pools
    BY <1>0, <1>2, NumbersAssumption DEF MoveToFallback, GuardTypeOK, TypeOK, Fallbacks, Pools
  <2>2. ~shuttingDown
    BY <1>0, <1>2 DEF MoveToFallback, QuietAtTheEnd
  <2>3. /\ StartXMRig(evacuation.fallback) /\ currentPool' = evacuation.fallback
        /\ shuttingDown' = shuttingDown /\ UNCHANGED <<restartTimers, backoffTimers>>
    BY <1>2 DEF MoveToFallback, timers
  <2>4. /\ currentPool' \in Pools
        /\ miner' \in [pool : Pools, alive : BOOLEAN] \cup {None}
        /\ running' \in [Pools -> Nat]
        /\ dying' \in Nat
        /\ OneMinerOnCurrentPool' /\ MinerIsCurrent'
    BY <2>1, <2>2, <2>3, StartMatches
  <2>5. Start
    BY <1>2 DEF MoveToFallback
  <2>6. IInv' /\ pollTimer' = TRUE
    BY <1>0, <2>5, MonitorKept DEF Start
  <2> QED BY <1>0, <2>2, <2>3, <2>4, <2>6
      DEF GuardInv, GuardTypeOK, NeverUnwatched, QuietAtTheEnd, IInv
<1>3. CASE StopForBackoff
  <2>1. ~shuttingDown
    BY <1>0, <1>3 DEF StopForBackoff, QuietAtTheEnd
  <2>2. running' = [p \in Pools |-> 0] /\ dying' \in Nat /\ miner' = None
    BY <1>3, <2>1, KillLeavesNone DEF StopForBackoff, KillMiner
  <2>3. ~MinerAlive'
    BY <2>2 DEF MinerAlive
  <2>4. OneMinerOnCurrentPool' /\ MinerIsCurrent'
    BY <2>2, <2>3, NoneMatches DEF MinerIsCurrent
  <2>5. IInv'
    BY <1>0, <1>3, MonitorKept DEF StopForBackoff
  <2>6. /\ backoffTimers' = backoffTimers + 1 /\ evacuation' = None
        /\ UNCHANGED <<currentPool, restartTimers, shuttingDown>>
    BY <1>3 DEF StopForBackoff
  <2>7. running' \in [Pools -> Nat]
    BY <2>2
  <2> QED BY <1>0, <2>1, <2>2, <2>4, <2>5, <2>6, <2>7
      DEF GuardInv, GuardTypeOK, NeverUnwatched, QuietAtTheEnd, IInv
<1>4. CASE BackoffFires
  <2>1. ~shuttingDown /\ 0 \in Pools
    BY <1>4, NumbersAssumption DEF BackoffFires, Turn, Pools
  <2>2. /\ StartXMRig(0) /\ currentPool' = 0 /\ shuttingDown' = shuttingDown
        /\ backoffTimers' \in Nat /\ restartTimers' = restartTimers
    BY <1>0, <1>4 DEF BackoffFires, GuardTypeOK
  <2>3. /\ currentPool' \in Pools
        /\ miner' \in [pool : Pools, alive : BOOLEAN] \cup {None}
        /\ running' \in [Pools -> Nat]
        /\ dying' \in Nat
        /\ OneMinerOnCurrentPool' /\ MinerIsCurrent'
    BY <2>1, <2>2, StartMatches
  <2>4. Start
    BY <1>4 DEF BackoffFires
  <2>5. IInv' /\ pollTimer' = TRUE
    BY <1>0, <2>4, MonitorKept DEF Start
  <2> QED BY <1>0, <2>1, <2>2, <2>3, <2>5
      DEF GuardInv, GuardTypeOK, NeverUnwatched, QuietAtTheEnd, IInv
<1>5. CASE DyingExits
  <2>1. IInv'
    BY <1>0, <1>5, MonitorKept DEF DyingExits
  <2> QED BY <1>0, <1>5, <2>1
      DEF DyingExits, GuardInv, GuardTypeOK, OneMinerOnCurrentPool, MinerIsCurrent,
          MinerAlive, NeverUnwatched, QuietAtTheEnd, IInv, vars
<1>6. CASE MinerCrashes
  <2>1. IInv'
    BY <1>0, <1>6, MonitorKept DEF MinerCrashes
  <2>2. ~shuttingDown /\ MinerAlive
    BY <1>6 DEF MinerCrashes, Turn
  <2>3. running' = [p \in Pools |-> 0]
    BY <1>6, <2>2, KillLeavesNone DEF MinerCrashes
  <2>4. miner \in [pool : Pools, alive : BOOLEAN]
    BY <1>0, <2>2 DEF GuardTypeOK, MinerAlive
  <2>5. miner' = [miner EXCEPT !.alive = FALSE]
    BY <1>6 DEF MinerCrashes
  <2>6. miner' \in [pool : Pools, alive : BOOLEAN] /\ ~miner'.alive
    BY <2>4, <2>5
  <2>7. ~MinerAlive'
    BY <2>6 DEF MinerAlive
  <2>8. OneMinerOnCurrentPool' /\ MinerIsCurrent'
    BY <2>3, <2>7, NoneMatches DEF MinerIsCurrent
  <2>9. /\ restartTimers' = restartTimers + 1
        /\ UNCHANGED <<vars, currentPool, dying, backoffTimers, shuttingDown>>
    BY <1>6 DEF MinerCrashes
  <2>10. running' \in [Pools -> Nat]
    BY <2>3
  <2>11. NeverUnwatched' /\ QuietAtTheEnd'
    BY <1>0, <2>9 DEF vars, NeverUnwatched, QuietAtTheEnd
  <2> QED BY <1>0, <2>1, <2>6, <2>8, <2>9, <2>10, <2>11
      DEF GuardInv, GuardTypeOK, IInv
<1>7. CASE RestartFires
  <2>1. ~shuttingDown /\ currentPool \in Pools
    BY <1>0, <1>7 DEF RestartFires, Turn, GuardTypeOK
  <2>2. /\ StartXMRig(currentPool) /\ currentPool' = currentPool
        /\ shuttingDown' = shuttingDown
        /\ restartTimers' \in Nat /\ backoffTimers' = backoffTimers
    BY <1>0, <1>7 DEF RestartFires, GuardTypeOK
  <2>3. /\ currentPool' \in Pools
        /\ miner' \in [pool : Pools, alive : BOOLEAN] \cup {None}
        /\ running' \in [Pools -> Nat]
        /\ dying' \in Nat
        /\ OneMinerOnCurrentPool' /\ MinerIsCurrent'
    BY <2>1, <2>2, StartMatches
  <2>4. UNCHANGED vars
    BY <1>7 DEF RestartFires
  <2>5. IInv'
    BY <1>0, <2>4, MonitorKept
  <2>6. NeverUnwatched' /\ QuietAtTheEnd'
    BY <1>0, <2>2, <2>4 DEF vars, NeverUnwatched, QuietAtTheEnd
  <2> QED BY <1>0, <2>1, <2>2, <2>3, <2>5, <2>6
      DEF GuardInv, GuardTypeOK, IInv
<1>8. CASE Shutdown
  <2>1. ~shuttingDown
    BY <1>8 DEF Shutdown, Turn
  <2>2. running' = [p \in Pools |-> 0] /\ dying' \in Nat
    BY <1>8, <2>1, KillLeavesNone DEF Shutdown
  <2>3. shuttingDown' = TRUE /\ UNCHANGED <<currentPool, miner, restartTimers, backoffTimers>>
    BY <1>8 DEF Shutdown, timers
  <2>4. OneMinerOnCurrentPool'
    BY <2>2, <2>3, NoneMatches
  <2>5. MinerIsCurrent'
    BY <1>0, <2>3 DEF MinerIsCurrent, MinerAlive
  <2>6. Stop
    BY <1>8 DEF Shutdown
  <2>7. IInv' /\ evacuation' = None
    BY <1>0, <2>6, MonitorKept DEF Stop
  <2>8. running' \in [Pools -> Nat]
    BY <2>2
  <2> QED BY <1>0, <2>2, <2>3, <2>4, <2>5, <2>7, <2>8
      DEF GuardInv, GuardTypeOK, NeverUnwatched, QuietAtTheEnd, IInv
<1>9. CASE UNCHANGED allVars
  <2>1. IInv'
    BY <1>0, <1>9, MonitorKept DEF allVars
  <2>2. NeverUnwatched' /\ QuietAtTheEnd'
    BY <1>0, <1>9 DEF allVars, vars, guardVars, timers, NeverUnwatched, QuietAtTheEnd
  <2>3. UNCHANGED guardVars
    BY <1>9 DEF allVars
  <2> QED BY <1>u, <2>1, <2>2, <2>3 DEF GuardInv, GuardTypeOK, IInv
<1> QED BY <1>1, <1>2, <1>3, <1>4, <1>5, <1>6, <1>7, <1>8, <1>9 DEF GuardNext

THEOREM GuardInvariant == GuardSpec => []GuardInv
  BY GuardInitKeeps, GuardNextKeeps, PTL DEF GuardSpec

\* The state of the wrapper is well-typed.
THEOREM GuardTypeCorrect == GuardSpec => []GuardTypeOK
  BY GuardInvariant, PTL DEF GuardInv

\* There is never a second miner, nor one on a pool the guard has left.
THEOREM OneMiner == GuardSpec => []OneMinerOnCurrentPool
  BY GuardInvariant, PTL DEF GuardInv

\* No sequence of evacuations, crashes and timers leaves the guard blind.
THEOREM StaysWatched == GuardSpec => []NeverUnwatched
  BY GuardInvariant, PTL DEF GuardInv


-----------------------------------------------------------------------------
(* An evacuation leaves the pool. *)

\* The fallback that was taken last; 0 without any.
LastFallback ==
  IF numFallbacks = 0 THEN 0 ELSE IF fallbackIdx = 0 THEN numFallbacks ELSE fallbackIdx

\* The miner's pool is the primary one or the fallback that was taken last; while an
\* evacuation is being handled that one is on its way, and is not the miner's yet.
PoolsInTurn ==
  \/ evacuation = None /\ currentPool \in {0, LastFallback}
  \/ evacuation # None /\ numFallbacks = 0 /\ evacuation.fallback = None /\ currentPool = 0
  \/ /\ evacuation # None /\ numFallbacks > 0 /\ evacuation.fallback = LastFallback
     /\ numFallbacks >= 2 => currentPool # LastFallback

\* A step of the monitor takes no fallback, or evacuates.
LEMMA TakesNoneOrEvacuates ==
  ASSUME TimerPoll \/ Answer \/ Second
  PROVE  \/ evacuation' = None /\ UNCHANGED fallbacks
         \/ StartEvacuate("fork") \/ StartEvacuate("threshold")
<1>1. ASSUME NEW s, NEW later, TryNext(s, later)
      PROVE  evacuation' = None /\ UNCHANGED fallbacks
  BY <1>1 DEF TryNext
<1>2. CASE TimerPoll \/ Second
  BY <1>2 DEF TimerPoll, Second
<1>3. CASE Answer
  BY <1>1, <1>3 DEF Answer, Succeeds, NetworkFails, NetworkAnswers, StatsFails, HealthFails,
                    LocalAnswers, StatsAnswers, HealthAnswers
<1> QED BY <1>2, <1>3

\* _startEvacuate takes the pool after the one that was taken last.
LEMMA EvacuationTakesNext ==
  ASSUME IInv, NEW reason \in {"fork", "threshold"}, StartEvacuate(reason),
         currentPool \in {0, LastFallback}, UNCHANGED currentPool
  PROVE  PoolsInTurn'
<1>1. /\ numFallbacks \in Nat /\ fallbackIdx \in Nat /\ numFallbacks' = numFallbacks
      /\ numFallbacks > 0 => fallbackIdx < numFallbacks
  BY NumbersAssumption DEF IInv, TypeOK, StartEvacuate
<1>2. evacuation' # None /\ evacuation'.fallback = NextFallback
  BY EvacuateKeeps, NoneAssumption DEF StartEvacuate
<1>3. CASE numFallbacks = 0
  BY <1>1, <1>2, <1>3 DEF PoolsInTurn, LastFallback, NextFallback
<1>4. CASE numFallbacks > 0
  <2>1. fallbackIdx' = IF fallbackIdx + 1 = numFallbacks THEN 0 ELSE fallbackIdx + 1
    <3>1. fallbackIdx' = (fallbackIdx + 1) % numFallbacks
      BY <1>4 DEF StartEvacuate
    <3>2. CASE fallbackIdx + 1 = numFallbacks
      <4>1. numFallbacks % numFallbacks = 0
        BY <1>1, <1>4
      <4> QED BY <3>1, <3>2, <4>1
    <3>3. CASE fallbackIdx + 1 # numFallbacks
      <4>1. fallbackIdx + 1 \in 0 .. numFallbacks - 1
        BY <1>1, <1>4, <3>3
      <4>2. (fallbackIdx + 1) % numFallbacks = fallbackIdx + 1
        BY <1>1, <1>4, <4>1
      <4> QED BY <3>1, <3>3, <4>2
    <3> QED BY <3>2, <3>3
  <2>2. LastFallback' = fallbackIdx + 1 /\ NextFallback = fallbackIdx + 1
    BY <1>1, <1>4, <2>1 DEF LastFallback, NextFallback
  <2>3. numFallbacks >= 2 => LastFallback # fallbackIdx + 1
    BY <1>1, <1>4 DEF LastFallback
  <2>4. 0 # fallbackIdx + 1
    BY <1>1
  <2> QED BY <1>1, <1>2, <1>4, <2>2, <2>3, <2>4 DEF PoolsInTurn
<1> QED BY <1>1, <1>3, <1>4

LEMMA InitInTurn == GuardInit => PoolsInTurn
  BY DEF GuardInit, PoolsInTurn

LEMMA NextInTurn == GuardInv /\ PoolsInTurn /\ [GuardNext]_allVars => PoolsInTurn'
<1> SUFFICES ASSUME GuardInv, PoolsInTurn, [GuardNext]_allVars PROVE PoolsInTurn'
  OBVIOUS
<1>1. IInv
  BY DEF GuardInv
<1>2. ASSUME evacuation = None, evacuation' = None, UNCHANGED fallbacks, currentPool' \in {0, currentPool}
      PROVE  PoolsInTurn'
  BY <1>2 DEF PoolsInTurn, LastFallback, fallbacks
<1>3. CASE MonitorStep
  <2>1. evacuation = None /\ UNCHANGED currentPool /\ (TimerPoll \/ Answer \/ Second)
    BY <1>3 DEF MonitorStep, Turn, guardVars
  <2>2. currentPool \in {0, LastFallback}
    BY <2>1 DEF PoolsInTurn
  <2> QED BY <1>1, <1>2, <2>1, <2>2, TakesNoneOrEvacuates, EvacuationTakesNext
<1>4. CASE MoveToFallback
  <2>1. /\ evacuation # None /\ evacuation.fallback # None /\ evacuation' = None
        /\ currentPool' = evacuation.fallback /\ UNCHANGED fallbacks
    BY <1>4 DEF MoveToFallback, Start
  <2>2. currentPool' = LastFallback /\ LastFallback' = LastFallback
    BY <2>1 DEF PoolsInTurn, LastFallback, fallbacks
  <2> QED BY <2>1, <2>2 DEF PoolsInTurn
<1>5. CASE StopForBackoff
  <2>1. /\ evacuation # None /\ evacuation.fallback = None /\ evacuation' = None
        /\ UNCHANGED <<currentPool, fallbacks>>
    BY <1>5 DEF StopForBackoff
  <2>2. numFallbacks > 0 => LastFallback \in 1 .. MaxFallbacks
    BY <1>1, NumbersAssumption DEF LastFallback, IInv, TypeOK
  <2>3. numFallbacks = 0 /\ currentPool = 0
    BY <1>1, <2>1, <2>2, NumbersAssumption, NoneAssumption DEF PoolsInTurn, IInv, TypeOK
  <2> QED BY <2>1, <2>3 DEF PoolsInTurn
<1>6. CASE BackoffFires \/ Shutdown
  BY <1>2, <1>6 DEF BackoffFires, Shutdown, Start, Stop, Turn
<1>7. CASE DyingExits \/ MinerCrashes \/ RestartFires
  BY <1>2, <1>7 DEF DyingExits, MinerCrashes, RestartFires, Turn, vars
<1>8. CASE UNCHANGED allVars
  BY <1>8 DEF PoolsInTurn, LastFallback, allVars, vars, guardVars, fallbacks
<1> QED BY <1>3, <1>4, <1>5, <1>6, <1>7, <1>8 DEF GuardNext

\* With two fallbacks or more an evacuation never moves to the pool it leaves, whatever
\* evacuations, backoffs and restarts came before.
THEOREM EvacuationsLeave == GuardSpec => EvacuationLeavesPool
<1>1. PoolsInTurn /\ [GuardNext]_allVars
        => [MoveToFallback /\ numFallbacks >= 2 => currentPool' # currentPool]_allVars
  BY DEF MoveToFallback, PoolsInTurn
<1> QED BY <1>1, InitInTurn, NextInTurn, GuardInvariant, PTL DEF GuardSpec, EvacuationLeavesPool
=============================================================================
