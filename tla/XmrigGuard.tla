------------------------------- MODULE XmrigGuard -------------------------------
(***************************************************************************)
(* The XMRig wrapper, src/bin/xmrig-guard.js, with the hashrate monitor it *)
(* drives and the miner processes it spawns.                               *)
(*                                                                         *)
(* A miner process is running, then killed and dying, then gone; the       *)
(* operating system says when a dying process is gone.  The handler of     *)
(* 'evacuate' runs inside the monitor's callback: nothing else moves while *)
(* an evacuation is being handled.  The 5 s restarts and the 5 min backoff *)
(* fire in any order.                                                      *)
(***************************************************************************)
EXTENDS HashrateMonitor

CONSTANT MaxPending  \* bound of the model: exits, restarts and backoffs to come

\* The wrapper passes no localHashrate.
ASSUME GuardSources == "local" \notin Sources
ASSUME MinerAssumption == None \notin [pool : 0 .. MaxFallbacks, alive : BOOLEAN]

VARIABLES
  currentPool,    \* 0 is the primary pool, n > 0 the n-th fallback
  miner,          \* xmrigProc: its pool and whether the process is alive, or None
  running,        \* how many processes that nobody killed mine on each pool
  dying,          \* how many killed processes are not gone yet
  restartTimers,  \* pending setTimeouts of the exit handler
  backoffTimers,  \* pending setTimeouts of the evacuation without fallback
  shuttingDown

timers == <<restartTimers, backoffTimers>>
processes == <<miner, running, dying>>
guardVars == <<currentPool, processes, timers, shuttingDown>>
allVars == <<vars, guardVars>>

Pools == 0 .. MaxFallbacks
Pending == dying + restartTimers + backoffTimers
MinerAlive == miner # None /\ miner.alive
Spawned(pool) == [pool |-> pool, alive |-> TRUE]

\* Mutation of RunningLess: a miner that has crashed is killed once more.
RunningLessTwice == IF miner # None THEN [running EXCEPT ![miner.pool] = @ - 1] ELSE running

\* The running processes once the current miner, if it is alive, is killed.
RunningLess == IF MinerAlive THEN [running EXCEPT ![miner.pool] = @ - 1] ELSE running
DyingMore == IF MinerAlive THEN dying + 1 ELSE dying

\* kill() and forget.
KillMiner ==
  /\ running' = RunningLess
  /\ dying' = DyingMore
  /\ miner' = None

\* Mutation of StartXMRig: the old miner is not killed.
StartAnother(pool) ==
  /\ running' = [running EXCEPT ![pool] = @ + 1]
  /\ miner' = Spawned(pool)
  /\ UNCHANGED dying

\* startXMRig(pool)
StartXMRig(pool) ==
  /\ running' = [RunningLess EXCEPT ![pool] = @ + 1]
  /\ dying' = DyingMore
  /\ miner' = Spawned(pool)

\* The main program: startXMRig(currentPool) and monitor.start(), which polls.
GuardInit ==
  /\ pollTimer = TRUE
  /\ polls = [s \in Stages |-> IF s = "network" THEN 1 ELSE 0]
  /\ graceLeft = NoGrace /\ sinceEvac = LongAgo
  /\ numFallbacks \in 0 .. MaxFallbacks /\ fallbackIdx = 0
  /\ lastLevel = None /\ lastError = FALSE /\ shown = None
  /\ evacuation = None
  /\ currentPool = 0
  /\ miner = Spawned(0)
  /\ running = [p \in Pools |-> IF p = 0 THEN 1 ELSE 0]
  /\ dying = 0 /\ restartTimers = 0 /\ backoffTimers = 0
  /\ shuttingDown = FALSE

\* A turn of the event loop: no callback is running and the process lives.
Turn == evacuation = None /\ ~shuttingDown

\* The monitor polls, hears an answer or counts a second.
MonitorStep ==
  /\ Turn
  /\ TimerPoll \/ Answer \/ Second
  /\ evacuation' # None => Pending < MaxPending
  /\ UNCHANGED guardVars

\* Mutation of MoveToFallback: monitor.start() is forgotten.
MoveUnwatched ==
  /\ evacuation # None /\ evacuation.fallback # None
  /\ currentPool' = evacuation.fallback
  /\ StartXMRig(evacuation.fallback)
  /\ evacuation' = None
  /\ UNCHANGED <<pollTimer, polls, graceLeft, sinceEvac, fallbacks, rest>>
  /\ UNCHANGED <<timers, shuttingDown>>

\* The handler of 'evacuate' with a fallback: it becomes the current pool, the
\* miner is restarted on it and the monitor resumes.
MoveToFallback ==
  /\ evacuation # None /\ evacuation.fallback # None
  /\ currentPool' = evacuation.fallback
  /\ StartXMRig(evacuation.fallback)
  /\ Start
  /\ UNCHANGED <<timers, shuttingDown>>

\* The handler of 'evacuate' without a fallback: the miner is killed and a
\* timer is left behind; the monitor stays stopped.
StopForBackoff ==
  /\ evacuation # None /\ evacuation.fallback = None
  /\ KillMiner
  /\ backoffTimers' = backoffTimers + 1
  /\ evacuation' = None
  /\ UNCHANGED <<pollTimer, polls, graceLeft, sinceEvac, fallbacks, rest>>
  /\ UNCHANGED <<currentPool, restartTimers, shuttingDown>>

\* Mutation of BackoffFires: monitor.start() is forgotten.
BackoffFiresUnwatched ==
  /\ Turn /\ backoffTimers > 0
  /\ backoffTimers' = backoffTimers - 1
  /\ currentPool' = 0
  /\ StartXMRig(0)
  /\ UNCHANGED <<vars, restartTimers, shuttingDown>>

\* The backoff is over.
BackoffFires ==
  /\ Turn /\ backoffTimers > 0
  /\ backoffTimers' = backoffTimers - 1
  /\ currentPool' = 0
  /\ Start
  /\ StartXMRig(0)
  /\ UNCHANGED <<restartTimers, shuttingDown>>

\* A killed process is gone: its exit handler schedules a restart.
DyingExits ==
  /\ Turn /\ dying > 0
  /\ dying' = dying - 1
  /\ restartTimers' = restartTimers + 1
  /\ UNCHANGED <<vars, currentPool, miner, running, backoffTimers, shuttingDown>>

\* Mutation of MinerCrashes: nothing is scheduled.
MinerCrashesUnnoticed ==
  /\ Turn /\ MinerAlive
  /\ miner' = [miner EXCEPT !.alive = FALSE]
  /\ running' = RunningLess
  /\ UNCHANGED <<vars, currentPool, dying, timers, shuttingDown>>

\* The current miner exits by itself: xmrigProc still names it.
MinerCrashes ==
  /\ Turn /\ MinerAlive /\ Pending < MaxPending
  /\ miner' = [miner EXCEPT !.alive = FALSE]
  /\ running' = RunningLess
  /\ restartTimers' = restartTimers + 1
  /\ UNCHANGED <<vars, currentPool, dying, backoffTimers, shuttingDown>>

\* Mutation of RestartFires: the restart goes to the primary pool.
RestartOnPrimary ==
  /\ Turn /\ restartTimers > 0
  /\ restartTimers' = restartTimers - 1
  /\ StartXMRig(0)
  /\ UNCHANGED <<vars, currentPool, backoffTimers, shuttingDown>>

\* startXMRig(currentPool), 5 s after an exit.
RestartFires ==
  /\ Turn /\ restartTimers > 0
  /\ restartTimers' = restartTimers - 1
  /\ StartXMRig(currentPool)
  /\ UNCHANGED <<vars, currentPool, backoffTimers, shuttingDown>>

\* SIGINT or SIGTERM: the miner is killed and the process exits.
Shutdown ==
  /\ Turn
  /\ shuttingDown' = TRUE
  /\ Stop
  /\ running' = RunningLess
  /\ dying' = DyingMore
  /\ UNCHANGED <<currentPool, miner, timers>>

GuardNext ==
  \/ MonitorStep \/ MoveToFallback \/ StopForBackoff \/ BackoffFires
  \/ DyingExits \/ MinerCrashes \/ RestartFires \/ Shutdown

GuardSpec == GuardInit /\ [][GuardNext]_allVars

\* Timers fire and killed processes go away.  A timer that is due waits only
\* for the callback that runs, hence the strong fairness of the two timers.
GuardFairness ==
  /\ WF_allVars(MoveToFallback \/ StopForBackoff)
  /\ WF_allVars(DyingExits)
  /\ WF_allVars(MonitorStep /\ Answer)
  /\ SF_allVars(RestartFires)
  /\ SF_allVars(BackoffFires)

GuardFairSpec == GuardSpec /\ GuardFairness

-----------------------------------------------------------------------------
(* Every variable has the type its comment gives. *)
GuardTypeOK ==
  /\ TypeOK
  /\ currentPool \in Pools
  /\ miner \in [pool : Pools, alive : BOOLEAN] \cup {None}
  /\ running \in [Pools -> Nat]
  /\ dying \in Nat /\ restartTimers \in Nat /\ backoffTimers \in Nat
  /\ shuttingDown \in BOOLEAN

\* At most one miner runs that nobody has killed, it runs on the current pool,
\* and xmrigProc names it, whatever restarts, backoffs and evacuations overlap.
\* After a signal none runs.
OneMinerOnCurrentPool ==
  \A p \in Pools :
    running[p] = IF MinerAlive /\ ~shuttingDown /\ p = currentPool THEN 1 ELSE 0

\* The guard never stops watching for good: the poll timer is armed unless a
\* backoff that arms it again is pending or the process is on its way out.
NeverUnwatched == pollTimer \/ evacuation # None \/ backoffTimers > 0 \/ shuttingDown

\* With two fallbacks or more an evacuation changes the pool.
EvacuationLeavesPool ==
  [][MoveToFallback /\ numFallbacks >= 2 => currentPool' # currentPool]_allVars

\* No crash, evacuation or backoff stops mining for good.
MinerComesBack == ~MinerAlive ~> MinerAlive \/ shuttingDown

-----------------------------------------------------------------------------
(* What the documents say and the code does not do. *)

\* SPEC.md, Evacuation: without a fallback mining stops until the backoff ends.
BackoffIsKept == backoffTimers > 0 => ~MinerAlive

\* The exit handler restarts a miner that has exited, it does not replace one
\* that runs.
RestartFollowsExit == [][RestartFires => ~MinerAlive]_allVars

=============================================================================
