---------------------------- MODULE HashrateMonitor ----------------------------
(***************************************************************************)
(* The hashrate concentration guard, src/hashrate-monitor.js.              *)
(*                                                                         *)
(* A poll is an async function that awaits one to three fetches.  The poll *)
(* timer and pollNow() start polls without waiting for earlier ones, so    *)
(* several may be in flight, and their results are applied in any order,   *)
(* before or after an evacuation, a stop or a restart.  Between two awaits *)
(* the code runs alone, so each action is one such stretch.                *)
(*                                                                         *)
(* A hashrate share is abstracted to its side of the two limits: "low" is  *)
(* below the warn level, "mid" below the threshold, "high" at or above it. *)
(* One unit of time is one second, the period of the grace countdown.      *)
(* lastEvacuatedAt is kept as its age, up to an age that no comparison and *)
(* no property tells from a larger one.                                    *)
(***************************************************************************)
EXTENDS Integers

CONSTANTS
  None,          \* null
  Sources,       \* which of localHashrate, poolStatsUrl, poolHealthUrl are configured
  GracePeriod,   \* gracePeriodMs, in seconds
  MaxFallbacks,  \* bound of fallbackPools.length
  MaxPolls       \* bound of the model: polls in flight at once

Levels == {"low", "mid", "high"}
Stages == {"network", "stats", "health"}  \* the fetch a poll awaits
Fallbacks == (1 .. MaxFallbacks) \cup {None}

ASSUME SourcesAssumption == Sources \subseteq {"local", "stats", "health"} /\ Sources # {}
ASSUME NumbersAssumption ==
  GracePeriod \in Nat /\ MaxFallbacks \in Nat /\ MaxPolls \in Nat
ASSUME NoneAssumption ==
  /\ \A n \in 1 .. MaxFallbacks : None # n
  /\ None \notin [reason : {"fork", "threshold"}, fallback : Fallbacks]

VARIABLES
  pollTimer,    \* TRUE iff the poll interval is armed
  polls,        \* how many polls in flight await each fetch
  graceLeft,    \* secsLeft of the running countdown, or NoGrace
  sinceEvac,    \* seconds since the last evacuation, up to LongAgo
  numFallbacks, \* fallbackPools.length, chosen at the start; the pools are 1 .. numFallbacks
  fallbackIdx,  \* fallbackIdx % fallbackPools.length
  lastLevel,    \* lastPct
  lastError,    \* TRUE iff lastError is set
  shown,        \* the last of 'safe', 'warn', 'crit' that was emitted
  evacuation    \* the 'evacuate' event of the last step, or None

fallbacks == <<numFallbacks, fallbackIdx>>
rest == <<lastLevel, lastError, shown>>
vars == <<pollTimer, polls, graceLeft, sinceEvac, fallbacks, rest, evacuation>>

NoGrace == -1
LongAgo == 2 * GracePeriod + 2
Smaller(a, b) == IF a < b THEN a ELSE b
CoolingDown == sinceEvac < GracePeriod
InFlight == polls["network"] + polls["stats"] + polls["health"]

Init ==
  /\ pollTimer = FALSE
  /\ polls = [s \in Stages |-> 0]
  /\ graceLeft = NoGrace
  /\ sinceEvac = LongAgo
  /\ numFallbacks \in 0 .. MaxFallbacks
  /\ fallbackIdx = 0
  /\ lastLevel = None
  /\ lastError = FALSE
  /\ shown = None
  /\ evacuation = None

-----------------------------------------------------------------------------
(* What the handlers are made of. *)

\* Mutation of NextFallback: always the first pool.
FirstFallback == IF numFallbacks = 0 THEN None ELSE 1

\* _nextFallback: the pools in turn, null when there is none.
NextFallback == IF numFallbacks = 0 THEN None ELSE fallbackIdx + 1

\* Mutation of StartEvacuate: the index wraps one pool too late.
EvacuateWrappingLate(reason) ==
  /\ graceLeft' = NoGrace
  /\ pollTimer' = FALSE
  /\ sinceEvac' = 0
  /\ fallbackIdx' = IF fallbackIdx < numFallbacks THEN fallbackIdx + 1 ELSE 0
  /\ evacuation' = [reason |-> reason, fallback |-> NextFallback]
  /\ UNCHANGED numFallbacks

\* _startEvacuate: countdown and poll timer stop, the next fallback is taken.
StartEvacuate(reason) ==
  /\ graceLeft' = NoGrace
  /\ pollTimer' = FALSE
  /\ sinceEvac' = 0
  /\ fallbackIdx' = IF numFallbacks = 0 THEN 0 ELSE (fallbackIdx + 1) % numFallbacks
  /\ evacuation' = [reason |-> reason, fallback |-> NextFallback]
  /\ UNCHANGED numFallbacks

\* Mutation of Evaluate: a warning leaves the countdown running.
EvaluateKeepingGrace(level) ==
  \/ /\ CoolingDown
     /\ UNCHANGED <<graceLeft, shown>>
  \/ /\ ~CoolingDown /\ level = "high"
     /\ shown' = "crit"
     /\ graceLeft' = IF graceLeft = NoGrace THEN GracePeriod ELSE graceLeft
  \/ /\ ~CoolingDown /\ level = "mid"
     /\ shown' = "warn"
     /\ UNCHANGED graceLeft
  \/ /\ ~CoolingDown /\ level = "low"
     /\ shown' = IF lastLevel \in {None, "mid", "high"} THEN "safe" ELSE shown
     /\ graceLeft' = NoGrace

\* Mutation of Evaluate: results are not dropped during the cooldown.
EvaluateAlways(level) ==
  \/ /\ level = "high"
     /\ shown' = "crit"
     /\ graceLeft' = IF graceLeft = NoGrace THEN GracePeriod ELSE graceLeft
  \/ /\ level = "mid"
     /\ shown' = "warn"
     /\ graceLeft' = NoGrace
  \/ /\ level = "low"
     /\ shown' = IF lastLevel \in {None, "mid", "high"} THEN "safe" ELSE shown
     /\ graceLeft' = NoGrace

\* _evaluate: a result that arrives during the cooldown is dropped, but
\* lastPct has been set by then.
Evaluate(level) ==
  \/ /\ CoolingDown
     /\ UNCHANGED <<graceLeft, shown>>
  \/ /\ ~CoolingDown /\ level = "high"
     /\ shown' = "crit"
     /\ graceLeft' = IF graceLeft = NoGrace THEN GracePeriod ELSE graceLeft
  \/ /\ ~CoolingDown /\ level = "mid"
     /\ shown' = "warn"
     /\ graceLeft' = NoGrace
  \/ /\ ~CoolingDown /\ level = "low"
     /\ shown' = IF lastLevel \in {None, "mid", "high"} THEN "safe" ELSE shown
     /\ graceLeft' = NoGrace

\* The poll that awaits the fetch s ends with a level.
Conclude(s, level) ==
  /\ polls[s] > 0
  /\ polls' = [polls EXCEPT ![s] = @ - 1]
  /\ lastLevel' = level
  /\ lastError' = FALSE

\* The poll that awaits s goes on to the next configured source, or gives up.
TryNext(s, later) ==
  /\ polls[s] > 0
  /\ IF later \cap Sources = {}
     THEN /\ polls' = [polls EXCEPT ![s] = @ - 1]
          /\ lastError' = TRUE
     ELSE LET t == IF "stats" \in later \cap Sources THEN "stats" ELSE "health"
          IN  /\ polls' = [polls EXCEPT ![s] = @ - 1, ![t] = @ + 1]
              /\ UNCHANGED lastError
  /\ evacuation' = None
  /\ UNCHANGED <<pollTimer, graceLeft, sinceEvac, fallbacks, lastLevel, shown>>

\* The first stretch of _poll, up to the first await.
BeginPoll ==
  IF CoolingDown
  THEN UNCHANGED polls
  ELSE InFlight < MaxPolls /\ polls' = [polls EXCEPT !["network"] = @ + 1]

-----------------------------------------------------------------------------
(* The operations. *)

\* start(): polls at once unless it follows an evacuation too closely.
Start ==
  /\ IF sinceEvac > GracePeriod THEN BeginPoll ELSE UNCHANGED polls
  /\ pollTimer' = TRUE
  /\ evacuation' = None
  /\ UNCHANGED <<graceLeft, sinceEvac, fallbacks, rest>>

\* stop(): the polls in flight are not cancelled.
Stop ==
  /\ pollTimer' = FALSE
  /\ graceLeft' = NoGrace
  /\ evacuation' = None
  /\ UNCHANGED <<polls, sinceEvac, fallbacks, rest>>

\* The poll timer fires.
TimerPoll ==
  /\ pollTimer
  /\ BeginPoll
  /\ evacuation' = None
  /\ UNCHANGED <<pollTimer, graceLeft, sinceEvac, fallbacks, rest>>

\* pollNow(), with or without a poll timer.
PollNow ==
  /\ BeginPoll
  /\ evacuation' = None
  /\ UNCHANGED <<pollTimer, graceLeft, sinceEvac, fallbacks, rest>>

\* No network hashrate: the poll ends.
NetworkFails == TryNext("network", {})

\* The network hashrate is there, but the local measurement has nothing.
NetworkAnswers == TryNext("network", {"stats", "health"})

StatsFails == TryNext("stats", {"health"})

HealthFails == TryNext("health", {})

\* The network hashrate is there, and so is a local measurement.
LocalAnswers(level) ==
  /\ "local" \in Sources
  /\ Conclude("network", level)
  /\ Evaluate(level)
  /\ evacuation' = None
  /\ UNCHANGED <<pollTimer, sinceEvac, fallbacks>>

StatsAnswers(level) ==
  /\ Conclude("stats", level)
  /\ Evaluate(level)
  /\ evacuation' = None
  /\ UNCHANGED <<pollTimer, sinceEvac, fallbacks>>

\* The pool reports on itself; a fork evacuates without looking at anything.
HealthAnswers(level, forkDetected) ==
  /\ Conclude("health", level)
  /\ IF forkDetected
     THEN StartEvacuate("fork") /\ UNCHANGED shown
     ELSE /\ Evaluate(level)
          /\ evacuation' = None
          /\ UNCHANGED <<pollTimer, sinceEvac, fallbacks>>

\* A second passes; a running countdown ticks and may expire.
Second ==
  /\ \/ /\ graceLeft = NoGrace \/ graceLeft > 1
        /\ graceLeft' = IF graceLeft = NoGrace THEN NoGrace ELSE graceLeft - 1
        /\ sinceEvac' = Smaller(sinceEvac + 1, LongAgo)
        /\ evacuation' = None
        /\ UNCHANGED <<pollTimer, fallbacks>>
     \/ /\ graceLeft \in {0, 1}
        /\ StartEvacuate("threshold")
  /\ UNCHANGED <<polls, rest>>

\* A fetch comes to an end with what is asked for, or without.
Succeeds ==
  \/ NetworkAnswers
  \/ \E level \in Levels : LocalAnswers(level) \/ StatsAnswers(level)
  \/ \E level \in Levels, forkDetected \in BOOLEAN : HealthAnswers(level, forkDetected)

Answer == Succeeds \/ NetworkFails \/ StatsFails \/ HealthFails

Next == Start \/ Stop \/ TimerPoll \/ PollNow \/ Answer \/ Second

Spec == Init /\ [][Next]_vars

-----------------------------------------------------------------------------
(* Every variable has the type its comment gives. *)
TypeOK ==
  /\ pollTimer \in BOOLEAN
  /\ polls \in [Stages -> Nat]
  /\ graceLeft \in {NoGrace} \cup (0 .. GracePeriod)
  /\ sinceEvac \in 0 .. LongAgo
  /\ numFallbacks \in 0 .. MaxFallbacks
  /\ fallbackIdx \in Nat /\ (numFallbacks > 0 => fallbackIdx < numFallbacks)
  /\ lastLevel \in Levels \cup {None}
  /\ lastError \in BOOLEAN
  /\ shown \in {None, "safe", "warn", "crit"}
  /\ evacuation \in [reason : {"fork", "threshold"}, fallback : Fallbacks] \cup {None}

\* A countdown runs only while the last known share is at or above the
\* threshold, and a threshold evacuation starts from such a share: no result
\* below the threshold, however late its poll is applied, leaves a countdown
\* behind, and no dropped result slips under a running one.
GraceIsJustified ==
  /\ graceLeft # NoGrace => lastLevel = "high"
  /\ evacuation # None /\ evacuation.reason = "threshold" => lastLevel = "high"

\* Between an evacuation and the next threshold evacuation lies a cooldown of
\* gracePeriodMs and then a full countdown, whatever polls were in flight and
\* however often the host stops, restarts and polls.
ThresholdEvacuationsAreApart ==
  [][evacuation' # None /\ evacuation'.reason = "threshold"
       => sinceEvac + 1 >= 2 * GracePeriod]_vars

-----------------------------------------------------------------------------
(* What the documents say and the code does not do. *)

\* _poll skips polls after an evacuation so that a fork that is still there
\* does not evacuate again, and _evaluate drops the polls in flight: no fork
\* evacuation follows another evacuation within gracePeriodMs.
ForkRespectsCooldown ==
  [][evacuation' # None /\ evacuation'.reason = "fork" => ~CoolingDown]_vars

\* SPEC.md, Grace Period: the countdown is cancelled if R drops below W (not
\* merely below T), as long as nobody stops the monitor.
GraceEndsBelowW ==
  [][graceLeft # NoGrace /\ graceLeft' = NoGrace /\ evacuation' = None /\ pollTimer'
       => lastLevel' = "low"]_vars

\* SPEC.md, State Machine: when R drops, WARN and CRIT lead to SAFE.  A low
\* result outside the cooldown leaves the listener with 'safe'.
DropIsTold ==
  [][(\/ LocalAnswers("low")
      \/ StatsAnswers("low")
      \/ HealthAnswers("low", FALSE)) /\ ~CoolingDown
       => shown' = "safe"]_vars

=============================================================================
