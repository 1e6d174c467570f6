# xmrigger, specified in TLA+

xmrigger watches a mining pool from beside a miner. One guard watches how large
a share of the network's hashrate the pool has, another whether the pool works on
the same chain as everybody else; a federation of nodes tells each other which
chain that is. This directory holds TLA+ modules for these parts, configurations
that let TLC check small instances of them, and proofs that TLAPS checks for
instances of every size.

`PROJECT.json` is the index: the components, the runs, the lines of code each
definition stands for, the disagreements found between code and documents, and
the hazards of the code with the properties that guard against them.

- To parse a module: `tlasany M.tla`
- To check a run: `tlc -config X.cfg M.tla` with the names of the table below
- To check the proofs of a module: `tlapm M.tla`

All paths below are relative to the repository, `src/` in `PROJECT.json`.

## 1. Inventory

| Component | Code | State | Operations | Interacts with |
|---|---|---|---|---|
| Prevhash monitor | `src/prevhash-monitor.js` | own prevhash, `_peers` (vote and time of each), `_divergeStart`, `_divergeEmitted`, `_stableMinorityTicks`, poll timer | `start`, `stop`, `_poll`, `onPeerAnnounce` | asks the upstream connection (`getPrevhash`), is told by the federation, emits `announce`, `divergence`, `resolved` |
| Hashrate monitor | `src/hashrate-monitor.js` | poll timer, countdown, `_lastEvacuatedAt`, `_fallbackIdx`, `lastPct`, the polls in flight | `start`, `stop`, `pollNow`, `_poll` (async), the countdown's tick | HTTP sources; emits `safe`, `warn`, `crit`, `fork`, `evacuate` |
| XMRig wrapper | `bin/xmrig-guard.js` | current pool, child process, 5 s restarts, 5 min backoffs, `shuttingDown` | `startXMRig`, `exit`, `evacuate`, `SIGINT` | drives the hashrate monitor, spawns and kills miners |
| Federation: links | `src/federation/node.js`, `session.js` | `_sessions`, `_reconnectTimers`, `_stopped`, each session's `_ready` and timer; nothing on disk, so a process that is started again has a new identity | `start`, `stop`, `_connectOut`, `_scheduleReconnect`, the handlers of `ready` and `close` | WebSockets to other nodes |
| Federation: broadcast | `node.js` `broadcastPrevhash`, `broadcastGuard`, `_broadcast`, the `frame` handler; the wiring in `federation/index.js` | none of its own | send to whom is registered and ready, pass on what is heard | links, prevhash monitor |
| Federation: admission | `node.js` `_accept`, `limits.js` `PerIpRate` | attempts and half-open slots of each IP | four gates, release on close | ban list, registry of sessions |
| Federation: limits and bans | `limits.js`, handlers in `node.js` | token buckets, strikes, quarantines, hard quarantines per IP, ban list | `charge`, `strike`, `add`, `isBanned`, `forget` | closes sessions, emits `peer-banned` |
| Federation: equivocation | `equivocation.js`, `node.js` | what each peer said of each height; who said what of each height | `observe`, `_recordObservation`, `_looksLikeHonestReorg` | bans, `prevhash-announce` |
| Federation: replay guards | `node.js`, `session.js`, `identity.js` | HELLO nonces, frames seen of each peer | `_helloNonceSeen`, `_framePostSeen`, timestamp checks | strikes |
| Wire format, crypto, identity | `wire.js`, `crypto.js`, `identity.js` | none | serialise, parse, sign, seal, build and verify frames | sessions, replay guards |
| HTTP fetches | end of `hashrate-monitor.js` | requests under way | request, follow redirects, read a body, parse | hashrate monitor |

What is hard about this code:

- *Interleavings on one thread.* Nothing is preempted, but polls await up to three
  fetches and are never cancelled, killed processes exit later, sockets deliver
  after they were closed, and timers of different age call the same function.
- *Two consumers of one variable.* `lastPct`, `_divergeStart` and the half-open
  count each mean two things, and one path updates one meaning only.
- *Clocks.* A vote's age comes from its sender's clock; caches, windows and
  cooldowns compare with `<` here and `<=` there.
- *Limits.* Caches are cut by age and by size, before or after an insertion.
- *Failures between nodes.* Handshakes that end at one side only, two nodes that
  dial each other, `stop()` in the middle of a handshake, a process that dies and
  is started again as somebody else while its peers have not noticed.
- *News and links.* A node announces a block once, to whom it is linked with then;
  a HELLO is judged by the blocks one knows at that moment.
- *Layouts.* Every field of every message at its offset, and what is not signed,
  sealed, parsed or remembered of it.

What makes each component correct:

- *Prevhash monitor.* An alert is earned by a majority, over a long enough and
  unbroken run; a lasting minority is reported; an alarm is called off once.
- *Hashrate monitor.* A countdown is justified by the last known share;
  evacuations do not chase each other; results of old polls do no harm, and a poll
  ends, wherever its requests lead.
- *Wrapper.* One miner, on the pool that was chosen last, and never nobody watching.
- *Links.* The registry names live sessions and all of them; each seed is dialed,
  connected or waiting exactly once; links heal, after crashes and between nodes
  whose pools work on the same block; no frame overtakes the handshake.
- *Broadcast.* What a linked node announces becomes its vote at the peer.
- *Admission.* Slots are conserved; who is refused pays nothing.
- *Limits.* No ban is shortened, by whatever order of events; memory is bounded.
- *Equivocation.* No contradiction within the window is missed; a peer is spared
  only with a true witness, and banned in spite of one only if the log is too short.
- *Replay.* A HELLO opens one session; nothing is a replay of what never came.
- *Frames.* What is heard is what was said, or nothing.

## 2. Modules

    DivergenceAlarm      <--implements--  PrevhashMonitor  <--  PrevhashHistory
    EquivocationMemory   <--implements--  EquivocationLog  <--  EquivocationHistory
    HashrateMonitor      <--implements--  HashrateFetches
    HashrateMonitor  <--  XmrigGuard
    FederationLink       <--implements--  FederationMesh
    ReplayGuard, FrameCodec  <--  FrameReception
    AgedLists  <--  FederationGates, FederationLimits, EquivocationLog, ReplayGuard

(`A <-- B`: B extends A; a module that implements another and is not its
instance extends it, too.) `MC...` modules give TLC its small sets; `...Proofs`
modules hold the theorems. The two that implement what they extend have more
variables than it, and their steps are its steps: a theorem says so.

**PrevhashMonitor** translates the class method by method: `Verdict` is
`_tally`, `CheckDivergence` is `_checkDivergence` with its legacy
(`JudgeLegacy`) and majority (`JudgeByMajority`) halves, `TickMinority` and
`ResetMinorityState` are the methods of these names. `_divergeStart` is kept as
its age, and a vote as the age that the sender's timestamp gives it, which is
negative when the sender's clock is ahead. The age of an episode counts up to
`DivergenceMs` and the count of evaluations up to `historyK`: the code only
compares them with these.
**PrevhashHistory** puts an observer beside it that judges each evaluation from the
votes alone and knows nothing of the monitor's counters.
**DivergenceAlarm** is what a listener may rely on: suspect, raise once, call off
if raised, or forget.

**HashrateMonitor** has a counter of polls for each fetch that a poll can be
waiting for; an answer moves a poll on or concludes it. Each action is the code
between two awaits. A share is `low`, `mid` or `high`: its side of the warn level
and the threshold. `_inGrace` and `_graceTick` change together and are one
variable, `graceLeft`.
**HashrateFetches** follows the fetches of one poll through `_fetchJson`: the
requests of a redirected one, the parts of its body, the ways it fails, and the one
in which it neither answers nor fails: a connection that ends within the body, for
which nothing listens. `Resolved` and `Rejected` are `Promise.any` over the URLs of
the network's hashrate, and the one URL of the other two.

**XmrigGuard** extends it with processes and timers. The `evacuate` handler runs
inside the monitor's callback: while `evacuation` is set nothing else moves
(`Turn`). A killed process is dying until its exit is delivered.

**FederationLink** has for every connection a WebSocket at each end, what is on
its way to it, and the session on it; for every node the registry, the reconnect
timers and `stop()`. A node is a process with one identity for its life, so a
peer id is the peer; it listens at a URL, its home, and the process that is started
there after a crash is another node. A connection that breaks loses what was in
flight or delivers it first, and each end notices in its own time. A closed socket
still delivers what arrives before the close frame.
**FederationMesh** puts a prevhash monitor beside each node, wired as the header of
`federation/index.js` shows: `Poll` is a `_poll` that announces, `votes` is
`_peers` without the timestamps (what is counted of them is PrevhashMonitor's),
`Reconciled` is the check of a HELLO against the blocks one knows. Blocks are
numbered in the order in which a pool comes to them.

**AgedLists** has the three things the program does to arrays of timestamps and to
Maps that serve as caches: entries leave from the front up to the first young one,
or until there are few enough, or one is deleted where it stands.

**FederationGates** has the four gates in their order, `PerIpRate`, and the
sockets that were let in. The list of attempts is filtered only where the code
does it, on the next attempt. Bans change as the environment likes.

**FederationLimits** has `PerPeerLimiter`, `BanList` and the handlers of `frame`
and `policy-violation`. All times are kept as ages or as what is left. The second
bucket is left out: with the constants of `consts.js` 20 frames of 192 bytes never
come near 20480 bytes, nor 5 a second near 5120 a second.

**EquivocationLog** has both Maps as sequences in insertion order, with the two
evictions of the cache and the one of the log, and the verdict of the `frame`
handler. **EquivocationMemory** is the promise: what was said is remembered
exactly for the window, unless more is said than the memory holds: then it loses
what is oldest. **EquivocationHistory** puts a chronicler beside both who forgets
nothing (`told`, `later`) and decides nothing: the cache forgets by age and by the
number of keys, the log by the number of heights, and what the node makes of the two
together is held against what was really said.

**ReplayGuard** lets anyone deliver any HELLO or frame at any time. What was
signed has a lead, its timestamp minus now, from just beyond the tolerance ahead
to just beyond it behind. A HELLO is remembered by its nonce alone (`HelloKey`,
`node.js:263`), a frame by its `FrameKey`: a HELLO with the nonce of another one is
refused as a replay although it never came, whoever sent either.
**FrameCodec** has the bytes: `Fields` and `Reserved` are the layout of `consts.js`,
`WritePayload` and `WriteRegion` the serialisers, `ReadPayload` and `WellFormed`
the parsers, `Build`, `VerifyFrame` and `ValidateHello` the functions of
`identity.js`. A signature is who made it over what, a sealed frame what was
sealed with which key: what the primitives promise, and no more.
**FrameReception** composes the two: what a session does with a copy of a message in
which any one byte may have changed, before it was sealed or after.

Operators whose comment begins with "Mutation of" are not part of any
specification. Each is a plausible bug in the definition it names: put in its
place it must break the property that `PROJECT.json` lists with it. That is how
each property is known to say something.

## 3. Runs

Runs that pass:

| Run | Instance | What it shows |
|---|---|---|
| `Prevhash_safety` | 3 peers, 3 hashes, quorum 2, votes up to 1 ahead, fresh or stale | `AlertIsEarned`, `AccusersOutnumberUs`, `EpisodeIsTheRun`: alerts rest on a majority over an unbroken run, and the episode is that run; `AlarmProtocol`: majority mode implements `DivergenceAlarm` |
| `Prevhash_live` | 2 peers, 2 hashes, fair, either mode | `MinorityIsReported`, `AgreementEndsAlarm` in majority mode, `LegacyFollowsPeers` in legacy mode |
| `Hashrate_all` | all sources, 2 polls in flight, up to 2 fallbacks, grace 2 s; the fetches of one poll, fair | `GraceIsJustified`, `ThresholdEvacuationsAreApart`; `PollEnds`, unless a body breaks off |
| `Guard_all` | up to 2 fallbacks, 2 polls, 2 pending exits or timers, fair | `OneMinerOnCurrentPool`, `NeverUnwatched`, `EvacuationLeavesPool`, `MinerComesBack` |
| `Link_all` | 2 homes, 3 processes, fair: one dials the other (3 faults and a stop, or 1 fault and a new block, or a crash and a new block), or each dials the other (1 fault, or 1 stop) | `RegisteredIsLive`, `ReadyIsRegistered`, `SeedIsHandledOnce`, `FramesFollowHello`; `LinkHeals` where one dials; `AnnouncementArrives` |
| `Gates_all` | 2 IPs, 3 sockets | `SlotsAreConserved`, `BudgetBuysSockets` |
| `Limits_all` | 2 peers, behind one IP (up to 3 hard quarantines), on two IPs, or one of them dialed; a ban list of 1 | `RecordKeepsOut`, `StrikesAreBounded`, `BanListIsSound` |
| `Equivocation_all` | 2 peers, 2 heights, 2 hashes, a cache of 2, a log of 1 | `OldestFirst`; `VerdictsAreJust`: of two memories that forget differently; `NoContradictionIsMissed`: the cache implements `EquivocationMemory` |
| `Replay_hello` | 3 HELLOs, two of which are of different peers and have the same nonce, 2 frames that differ in one field, room for both nonces and one frame; copies in which any one byte is changed | `NonceOnce`; `HeardIsSaid`, `ReplaysAreReplays` |

Most of these also check a type invariant, the one of the module that has all variables of
the run. What differs between the
instances of one run (the mode, the number of fallbacks, who dials whom and what may
fail, where the peers are) is chosen in the initial state and never changes; a run covers them all.

Runs that end in a violation each check a sentence of the repository that the
code does not keep. The sentence and the line are under `findings` in
`PROJECT.json`.

| Run | The sentence | What the counterexample shows |
|---|---|---|
| `Hashrate_fork_cooldown` | the cooldown keeps a fork from triggering again | a second poll in flight evacuates again |
| `Guard_backoff` | mining stops for the backoff | the killed miner's exit restarts it after 5 s |
| `Link_stop` | after `stop()` the registry stays empty | a handshake under way registers |

### Known disagreements without a run

The sections "What the documents say and the code does not do" of the modules
state more sentences of the repository than these three. No standing run checks
the following ones, because the code does not keep them; each is refuted within
seconds when it takes the place of the properties in the component's
configuration, with what the last column says.

| Property | The sentence | The code | To see it |
|---|---|---|---|
| `PrevhashHistory!AlertNeedsPolls` | `SPEC.md:218`: historyK counts polling ticks | `prevhash-monitor.js:285` counts evaluations, those after announcements too | `Prevhash_safety` |
| `PrevhashHistory!RejoinEndsAlarm` | `prevhash-monitor.js:82`: `resolved` when self rejoins the majority | a tie or a lost quorum after the alert resets the episode (`:227`, `:251`): the rejoin is silent | `Prevhash_safety` |
| `PrevhashHistory!ResolvedEndsAnAlarm` | `AUDIT-2026-05-12.md:25`: no `resolved` without an alarm | legacy mode emits it for any episode (`:238`) | `MajorityVote = FALSE` |
| `PrevhashHistory!ResolvedMeansAgreement` | `docs/prevhash-monitor.md:152`: all known peers agree | the majority is enough (`:255`) | `Prevhash_safety` |
| `PrevhashHistory!AlertNeedsDissenters` | `docs/prevhash-monitor.md:151`: at least `minPeersForAlert` peers disagree | that many are fresh, some may agree (`:226`) | 4 peers, 2 hashes, `MinPeersForAlert = 4` |
| `HashrateMonitor!GraceEndsBelowW` | `SPEC.md:87`: the countdown ends when R drops below W | it ends below T (`hashrate-monitor.js:186`) | `Hashrate_all` |
| `HashrateMonitor!DropIsTold` | `SPEC.md:69`: WARN leads to SAFE when R drops | a result dropped in the cooldown swallows the next `safe` (`:172`, `:189`) | `Hashrate_all` |
| `XmrigGuard!RestartFollowsExit` | `bin/xmrig-guard.js:119`: an exit restarts the miner | the exit of a replaced miner restarts its successor (`:120`) | `Guard_all` |
| `FederationLink!DuplicateLeavesOne` | `node.js:350`: the duplicate is dropped | each end drops the other's choice: both links close (`:352`) | `Setups` with `Mutual` |
| `FederationMesh!LinkedMeansInformed` | `prevhash-monitor.js:46`: each proxy shares its prevhash with peers | a block is announced when it is found, to who is linked by then (`:176`); a link that comes later brings none | `Link_all` with `Setup(Knows(ha), 1, 0, 0, 3)` and three blocks |
| `FederationMesh!VotesMoveForward` | `docs/prevhash-monitor.md:153`: a peer reported a new prevhash | frames of an old and a new session of one peer arrive in either order, the last one counts | the same |
| `FederationMesh!OneVoteEach` | `docs/prevhash-monitor.md:142`: with 2, a single node cannot trigger an alert | a node that is started again is a new peer, and its old vote stays until it is stale | `Link_all` with `Setup(Knows(ha), 0, 1, 0, 3)` and three blocks |
| `FederationGates!SessionsAreCapped` | `SPEC-FEDERATION-v1.md:406`: connections beyond the cap are rejected | handshakes complete after the gate (`node.js:196`) | `Gates_all` |
| `FederationGates!OnlyHandshakesAreCapped` | `SPEC-FEDERATION-v1.md:361`: the cap is for half-open handshakes | established sessions hold slots, too (`node.js:210`) | `Gates_all` |
| `FederationGates!IdleIpsAreForgotten` | `SPEC-FEDERATION-v1.md:413`: no unbounded structures | an IP that has gone stays known (`limits.js:125`) | `Gates_all` |
| `FederationLimits!HardQuarantineHolds` | `limits.js:24`: a hard quarantine lasts an hour | `forget` drops it; a dialed peer has no IP to ban (`node.js:224`, `:426`) | `Limits_all` |
| `FederationLimits!TerminatedIsSilent` | `SPEC-FEDERATION-v1.md:375`: it terminates the session | what was on its way is announced (`node.js:367`) | `Limits_all` |
| `FederationLimits!HardsAreSessions` | `SPEC-FEDERATION-v1.md:376`: three of them make a long ban | what arrives on one closed session counts again (`limits.js:215`) | `Limits_all` |
| `EquivocationLog!CacheIsBounded` | `equivocation.js:13`: bounded by the maximum | one more than that (`:55`) | `Equivocation_all` |
| `EquivocationLog!OtherObserverSpares` | `node.js:314`: spared with one OTHER observer | when the log has forgotten the peer's own frame, one other is too few (`:325`) | `Equivocation_all` |
| `ReplayGuard!FrameOnce` | `SPEC-FEDERATION-v1.md:252`: duplicates within the window are dropped | not after 1024 newer frames (`node.js:341`) | `Replay_hello` |
| `ReplayGuard!DuplicatesAreForgiven` | the same line: without strike | they are struck (`session.js:134`, `node.js:422`) | `Replay_hello` |

Some sentences are contradicted by a line of the code that leaves a model nothing
to look for, and are listed here only:

- `SPEC-FEDERATION-v1.md:447`: the nonces of HELLOs are kept per peer. They are kept
  per process and looked up alone (`node.js:263`).
- `SPEC-FEDERATION-v1.md:329`: a bad signature on any frame terminates the
  session. It is one strike (`session.js:127`).
- `wire.js:28`: what was parsed re-serialises to the same bytes. Not a timestamp
  of 2^53 or more, which `Number()` rounds; no such frame is in time.
- `prevhash-monitor.js:61` hands `broadcastPrevhash` a string and
  `federation/index.js:18` reads `monitor.peers`: neither is what the code takes or
  has. The model is wired as meant.

### Bounds, and why they are enough

- *Prevhash.* Three peers and three hashes allow a plurality, a tie against us and
  a tie that we lead. Thresholds of 2 and 3 keep the two conditions of an alert
  apart: each can be met without the other. The theorems hold without bounds.
- *`MaxFallbacks`*: none, one and two fallbacks: a backoff, an evacuation that can
  only lead to where it starts, and a list that goes round.
- *Polls in flight* (`MaxPolls`): two suffice for a late result to meet a newer
  one; the theorems hold for any number.
- *`MaxPending`*: two of exits, restarts and backoffs overlap, in any mix.
- *Requests*: two URLs of the network's hashrate, the code's three redirects, a body
  of two parts: the first answer can be good or bad, and each limit is exceeded.
- *Slots*: connections of a dialer with one URL that have not gone at both ends:
  an old one, gone at the dialer, and a new one. A third needs a third fault.
  A seed waits for a free slot, as it would for its timer.
- *Setups*: each has its own bounds on faults, crashes, stops and blocks. Three
  faults break a one-way link in the handshake, after it, and while it is dialed
  again. Where nodes dial each other one fault or one stop meets two handshakes and
  their duplicates. A crash is of the dialed node or of the dialer, before, in and
  after the handshake, with its successor dialed, or dialing, while the peer still
  has the old session. The invariants of the links are proved without these bounds.
- *Blocks*: two, so that pools can differ while nodes are dialing, linked, or
  started again; the disagreements above need a third.
- *Damages* (`Changes`): any one byte, changed by 1 or by 128: every field of every message and
  every reserved byte is met, low and high. A copy is damaged once.
- *Sockets*: three with a cap of two: every gate refuses in some state.
- *Limits*: a burst of 2, thresholds of 2 and 3, a limit of 2: every escalation
  happens, and behind one IP a third hard quarantine follows a persistent ban. `MaxHards` caps
  how many are on record; see `GoHard`.
- *Equivocation*: two of everything: a key can be refreshed, evicted for age, for
  room, and contradicted, before and after its height has left the log.
- *Replay*: a tolerance of 2 has a time inside, at and beyond each boundary.

`CHECK_DEADLOCK FALSE` is said of the guard, whose process exits on a signal, and
of the links, which have nothing to do when all is linked and no fault is left.
Symmetry is used only in runs without liveness.

### Fairness

- `PrevhashMonitor!FairSpec`, and `MCFairSpec` for both modes: the poll interval fires while it is armed, and the
  clock runs. Nothing is assumed of peers or of the upstream pool; a property that
  needs them to keep talking says so in its premise.
- `FetchFairness`: a server answers, goes on, redirects, or is silent until the
  timeout, which is one of silence: a body may go on as long as it is within its
  limit, and one that is cut off never ends. A poll whose fetches are done is
  resumed.
- `GuardFairness`: the fetches of a poll come to an end (what `PollEnds` shows of
  those whose body is not cut off), the handler of an event runs, a killed process exits, timers fire. The two timers are strongly fair
  because their callbacks wait only for the callback that runs, which may be any of
  many. Nothing is assumed of crashes, of polls or of the level they report.
- `FederationMesh!Fairness`: of each connection, that a dial succeeds or fails and
  that what was sent arrives and is handled; of each node, that its reconnect timers
  fire and its monitor polls. A failure that the model forces (nobody listens, an
  unknown block) is fair; faults, crashes, stops and new blocks are finite in number
  and otherwise free.

## 4. Proofs

Every invariant and every action property that a run checks is also a theorem, and
so are the four refinements: they hold for every value of the constants that meets
the assumptions in the modules (thresholds are natural numbers, `None` is none of
the values, sockets are finitely many). Where a theorem needs more it says so: the
theorems about majority mode assume `MajorityVote`, `HardRecordKeepsOut` a finite
set of peers, `SessionsOpenOnce` a cache with room for the nonces of all HELLOs.

- **`PrevhashHistoryProofs`**. `TypeCorrect`, and `MonitorImplementsAlarm`: in
  majority mode every step of the monitor is a step of `DivergenceAlarm` or a
  stutter. Initial states map to initial states; then one step per action, with
  `CheckDivergence` split by the three outcomes of an evaluation.
  `AlertsAreEarned`, `NoLoneAccuser`, `EpisodesAreRuns`. The first is
  not inductive: it speaks of the observer's counts, the code of its own. The
  strengthening is `EpisodeIsTheRun`, which ties `_divergeStart` and
  `_stableMinorityTicks` to the observer's run of findings, with `NoRunNoCount`.
  `VerdictMeaning` is the lemma behind it: the loop over the tally finds us in the
  minority exactly when some other hash outnumbers every other one.
- **`XmrigGuardProofs`**. Of the monitor `TypeCorrect`, `GraceJustified` and
  `EvacuationsApart`. The strengthening is `Countdown`: while a countdown runs, what
  is left of it and the time since the last evacuation add up to two grace periods.
  From it follows that no result is dropped while a countdown runs, which
  `GraceJustified` needs, and the distance of evacuations.
  `FetchesImplementPolls`: HashrateFetches refines the module, so these hold with the
  fetches, too.
  Of the wrapper `GuardTypeCorrect`, `OneMiner` and `StaysWatched`, over
  the composed state. A step of the wrapper is a step of the monitor, whose
  invariant is cited, or takes its event. `MinerIsCurrent` and `QuietAtTheEnd`
  are the strengthenings: the process that `xmrigProc` names mines on the current
  pool, and nothing is left to handle once the process shuts down.
  `EvacuationsLeave` needs `PoolsInTurn`: the wrapper knows its pool and the monitor
  its turn in the list, and the two agree although each is changed without the
  other; with two fallbacks the one whose turn it is is never the one in use.
- **`FederationMeshProofs`**. `RegisteredAlive`, `ReadyRegistered` and
  `SeedHandledOnce`, for any number of nodes, homes, faults, crashes and stops.
  The first two rest on each other's typing and on what an end without a session
  cannot have (`ready`, a registration). The third counts: what a node dials at a
  URL is a set with at most one element, `SeedsHandled` is the same without
  cardinalities and is inductive. `HelloBeforeFrames` speaks of the head of an
  inbox only, and is not inductive: taking a message off uncovers the next. Its
  invariant `Greetings` looks at both ends: an end that waits has a HELLO first in
  its inbox, or an empty one and a peer that has not sent anything. `MeshImplementsLinks` maps every step of
  FederationMesh to one of FederationLink, and `MeshLinks` carries the invariants over.
- **`FederationGatesProofs`**. `SlotsConserved`, for any number of sockets as long as
  it is finite. `SlotInv` adds to it that an accepted socket has an IP; the list of
  attempts plays no part, so it is left out. `BudgetIsForSockets` compares the recent
  attempts before a step and after: the clock only takes from them, a refusal may
  prune, and an accepted socket adds one.
- **`FederationLimitsProofs`**. `FewStrikesAreKept`, `BansAreListed` and
  `HardRecordKeepsOut`. The invariant says of every peer's strikes that they are
  fewer than the hard threshold (`Bounded`), of the list that it has only IPs of
  peers (`ListedAreHomes`), so that with room for all of them nobody is evicted, and
  of the record of an IP what `RecordKeepsOut` says of it, position by position.
  The step that matters is pruning: it moves entries down, towards the positions
  that promise less.
- **`EquivocationLogProofs`**. `CacheIsOldestFirst` is
  inductive with the types: refreshing moves an entry to the end, so both evictions
  take what is oldest. `CacheIsMemory` rests on the first: in a cache that is in the
  order of age and has one entry a key, what eviction takes off the front is
  expired, or is one of the choices that `EquivocationMemory` leaves to a memory that is full.
  `ContradictionsAreJudgedJustly` needs of the log that it lies about nothing and has a
  place a height (`Sound`), and that it is `Complete` for every height of which fewer
  others than it holds were spoken of since: the heights that stand behind one are among
  those spoken of since and are all different, so a cut that took it would have needed
  more of them (`CutIsComplete`, by the pigeonhole principle). `ChroniclerOnlyWatches`:
  the history changes nothing, so the other theorems hold with it.
- **`FrameReceptionProofs`**. `HellosOpenOneSession` and `SessionsOpenOnce`: what was
  taken is too old to be taken again, or has an entry in the cache of nonces that is no
  older than the time the HELLO has lost since (`TakenIsKept`), so when the entry expires
  the HELLO is too old. It need not be its own: a HELLO with the same nonce does not
  renew it, it is refused. The
  first theorem is about any number of HELLOs, as long as the cache has room whenever
  a new nonce comes (`Roomy`): with more, the code forgets a nonce that is still good.
  The second is the case the run checks. `ReceptionIsFaithful` is
  about bytes: what `WritePayload` wrote `ReadPayload` reads (`PayloadRoundTrip`), fields do
  not overlap (`FieldsApart`), two frames with the same key are one (`KeysApart`), and a
  copy with a changed byte, in what is signed, in the signature or in the seal, is
  refused (`NothingIsDistorted`). `OnlyTakenIsReplayed`: a nonce
  that is remembered is that of some HELLO that was taken (`Known`), a key that of the
  one frame that has it.
- **`AgedListsProofs`** has the lemmas these share: what leaves a list from the front
  leaves an end of it (`IsEnd`), so what is ordered stays ordered, and what leaves
  from within leaves the rest as it was.

Model-checked only, because fairness and ENABLED are out of the prover's reach:
`MinorityIsReported`, `AgreementEndsAlarm`, `LegacyFollowsPeers`, `PollEnds`,
`MinerComesBack`, `LinkHeals` and `AnnouncementArrives`; and the three violations.

## 5. What is not modelled

- *Inside the primitives*: Ed25519, X25519, HKDF and ChaCha20-Poly1305 are what they
  promise, and succeed on every input that validates. In the code `diffieHellman` may
  throw in the message handler, for an ephemeral key of low order (`session.js:164`),
  after the nonce of the HELLO is remembered; key encodings and `poolIdFromEndpoint`, which the modelled code does not call, are
  left out.
- *Shapes of JSON*: whether a body holds the number that is looked for is a choice
  (`Ends`). A redirect to something that is no URL throws in `new URL` outside of
  any handler and ends the process; the model's redirects lead somewhere.
- *The upgrade to WebSocket*: the library has finished it when the gates of `_accept`
  run. What is refused there has cost a handshake of HTTP, of which no property speaks.
- *A failing `spawn`*, and whose share the stats URL reports after a pool change.
- *Growth with the number of identities ever seen*: the peers are a fixed set.
- *Demos, examples, proof of concept.*

## 6. Plan

Done: all components of section 1 as models with their runs, and proofs of every
safety property that the runs check. Next, in this order:

1. *More about replays.* What `FrameOnce` would need: with the cache of a peer's
   frames never full, a frame is heard once; and the sentences of the table above
   as theorems with the hypothesis under which they do hold (`CacheIsBounded` with
   one more entry, `SessionsAreCapped` with the handshakes that were under way).
2. *What a listener sees of legacy mode*: `AlarmProtocol` without the count of evaluations.
3. *Equivocation between link and monitor*: what becomes of the votes of a node
   whose peers ban it.
4. *Gates, limits and links of one node together*: whether a quarantined IP that
   keeps dialing can hold slots, and whether a link heals after a ban runs out.
5. *The ban list at its limit*: first in, first out against the documented LRU, and
   what becomes of a persistent ban.
6. *Shares per pool* in the wrapper: the sources keep naming the primary pool after
   an evacuation.
