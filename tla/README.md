# Verification of the EVE event catalog

This directory keeps the TLA+ models of the event catalog beside its code: what
the parts of the system promise one another, which interleavings, crashes and
delays they survive, and which they do not. TLC checks the models on small
instances; TLAPS proves the most important properties for every instance.

An agent subscribes to an event ("wake me when this price is crossed"). The
subscription is a Redis record; some watcher notices the event and delivers a
*wake*, an HTTP POST that resumes the agent's session. Two processes do this at
once, the eve process (the agent's host) and a durable connector; both crash,
retry and sweep up after one another, and the agent must be woken exactly once.

## 1. The system's parts

| Part | Code | State | Operations | Interacts with |
|---|---|---|---|---|
| registry | `catalog/registry.ts` | subscription record, index set, expiry index, conversation records (Redis) | create, update (read, then write), compare-and-swap to "delivering", list | everyone, through Redis |
| wake delivery | `catalog/wake.ts` | lease and marker keys (Redis); expiry timers (process) | deliverWake, sweepStrandedDeliveries, expire | registry, wake route, providers |
| wake route | `agent/channels/catalog.ts` | none of its own | look the conversation up, count the turn, claim, send, clear or upgrade the marker | turn cap, the agent's session |
| connector delivery | `connector/lib/deliver-wake.ts` | none | the same delivery without a lease and without "failed" | registry, marker, wake route |
| arming | `catalog/wake.ts` | armClaimed (process) | armPendingForConversation at turn.completed | registry, providers, delivery |
| turn cap | `catalog/turn-cap.ts` | one counter per UTC day (Redis) | incrementAndCheckTurnCap | chat and wake routes |
| expiry and recovery sweeps | `catalog/providers/expiry-sweep.ts`, `recovery-sweep.ts` | none | list what is due or stranded, deliver each | registry, connector delivery |
| run-forever workflows | `connector/workflows/*`, `chain-guard.ts`, `chain-supervisor.ts`, `ensure-*-running` routes | chain claims, heartbeats, supervisor locks (Redis) | a bounded run that starts its successor; a cron supervisor that restarts a dead chain | the four sweeps and the session |
| clock provider, clock sweep | `clock.ts`, `clock-sweep.ts`, `clock-redis.ts` | timers (process) or a due index (Redis) | arm, disarm, fire with retry; reconcile the index, deliver what is due | registry, delivery |
| EDGAR watcher, EDGAR sweep | `edgar.ts`, `edgar-sweep.ts`, `edgar-redis.ts`, `edgar-client.ts` | seen accession numbers (process or Redis), watches per CIK | seed, poll, deliver new filings | registry, delivery |
| Alpaca session | `alpaca-session.ts`, `gap-replay*.ts`, `fence*.ts`, `desired-membership.ts`, `order-reconciliation.ts`, `serial-queue.ts` | price cursors, fence token (Redis); watches, buffers, write queue (process) | connect, replay the gap, handle live trades and order updates, recheck membership | registry, delivery |
| Alpaca in-process provider | `alpaca.ts`, `alpaca-client.ts` | watches and order routes (process) | arm (register, then seed by REST), handle a trade | delivery |
| history and event feed | `history.ts`, `event-feed.ts`, `observatory/lib/event-feed-*.ts` | an append-only list per kind (Redis), a client window | append and trim; page by sequence number; merge | observatory |
| read cache | `read-cache.ts` | the last value and its time | read through, share a fetch | observatory routes |
| observatory polling | `poll-loop.ts`, `use-session-transcript.ts` | a timer, a request in flight, a stream | poll while visible, reconnect a stream | HTTP routes |
| conversations | `registry.ts`, `agent/channels/catalog.ts`, `connector/lib/market-open-turn.ts`, `subscribe_event.ts` | conversation record, session reverse index (Redis); eve's session of the continuation token | chat, market-open turn, subscribe, compare the session a wake reached with the record | turn cap, wake route, arming |
| tools, validation, UI, auth, instrumentation, scripts, spikes | `agent/tools`, `catalog/catalog.ts`, `observatory/components`, ... | none that outlives a call | | not modelled |

What makes each part correct, and what is hard about it:

* **delivery**: one reason, one wake, one truthful terminal status, in spite of
  lease expiry, claim expiry, crashes between any two commands, errors whose
  effect happened, two sweeps with different rules. And it must finish.
* **arming**: once per subscription; a failure is recorded only if nothing was
  delivered.
* **turn cap**: never more turns than the limit while the store answers.
* **run-forever workflows**: a chain never dies for good, and chains do not
  multiply.
* **watchers** (clock, EDGAR, Alpaca): every event after arming is delivered,
  none before, whatever the order of arming, polling, reconnecting and
  persisting cursors.
* **conversations**: the recorded session is the one wakes reach, a session
  finds its conversation, and a record that is out of date is repaired.
* **feed, cache, polling**: no gap, no duplicate, nothing older after newer; one
  loop per page, and a page that goes on.

## 2. The modules

| Module | Models | Composes |
|---|---|---|
| `OneShotWake` | abstract specification: what a subscription goes through | |
| `WakeDelivery` | wake delivery, the wake route, connector delivery, the sweeps' rows, for one subscription | `OneShotWake` by refinement |
| `WakeDelivery_proofs` | theorems about it | `WakeDelivery`, TLAPS |
| `Arming` | armPendingForConversation racing with delivery | extends `WakeDelivery` |
| `Arming_proofs` | theorems about it | `Arming`, `WakeDelivery_proofs`, TLAPS |
| `TurnCap` | the daily counter in front of the two routes that start turns | |
| `Conversation` | chats, sessions, the conversation record and its reverse index, the wake route's session check, the market-open turn | |
| `Expiry` | the three commands of a registry write, the expiry index, the timer, the durable expiry sweep | |
| `RunForever` | one run-forever workflow, its chaining step and the supervisor | |
| `ClockProvider` | the in-process timers of one `time.at` subscription | |
| `ClockSweep` | the durable due index and its ticks | |
| `EdgarWatcher` | the in-process watcher of one company | |
| `EdgarSweep` | the durable EDGAR tick and its seen-set | |
| `GapReplay` | the pure order, merge and replay of trades, against an uninterrupted stream | |
| `FencedCursor` | the cursor of one symbol under fence, queue and several sessions | |
| `FencedCursor_proofs` | theorems about it | `FencedCursor`, TLAPS |
| `AlpacaSession` | the price leg of the connector's sessions for one symbol | uses the total order of `GapReplay` and the atomic cursor of `FencedCursor` |
| `OrderReconciliation` | the order leg of the connector's sessions | |
| `AlpacaPriceStream`, `AlpacaOrderStream` | the two legs of the in-process Alpaca provider | |
| `EventFeed` | the history list, the cursor read, a page's window | |
| `ReadCache` | the cached reads and the pages that poll through them | |
| `PollLoop` | the pages' loop: tick, flip, stop | |
| `SessionTranscript` | a page's connection to a session's event stream | extends `PollLoop` |
| `Observatory_proofs` | theorems about feed, cache, loop and page | `MCObservatory`, TLAPS |
| `Workflows_proofs` | theorems about the chain and the three sweeps | `MCWorkflows`, TLAPS |
| `EveProviders_proofs` | the invariants of the in-process watchers: `ClockProvider`, `EdgarWatcher` and the two Alpaca streams | these, TLAPS |
| `Market_proofs` | theorems about the four parts of the Alpaca session | `MCMarketData`, `FencedCursor_proofs`, TLAPS |
| `SortedSequences` | what `filter` makes of an array, in a form that can be proved about | used by `GapReplay` and `OrderReconciliation` |
| `EveProcess_proofs` | the conversation, the turn cap, and the theorems about the whole process | `MCEveProcess`, `EveProviders_proofs`, TLAPS |
| `MC*` | small instances for TLC | |

The delivery of a wake is worth its own module, and every watcher ends in one.
So the watchers' modules reduce it to what they see of it, a transition that only
one caller wins (and, where the code looks at it, an error or a later terminal
write), and `WakeDelivery` shows that this is what it amounts to.

### WakeDelivery

Every Redis key involved is private to one subscription id, so the module
models one subscription. A member of `EveCall` or `ConnectorCall` is one
delivery attempt, with the local variables of `deliverWake` or
`deliverTerminalWakeFromConnector` (`pc`, `reason`, `raw`, `firedAt`), and the
route handler that serves its POST (`route`, `reply`). The record, the lease
and the marker are `sub`, `lease` and `marker`. An attempt's name also stands
for what it mints: lease token, claim token and `firedAt`. When nothing it
minted survives, the name is free to begin another attempt (`Fresh`), so a
finite set of names gives behaviours with any number of attempts.

One action is one Redis command, one HTTP answer or one `send()`; the order is
that of the code. The compare-and-swap of `tryTransitionToDelivering` is a read
(`ReadRaw`) and a swap on the bytes read (`Cas`); `updateSubscription` is a read
(`ReadForUpdate`) and a write (`WriteTerminal`). `Interrupt` is a throw anywhere
(through `finally` when the lease is held), `Crash` the death of the process,
`RouteFails` the death of the handler at any point: a command whose reply is
lost is the command followed by `Interrupt`. `wakes` collects the `firedAt` of
every wake the right session got. `lapsed` remembers the one accepted exception:
a claim that expired while its holder was in `send()` or between `send()` and
the marker upgrade (`wake.ts`, comment at `WAKE_CLAIM_TTL_SECONDS`).

Differences between the two processes that the model keeps: the connector takes
no lease, never writes "failed", returns on an error without `finally`, and its
sweep does not look at the lease.

Left out: the payload, the guidance text and the history rows (no property is
about them); the 400 answer for caller-supplied guidance (neither caller
supplies any); the expiry of a "sent" marker after 30 days, against a recovery
round every few seconds or minutes; the limit of three swaps, which
`MissedCasIsSettled` shows is never reached. `known`, whether the conversation
record exists, is fixed at the start: nothing in the product deletes it.

### Arming

`Turn` is the set of `turn.completed` handlers of the eve process; `armClaimed`
is a flag because there is one subscription and one process. The try block, the
three reads of the catch block and its write are separate actions, with the
whole of `WakeDelivery` running next to them. A process restart is the crash of
every attempt and handler in it, then `Restart`.

### TurnCap

A request INCRs the counter of the day it arrived on, sets its time to live,
compares, and starts a turn or not. A store error lets the turn through, as the
code documents; such turns are outside `CapHolds`.

### Conversation

A chat (`POST /catalog/chat`, the market-open turn among them) counts on the cap,
sends, and records the conversation: the read of the old record, the deletion of
the old session's index entry, the write of the record and of the new entry are
four commands. A turn subscribes once, which needs the reverse index, and arms
at its end. A reload orphans the session; the next `send()`, a wake's as well as a
chat's, starts another one. The wake route compares the session it reached with
the record and answers 500 if they differ; the sweep repeats the delivery.
`anytime`, chosen at the start, says whether a reload may also happen while a
subscription is under way, `atOnce` whether requests overlap. Rounds of the sweep and of the day are compressed: a wake that goes on failing
is repeated every 15 s, the default cap is 200 turns, so it is used up within an hour
and long before the market-open turn; `MaxTurns = 2` and a wake that may take every
turn of a day stand for that.

### Expiry

`writeSubscription` is its three commands. The timer is `scheduleExpiry`'s, with
the longest delay `setTimeout` honours as a constant; a crash forgets all timers and may
fall between any two commands of a write, which leaves a row `Torn`: armed and never
indexed. The sweep reads the due rows of the index
and delivers them; a `Poison` row always throws.

### RunForever

A run generates its nonce, goes through its steps, each of which records a
heartbeat, claims the chain and starts its successor. The platform may execute a
step again, also after `start()` has succeeded. The supervisor's cron is one
`Tick`; a step lasts at most `MaxStep` ticks, which the tolerance `Stale` exceeds as
the constants of the workflows do. The five workflows have keys of their own and
differ in what a step does and in `HeartbeatAfter`.

### ClockProvider, ClockSweep

`ClockProvider` keeps the identity of state records and timers: an attempt of
`fire()` works on the record it found, whatever `disarm()` and a new arm have put
there. A delivery may fail with the subscription still armed, may have been
won by somebody else, or wins. `ClockSweep` runs `reconcileClockDueIndex` and the
due batch command by command, with two ticks that overlap.

### EdgarWatcher, EdgarSweep

A step of `EdgarWatcher` is a stretch of JavaScript between two awaits; a watch is
a number, `live` the one in the map, `promise` the cached creation. `EdgarSweep` reads
the desired subscriptions, resolves tickers from a list that a warm process keeps,
fetches, delivers and marks. Whoever arms while a tick runs is
`late` for it, and what it marks as seen is then `missed`: two histories that say
exactly what the sweep loses. `WarmProcess` says whether ticks share a process that
keeps the ticker list.

### GapReplay, FencedCursor, AlpacaSession, OrderReconciliation

The connector's Alpaca session is split along its state. `GapReplay` has the pure
part: timestamps of two precisions, the total order of trades, merge, dedupe,
readiness and the crossing predicate, driven by drops and compared with a stream
that was never interrupted. `FencedCursor` has the writes of the cursor: three paths in
each session, the queue, the read, the comparison and the fenced swap as
separate steps, a successor that takes the fence at any moment, and the order of
the shutdown. `AlpacaSession` takes both as given and has the control of a
session: who handles a trade in which phase, what each seeding leaves as
`previous`, join, drop, replay, recheck, shutdown and restart. Its module comment lists
the `Circumstances` under which wakes are lost or made up. Which of them may occur
in a behaviour is the variable `circumstances`, chosen in the initial state, and each
part of `WakesAreTrue` says which it allows: in none of them (the calm) every
crossing wakes, in the mild ones (`quiet`, `young`, `failure`, `flap`) a wake may be lost
but none is made up. `OrderReconciliation` has the order updates, the rotating
batches and the sessions that end.

### AlpacaPriceStream, AlpacaOrderStream

The in-process provider. `AlpacaOrderStream` has the shared stream with its
authentication and acknowledgement, the routing table and an arm with its
lookup and its catch; `AlpacaPriceStream` the shared subscription to one symbol,
the seed's request and the first tick that may come before its answer. The HTTP
answer and the websocket are independent; in which order they may come is the
variable `circumstances`, any of `race` (a trade is handled during a seed's request),
`ahead` (the answer is a trade the stream has still to show) and `behind` (it is older
than what the stream last showed). They and the data feed (`feed`) are chosen in the
initial state and never change; the feed `test` is seeded from the stream itself and
meets none of them.

### EventFeed, ReadCache, PollLoop, SessionTranscript

Rows are numbered in the order they were first pushed; LPUSH and LTRIM, LINDEX
and LRANGE are separate commands, and a push may be sent twice. `ReadCache` keeps
ages instead of times. `PollLoop` counts timers and runs so that a second one is a
state like any other; `SessionTranscript` gives its run a meaning, a connection
that replays the stream from its first event, fails or is closed early, and feeds
the reconnect policy.


## 3. The runs

Components that share no state are explored in one run, one at a time: `Init`
chooses the component `explored`; the chosen one steps and the others stand still,
each in a single initial state. A
behaviour of the run is a behaviour of one component, with all of its
interleavings. The properties of such a run are conjunctions of the components'
own properties; their names below are those of the component modules.
`MCEveProcess`, `MCMarketData`, `MCObservatory` and `MCWorkflows` extend their
components, whose constants the cfg gives; the theorems about them are for all values.

| Run | Explores | Shows |
|---|---|---|
| `wake_safety` | two eve attempts, one connector attempt, one fault, symmetric | `RecordMatchesAgent`, `AtMostOneWake`, `MissedCasIsSettled`, `TerminalIsFinal`, the refinement `ImplementsOneShotWake`, and the inductive invariant `IInv` |
| `wake_live` | two attempts of one process or one of each, one fault | `DeliveryCompletes`: with an eve attempt every delivery that began is settled; connector attempts alone settle those to known conversations |
| `arming_once` | two handlers, one attempt of each process, two faults | `ArmedOnce`, `NeverRearmed` |
| `arming_failure` | one handler, one eve attempt, one fault | violates `ArmFailureLeavesDeliveryAlone` |
| `turn_count` | two requests, limit one | violates `RejectedTurnIsNotCounted` |
| `eve_safe` | the eve process: clock timer, EDGAR watcher, price and order streams, turn cap, conversation | `TimersMatchRecords`, `WatchesMatchClaims`, `WakesAreTrue`, `CapHolds`, `KeySelfExpires`, `ConversationIsReached`, `ChunksAreLong` |
| `eve_live` | clock timer, EDGAR watcher, order stream, conversation | `WatchersWake`, `ConversationHeals` |
| `workflows_safe` | the chain of a run-forever workflow, the expiry, EDGAR and clock sweeps | `ChainsDoNotMultiply`, `NothingEarly`, `NothingSwallowed`, `LiveRowsStayIndexed` |
| `workflows_live` | the same | `ChainKeepsComingBack`, `SweepsSettle` |
| `market_safe` | the cursor under two sessions, the price session, gap replay, order reconciliation | `NeverRegresses`, `CleanEndPersists`, the cursor's inductive invariant `IInv`, `WakesAreTrue`, `ReplayIsUninterrupted`, `CoveredWhileSteady` |
| `market_live` | the same without gap replay | `SessionsComplete` |
| `observatory` | event feed, read cache, transcript page | `FeedIsHistory`, `StalenessBounded`, `LoopMatchesPage`, `PagesCatchUp` |

Each safety run also checks the type invariants of what it explores.

**Bounds.** Every bound is a constant of the module and a conjunct of a guard.

* Delivery: three attempts are what the races need, a stale holder (of the
  lease, of the claim), its successor, and a third that profits from what the
  stale one destroyed. `MaxFaults` bounds crashes, errors and rejections together;
  expiry of lease and claim is not bounded at all, so with one fault there are
  still unboundedly many late and repeated attempts. Two faults in `arming_once`
  allow a failing arm and a restart.
* Turn cap: three requests, a limit of two, two days. The counter is bounded one
  above the limit, where the first rejection is.
* Clock: a target that takes more than one chunk, two concurrent attempts of `fire()`, two
  faults. EDGAR watcher: three subscriptions on one company that arm, settle and
  arm again, three watches. Streams: three subscriptions to two orders, two
  subscriptions to one symbol with opposite directions, one dropped connection,
  up to four trades on both sides of a threshold; the seed's answer in order, racing a
  tick, ahead of the stream and behind it (`Conditions` of `eve_safe`; `eve_live` has it in
  order).
* Chains: three runs, two invocations of the supervisor, two faults, one run
  started by hand; the tolerance exceeds the longest step, as the workflows'
  constants do. Sweeps: two subscriptions or rows (and
  beside them a malformed one and one without a record), two filings, two
  overlapping ticks, one failure or crash.
* Alpaca session: two subscriptions of opposite directions, three trades, two drops
  (a second one while the first is replayed), two sessions in the calm and the last of
  them in the mild circumstances. Cursor:
  two sessions with three writes each, so that a zombie, its successor and every
  pair of writer paths meet. Gap replay: three trades in two
  milliseconds, with nanoseconds and two exchanges. Orders: batches of two over three
  subscriptions, so that a batch wraps around.
* Feed: a list of four rows, a page of three, five rows, two writers. Cache: two
  pages, two overlapping fetches. Transcript: two events, three attempts before the
  ceiling.

The proofs need none of the bounds of their modules.

**Deadlock** is not checked: a settled subscription, a day on which the bounds
are used up, a retired page really are ends.

**Fairness.** Each module states its own. Everywhere: code that runs
goes on (weak fairness of an attempt's, a handler's, a tick's next step), and
time and what time brings happen (timers, time to live, the day's end, the
platform's cron). Failures, crashes, triggers and user actions are never fair. In
particular:

* `WakeDelivery`: the recovery sweep of each process begins an attempt while the
  subscription is listed as delivering (`startRecoverySweep`, the durable sweep's
  loop).
* `EventFeed`, `ReadCache`: only weak fairness; failures are bounded.
* Strong fairness stands for "does not fail every time, though it is
  tried for ever": a row's turn in the expiry sweep, whose batch may fail in any round
  (`SweepRow`); a poll of SEC (`PollFetches`); the lookup of an order (`Lookup`); the
  connection of a page and its next rows (`Accepted`, `Chunk`); and for the order in
  which independent cron jobs meet the day's cap (`MarketOpen`, `Wake` in
  `Conversation`).

**Circumstances.** Where the code keeps its promise only under a condition, a
constant switches the opposite on, and the runs leave it off (`anytime`,
`atOnce`, `liveRaw`, `restRaw` and the `circumstances` of the two price modules are
chosen in the initial state instead, and the properties that need them off say so).
Where what is lost can be named exactly, nothing is switched off: the runs meet the
condition, and the property excepts that loss and no other (`Torn`, `missed`). These are limits of
the system the models made plain; with the switch on TLC finds the
counterexample at once.

| Switch | On, it shows |
|---|---|
| `Expiry.Torn` (no switch, met by both runs) | a crash between the three writes of a record leaves an armed row out of the expiry index for good; `SweepsSettle` excepts this row alone |
| `Expiry.MaxTimeout` below a deadline | `setTimeout` fires at once beyond 2^31-1 ms, and the subscription expires early |
| `EdgarSweep.missed` (no switch, met by both runs) | a subscription armed while a tick is between its reads loses the filings the tick marks seen; `NothingSwallowed` and `SweepsSettle` except these alone |
| `EdgarSweep.WarmProcess` with faults, for liveness | a failed load of the ticker list is cached by a warm process and stops its later ticks |
| `circumstances` in `AlpacaSession` | one name for each condition, listed in the module's comment: a symbol with no trade since its cursor, a gap before the cursor has passed armedAt, a failing request or delivery, a trade during a snapshot, a recheck during a reconnect each lose a wake; a subscription armed after a gap, or a history ahead of the stream, is woken for a crossing before it |
| `flap` among them | a second interruption while a replay runs: the running replay drains what came after the reconnect and moves the cursor past the second gap; the replay queued behind it, which "only replays the RESIDUAL gap" (`alpaca-session.ts`), starts after that, and a crossing in the second gap is lost or noticed late |
| `liveRaw # restRaw` in `GapReplay` | sources with different timestamp precision: a trade both have is decided twice |
| `OrderReconciliation.Churn` | subscriptions that keep coming and going keep the rotation away from an order |
| `race` in `AlpacaPriceStream`, with a seed from the REST API | the seed's answer replaces the price of a tick that was handled meanwhile, and a crossing is missed |
| `ahead` in `AlpacaPriceStream` | the answer is newer than trades still queued on the websocket: a crossing is missed, or made up backwards in time (threshold 2, 3 at `armedAt`, then 3 and 1 queued, the answer 1: the next tick, 3, "crosses" from 1). The wake then tells of two real prices, the later one first |
| `behind` in `AlpacaPriceStream` | the answer is older than what the stream has shown, and may be older than `armedAt`: a wake tells of a trade after `armedAt` that crossed from a price before it |
| `AlpacaOrderStream.Reauth`, `MaxOrderDrops` for liveness | a second rejection closes a stream others depend on; an order that ends while the stream is down wakes nobody |
| `EventFeed.MaxRetries` for the pages | a command sent twice lands its row behind another writer's, where a page that has read past it does not look |
| `anytime` in `Conversation`, for `WokenOnce` and liveness | a reload while a subscription is armed: the wake reaches a session other than the recorded one, is answered 500, and is sent again every round; those rounds use up the cap that the repairing chat needs |

**Two disagreements between code and comments.**

* `arming_failure`: the catch block of `armPendingForConversation` reads the
  status, the lease and then the record in three commands. A provider that
  registered the subscription before it threw may have started a delivery in
  between; its record is overwritten with "failed" although the comment on
  `shouldSkipArmFailure` says the catch "must leave it alone". The delivery goes
  on, wakes the agent and overwrites "failed" in its turn, or has already
  finished and stays recorded as failed.
* `turn_count`: the comment on `incrementAndCheckTurnCap` says the counter is of
  turns started and not of turns attempted. It is INCRed before the decision, so
  rejected turns count, and so do wakes that find the delivery claimed.

## 4. The proofs

TLAPS checks every theorem below for every value of the constants; the
assumptions are the `ASSUME`s of the modules (disjoint sets of names, bounds in
`Nat`).

**`WakeDelivery_proofs`**: `Invariance` (`Spec => []IInv`), and from it
`TypeCorrect`, `RecordMatchesAgentAlways`, `AtMostOneWakeAlways`,
`MissedCasIsSettledAlways`, `TerminalStaysFinal` and `Refinement`
(`Spec => ImplementsOneShotWake`). None of the safety properties is inductive. That
a recorded `firedAt` is that of a wake depends on where every attempt got its
timestamp from, back to the marker and the route's answer (`WakesTraced`). That
"failed" means nobody was woken rests on 404s and wakes excluding one another
(`ConversationDecides`). That there is one wake rests on the marker naming
whoever may send as long as no claim in use expired (`ClaimGuards`). That a late
write repeats the terminal status instead of changing it rests on every attempt
past the swap working for the one recorded reason (`IntentShared`,
`ReasonsKnown`). `IInv` is their conjunction. The proof has one lemma per part,
with one step per action; lemmas on the helpers (`GotoMoves`, `ReturnForgets`,
`LeaveEnds`, `AnswerHeard`) say what they do to the local variables.
`RecordChanges`, `WakesChange`, `CasCommits` and `WriteSettles` reduce the action
property and the refinement to the two actions that touch the record and the one
that wakes.

**`FencedCursor_proofs`**: `Invariance`, `TypeCorrect`, `FencingIsExclusive`,
`GuardIsFresh`, `CursorNeverRegresses` (`Spec => NeverRegresses`) and `CleanEnd`. The cursor is read, compared and
swapped in three steps, and the swap checks the fence but not the cursor again. So
the invariant has to say that the comparison is still true: of all writes the
fence would let through, only the one at the head of its symbol's queue is past its
read (tokens belong to one session, queues are in order), hence nothing has
replaced the cursor since. `CleanEnd` (`Spec => []CleanEndPersists`) needs that the
flush of a session that ends is the last write it queues and that its snapshot has
everything that is pending (`FlushIsLast`).

**`EveProviders_proofs`, `EveProcess_proofs`**: the six components of `MCEveProcess` share
nothing (`EveIsApart`: a behaviour of the process is one of each of them), so each
has an inductive invariant of its own and `EveIsSound` (`Spec => []EveInv`) has them all;
`EveTypes` (`Spec => []Types`) has their types, bounds included.

* `TimersKeepToTheirRecords` (`Spec => []TimersMatchRecords`). That no timer is left after
  `disarm()` needs to know whose every timer is. An attempt of `fire()` that runs has
  the record to itself and no timer is left beside it (`FireHasTheRecord`); with no
  attempt, the one record's timer is the only one (`TimerIsTheRecords`); and
  `disarm()`, which comes after the terminal write, cancels a record that an attempt
  still holds (`DisarmCancels`), so that the attempt drops it instead of retrying.
* `ChunksAreWhole` (`Spec => ChunksAreLong`): by `Least` of the rest and the longest delay.
* `WatchesAreClaimed` (`Spec => []WatchesMatchClaims`), given `~ Reauth`, which is the
  circumstance above that TLC refutes it with. For the EDGAR watcher: the cached
  promise is that of the live watch or of the only creation under way
  (`PromiseOfTheLive`), which rests on watches being created in order
  (`CreatedInOrder`), and a watch that is cached has a member or somebody who will
  claim it (`SomebodyWantsIt`), which is why the last one to leave can take it down. For
  the streams: whoever is in the order table before the first authentication waits for
  it, so that a rejection clears them all (`AllWaitForAuth`).
* `WakesTellTheTruth` (`Spec => []WakesAreTrue`). That a wake tells of a crossing needs
  the order of what a watch knows: the wire has the latest trades without a gap
  (`WireIsTail`), and every price a watch compares is no older than the last one shown when
  it was armed, unless answers may be `behind`, and has been shown, unless they may be
  `ahead` (`PricesAreCurrent`). The theorem covers every combination of circumstances:
  in all of them the wake's trade comes after `armedAt` and crosses from a price the
  market had. That none is missed is stronger and holds when there are none: what a
  watch compares next is the trade before the next one shown (`NothingPassed`), and an
  answer that arrives without a trade in between is still the latest
  (`AnswerIsLatest`). An order wake rests on the
  news on the wire and in an answer being true (`NewsIsTrue`): an order that has ended
  stays so.
* `CapIsKept` (`Spec => []CapHolds`) and `KeyIsKept` (`Spec => []KeySelfExpires`), of the cap
  alone (`CapSpec`). The bound on turns started is not inductive: it needs the tickets
  that are still out. `TicketsInOrder` says which ticket a request may hold where it
  stands and that the key it is about to be judged by has its time to live,
  `TicketsCover` that the turns started and the tickets within the limit that are still
  held (a cardinality) are together at most the limit and, unless the day is over and
  nobody counts on it any more, at most its counter.
* `ConversationIsKept` (`Spec => []ConversationIsReached`). A chat changes the record and the
  index in four commands. With several at once an entry that is missing is one that
  somebody has still to write (`IndexFollows`); with one at a time the index is known
  command by command (`OneByOne`), and because sessions are numbered in the order of
  their creation (`SessionsInOrder`) no request replaces the record with an older one.
  `SessionIsKept` ties the wake's place in its route to the number of wakes.

**`Arming_proofs`**: `ArmsAtMostOnce` (`ArmingSpec => []ArmedOnce`), `NeverRevived`
(`ArmingSpec => NeverRearmed`) and `ArmingTypes`, with the whole of `WakeDelivery` and
its crashes next to the handlers. `ArmInv` has `OneArmer`, at most one handler past
the claim of `armClaimed`, and `NotYetArmed`, which ties the pending record, the
handlers that may still be first and the call that has not been made together.
`NeverRevived` needs that nothing but a handler touches a pending record, which no
delivery may look at (`PendingIsUntouched`), and that the first handler to get past
the claim finds it pending (`FirstHandler`); both are conjuncts of `ArmingIInv`.

**`Workflows_proofs`**: the four components of `MCWorkflows` share nothing
(`WorkflowsAreApart`: the composition implements each of their specifications), so
each has an inductive invariant of its own.

* `ChainsStayApart` (`Spec => []ChainsDoNotMultiply`, given `ToleranceAssumption`: a
  step that outlives the tolerance is outside it). That the supervisor starts a
  chain beside none rests on the heartbeat: `HeartbeatIsNewest` says that no live run
  has recorded a heartbeat younger than the chain's, hence time, which passes only
  while every leading run keeps to its longest step, cannot make the chain look
  dead while one leads (`TimePasses`), and `DeadMeansGone` carries that from the read
  to the start, under the lock of `OneSupervisor`. That a run starts one successor
  rests on `ClaimedBeforeStart`. The count of leading runs changes by lemmas on
  cardinalities (`OneMore`, `Exchanged`).
* `IndexKeepsTheLiving` (`Spec => LiveRowsStayIndexed`). A removal comes several
  commands after the look that decided it. `RemovesTheDead` says that the decision
  still holds, and `KnownIsWritten` why: whatever a tick or the index knows has had
  its armed record written, which is written once, so nothing on a list comes to
  life again.
* `NoFilingIsSwallowed` (`Spec => []NothingSwallowed`), for whoever arms at whatever
  moment. What the code does lose is what a tick marks as seen that a subscriber
  armed during that tick was waiting for: the histories `late` and `missed` record just
  that, and the theorem says that nothing else is lost. `EveryoneIsListed` says that a tick
  with companies left has on its list everyone who waits and is not late,
  `OfferedToTheWaiting` that what it fetched is still offered to them: by the seed if the
  baseline was empty (`FetchOffers`), and because an older filing in a baseline was not swallowed
  otherwise, which is the theorem itself. Instead of an induction over numbers,
  that a group has an earliest `armedAt` is an invariant
  (`SomeoneIsFirst`).
* `NothingIsEarly` (`Spec => []NothingEarly`), given `DeadlinesAreNear` - no deadline is
  beyond `MaxTimeout`, otherwise the timer fires at once. Whoever works for an
  expiry is late already, or a timer that will be (`WorksForTheLate`); a tick of the
  clock sweep looks at rows that were due when it began (`LooksAtDue`); what the EDGAR
  sweep offers is younger than whom it is offered to (`OffersAreWanted`), in a tick
  somebody armed in as well.
* `WorkflowTypes` (`Spec => []Types`). A run keeps within its steps by `StepsLeft`.

**`Observatory_proofs`**: feed, cache and page share nothing either (`PagesAreApart`).

* `LoopIsSound` (one timer or run at a time, none while hidden, one while visible),
  `LoopStaysRetired` and `PageImplementsLoop` (the page's specification implements
  `LoopSpec`, the loop alone). `LoopInv` ties the flags of `startPollLoop` to the runs
  and timers that are really there, which the code never counts. `TranscriptIsSound`
  (`Spec => []LoopMatchesPage`) adds that the run is the connection
  (`RunHasConnection`); that a power of two is a number is an
  assumption of `SessionTranscript` because induction is out of the prover's reach.
* `FeedIsSound` (`Spec => []FeedIsHistory`). `FeedIInv` says that every row of the list is
  within a page of where a poll asked from (`RowNearTop`), that a poll's anchor is
  current (`PollIsCurrent`), and that the window is the history between its oldest row
  and its cursor.
* `CacheIsFresh` (`Spec => []StalenessBounded`): a value and a fetch are never older than
  the time to live and the longest fetch (`CacheIInv`).
* `ObservatoryTypes` (`Spec => []Types`).

**`Market_proofs`**: the four parts of `MCMarketData` share nothing (`MarketIsApart`), so
each has an inductive invariant of its own; the cursor's is that of
`FencedCursor_proofs`. `MarketTypes` (`MarketSpec => []Types`) has their types.

* `RotationCovers` (`MarketSpec => []CoveredWhileSteady`). `Coverage`: an order `d` places
  behind the offset has been passed over no more often than batches fit before
  it, or the list has not stood still for that long. That a list of active
  subscriptions has no two places of one subscription is what `Filtered` keeps of the index.
* `ReplayLosesNothing` (`MarketSpec => []ReplayIsUninterrupted`). The statement
  compares the watch with one that saw every trade as it happened, so `Watched` says
  it for the first `decided` trades at every moment: cursor, price and the trade
  fired on are those of that prefix of the tape. A replay merges a history that
  begins at the cursor's timestamp and a buffer that may overlap with it; with the same key
  in both sources the union is a stretch of the tape (`BufferHolds`), the order by
  keys is the order of the tape (`TapeInOrder`), and so sorting and cutting off at the
  cursor gives exactly the trades after it. That a finite set of trades can be sorted at
  all is `SortedExists`, by ranks, without induction; that an increasing enumeration of an
  interval is the interval, `TightlyIncreasing`.
* `WakesHold` (`MarketSpec => []WakesAreTrue`), for the price session in two parts.
  *No wake is made up*, in the circumstances of `Mild`: `PricesIInv` says that a
  connected session has heard of every trade but perhaps the last and has read nothing
  beyond what it heard (`UpToHeard`); hence everything a subscription is
  given to compare with, by a task or by the live stream, comes from its
  `armedAt` or later (`AfterArm`), and what is being sent for it is a crossing
  (`Truthful`). `TasksAlone` keeps the main task and the replay task apart, `DecidesLater`
  has the trades a task decides on after its cursor, `NewIsUnseen` nobody seeded before it
  is armed.
  *None is lost*, in the calm, across any number of interruptions and sessions:
  `CalmInv` on top of it. `Contiguous`: what a task has merged, and then what is buffered, follows on
  from the cursor without a hole up to the last trade heard. `Kept`: whenever the cursor will have to cover
  an armed subscription (in a gap, in a shutdown, between sessions) it is past its
  `armedAt`. `Delivered`: every crossing up to the cursor, and up to the price a
  watch holds, is being delivered. `Judged` and `Seeds`: that price is the
  trade before the next one, or will be when the task that seeds it is through.
  `Orderly` has the control: the symbol is seeding exactly while a task is on its
  way, and no replay is queued behind one.
  An order wake follows from `Answers`: what is on the wire, asked for or found concerns an order
  that has ended, and goes to a subscription that watches it.

Only model-checked: every liveness property (`WatchersWake`, `ConversationHeals`,
`DeliveryCompletes`, `ChainKeepsComingBack`, `SweepsSettle`, `SessionsComplete`,
`PagesCatchUp`); they need fairness and ENABLED, which the prover does not have. Every
safety property of a passing run is stated by a theorem.

## 5. Not modelled

* The observatory's components and `observe-page.ts` render what the polled routes
  return; they have no state machine of their own.
* Schema validation, the catalog's lookup and the order tools are one call each and
  keep no state; of the tools, `subscribe_event` is in `Conversation`.
* Authentication, instrumentation, scripts and spikes have no state or are not
  part of the running system.
* The price leg, the cursor and the replay of the Alpaca session are not composed
  in one state space, which is out of TLC's reach; `AlpacaSession` takes the
  atomic cursor and the order of trades that the other two establish.
* A delivery is one step in the watchers' modules; `WakeDelivery` shows what it
  amounts to.

## 6. What is left

* Proofs of liveness, which TLAPS 1.4.5 does not reach.
* The calm half of `WakesAreTrue` is all or nothing: which of its three parts survive each
  single circumstance is not worked out.
* A composition of `AlpacaSession` with `FencedCursor` on one symbol and one
  subscription.
