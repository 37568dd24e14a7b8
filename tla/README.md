# A verification project for KOSPI200_Bot

TLA+ models of an asyncio trading bot for KOSPI 200 derivatives, the TLC
configurations that check them on small instances, and TLAPS proofs of their
main results for every value of the constants. Paths such as
`exchange/execution.py:71` are relative to the root of the repository.

Contents: 1 inventory of the system; 2 how concurrency works in it and is
modelled; 3 the modules and the code they stand for; 4 the runs; 5 fairness;
6 the proofs; 7 what the code does that its comments and tests do not say;
8 what is left out; 9 the plan.

## 1. The system

The repository is a set of agents meant to share one event loop. `main.py` holds
the entry point, but its `initialize` wires nothing yet (line 41: instantiation
is "simulated"); the agents are connected only by their constructor parameters
and by the tests. The models therefore take each agent with the collaborators its
code calls, and leave every caller the repository does not contain free to do
what the signatures allow: to start twice what runs already, for example. The one
restriction is a bound: no agent has more than two tasks that are not done at a time.

| component | state it keeps | operations | talks to | hard behaviour | what makes it correct |
|---|---|---|---|---|---|
| order table, `fsm/oms_fsm.py` | `states`: order -> status; a lock per order | `register_order`, `transition`, `get_status` | everybody | several writers | each call atomic; a dispatched order is not registered again |
| execution agent, `exchange/execution.py` | `_partial_fills_monitor`: order -> task | `execute_order`, `handle_execution_report`, `_garbage_collect_orphans` | table, bus, adapter | background tasks started, cancelled and finishing against reports in any order; retries of calls that may have succeeded | a partially filled order is never forgotten; no early cancellation; requests bounded |
| manual override, `interface/controllers.py` | `_is_halted`, `_last_heartbeat`, `_deadman_task` | `trigger_panic_halt`, `override_position`, `receive_heartbeat`, start / stop of the switch, `_deadman_watcher` | table | timers, cancellation racing an expired timer, several watchers | silence halts within a bound; a stopped switch does not halt; a halt closes the open orders its caller listed and no other |
| Telegram bot, `interface/telegram_bot.py` | `_poll_task`, `_last_update_id`, `_is_running` | start, stop, polling loop, `/stop` | manual override | an update that raises ends the loop; updates that come again; two loops after a second start | commands in order and once; `/stop` is heard |
| event bus, `core/bus.py` | priority queue, `_subscribers`, `_running` | `publish`, `subscribe`, `process_events` | everybody | publications and subscriptions during a dispatch, callbacks that raise, stale events, cancellation | order by priority, time and name, nobody skipped, `task_done` balanced, callbacks isolated |
| API throttle, `exchange/network.py` | `tokens`, `last_update` | `consume`, `send_payload` | exchange | calls and time interleave | the rate over every window is bounded |
| broker adapters, `exchange/adapters/` | HTTP client, token | `send_order`, `send_order_to_krx` | exchange | no answer, 429 / 500, injected faults | see execution agent |
| write-ahead log, `infra/wal_store.py` | the file, a one-thread executor | `save_event`, `load_history` | disk | crash between any two steps, failed writes, cancelled callers | acknowledged events are recovered, in order |
| risk manager, `risk/risk_manager.py` | limits | `validate_order` | table, bus | check, then act on a position read earlier | the limit holds unless two orders race |
| risk guards and greeks, `risk/` | none | formulas | - | boundaries | clamping |
| market data agent, `exchange/market_data.py` | windows | OBI, microprice, VPIN, `check_market_halt` | bus | - | MARKET_HALT first |
| time service, `infra/time_service.py` | virtual time | set, get, trading hours | strategies | - | time never goes back |
| dashboard broadcaster, `interface/websocket.py` | sessions, queues, workers | register, broadcast, worker, clean-up | clients | slow clients, back-pressure, clean-up from two places | a slow session loses only its oldest payloads; a closed connection's session is forgotten |
| telemetry recorder, `sensor/recorder.py` | queue of 10000, worker | `on_event`, worker, start, stop | disk | batches that fail, full queue, stop | every event is in the log, in the queue, or lost with a batch it names |
| graph observer, `sensor/graph_strategy.py` | input queue, buffer | observer loop, standby | dashboard | the recorder's loop, without batches | buffer empty in standby |
| report agent, `sensor/report_agent.py` | pending history | start, stop, closing scheduler, summary | - | an assertion in the scheduler; two clocks | the summary is whole, and comes while the agent says it is healthy |
| slippage analyzer, feedback, `sensor/` | windows | statistics | bus | - | - |
| strategies, `strategy/plugins/` | pending legs, counters, latches | `on_tick`, `on_leg_filled`, ... | bus, time | legs filled in part; two hedgers of one delta | one second leg per filled first leg; a hedge never overshoots the delta it was for |
| regime detector, orchestrator, `strategy/` | regime, event, shared weights | detect, rebalance | strategies | a value read across a yield | one reference to the weights |
| plugin loader, `strategy/loader.py` | none | directory scan, import | - | - | - |
| configuration, `config/settings.py` | settings, lock | hot reload | everybody | lock-free readers | no mixture of two versions |
| conductor, `main.py` | shutdown event | signals, run loop, shutdown | every task | shutdowns that cancel and wait for one another; signals at boot and at the end | the program ends, and closes its loop |
| dashboard client, `web_interface/src/` | socket, timers, store | connect, reconnect, throttle | broadcaster | overlapping timers and close events; unmounting | one live socket, always one or something that opens one, never an older payload after a newer; nothing survives unmounting |

`PROJECT.json` gives the status of each and, under `hazards`, the lines where each
is exposed and the properties that cover them.

## 2. Concurrency

Everything but the log's worker thread runs on one asyncio event loop, so:

- A stretch of code between two suspension points is one atomic step, and one
  action of a model. `await` of a coroutine that itself never suspends is no
  suspension point: `EventBus.publish` puts into an
  unbounded queue, and the table's writers take a lock nobody can be holding,
  since its body never suspends. So `handle_execution_report` and
  `trigger_panic_halt` are one step each, `_garbage_collect_orphans` and
  `_deadman_watcher` one per sleep, `process_events` one per `sleep(0)`, `get()`
  and callback.
- `task.cancel()` acts at the task's next step. A task that has not started never
  runs at all, its `finally` included; one that sleeps gets `CancelledError` even
  if its timer has expired meanwhile. `AsyncTask` holds these rules.
- `asyncio.gather` passes a cancellation on to what it waits for and goes on waiting:
  a shutdown that another one cancels raises only when all its tasks have ended. So two
  shutdowns that wait for each other both end (`Conductor`).
- Timers are countdowns, not clocks, so no bound on time is needed. In
  `ExecutionAgent` a woken task may run arbitrarily late. In
  `ManualCommandController` a tick waits for ready watchers: with an overloaded
  loop no bound on the silence could hold.
- In the browser one handler runs at a time, so each socket event, timer and effect
  is one step of `DashboardClient`; their order is open.
- The log's worker is a thread: its steps interleave with readers and crashes at
  the granularity of what another reader of the file can see.

## 3. Modules

| module | stands for | state and actions |
|---|---|---|
| `AsyncTask` | `asyncio.Task` (external) | phases of a task, `AfterCancel` |
| `OmsFsm` | `fsm/oms_fsm.py` | `states`; the two writers as operators |
| `PanicHalt` | the loops of `trigger_panic_halt` | pure: two passes over the listed orders |
| `PartialFillWatch` | abstract specification | an order left PARTIAL is watched until resolved |
| `ExecutionAgent` | `handle_execution_report`, `_garbage_collect_orphans` | `monitor` is `_partial_fills_monitor`; `HandleExecutionReport`, `GcStart`, `GcWake`, `GcCancelled`, `GcAborted`; other writers of the table as `Register`, `Override` |
| `ReportHistory` | history over it | since when an order is partial, which orders had their final report, which a report after it |
| `ManualCommandController` | `interface/controllers.py`, the `/stop` command | `halted`, `beatAge`, `current`, watchers; one action per command and per stretch of the watcher |
| `SwitchHistory` | history over it | whether the switch is armed, whether a start overlapped an older watcher, the list each watcher was started with and that of the call that halted the system |
| `Ascending` | - | a finite set of numbers from the smallest to the largest, defined by counting |
| `PriorityFifo` | abstract specification | one first-in first-out queue per type |
| `EventBus` | `core/bus.py` | queue, readings of the clock, subscribers, position of the loop; `Publish`, `Subscribe`, `Take`, `CallbackReturns`, `CallbackRaises`, `CallbackCancelled`, `CancelLoop` |
| `TokenBucket` | `exchange/network.py` | `tokens`, `lastUpdate`; `SendPayload` |
| `WalStore` | `infra/wal_store.py` | the file as a sequence of pieces, how much of it is synced, the worker's stage, the outcome of each call |
| `OrderDispatch` | `execute_order`, both adapters' send, `trigger_panic_halt` | where each call is, counters of the two retry loops, what the exchange booked |
| `SocketSessions` | `interface/websocket.py` | sessions, their queues, what each worker awaits and holds; `RegisterConnection`, `BroadcastEvent`, one action per stretch of `_connection_worker` |
| `DashboardClient` | `hooks/useWebSocket.js` | sockets, `wsRef` (`current`), timers and the references to them, the throttle; `Mount`, `ChangeUrl`, `Unmount`, the socket events, `TimerFires`, `ThrottleFires` |
| `EventLoop` | the tasks of one event loop | `phase` of each task, two names for the tasks of each agent; creation and end of a task as operators |
| `Conductor` | `main.py` | where `main()` is, the shutdown event, whom each shutdown waits for; `Initialize`, `LoopStarts`, `EnterFinal`, `Signal`, `Interrupt`, the steps of a shutdown |
| `Recorder` | `sensor/recorder.py` | queue, unfinished count, file; `OnEvent`, `RecorderWorks` (one batch, or one that breaks), start, stop |
| `ReportAgent` | `sensor/report_agent.py` | records, wall clock, timer, summary; `ProcessMessage`, `ScheduleCloseTrigger`, `SetClockBack`, start, stop; `GenerateSummary` as an operator |
| `TelegramBot` | `interface/telegram_bot.py` | the server's updates, the last number handled, the number each poller's request carries; `NextRequest`, `Answered` with the handling of a whole answer, `FetchFails`, start, stop |
| `AgentHost` | `main.py` with one agent | composes the five above and `TokenBucket` |
| `RiskManager` | `risk/risk_manager.py` | pure: `Approves` |
| `TradingPath` | an order from the strategy to the exchange and back | order table, pairs, position, open orders, reports on the socket, events on the bus; `Make`, `ReadPosition`, `Validate`, `Fill`, `Cancel`, `Deliver`, `OnLegFilled`, `GoesStale` |
| `Track1Defense`, `Track4Gamma` | the ticks of two strategies | pure: limits, rounding, dead bands, clamp, price of the hedge |
| `HedgeLoop` | both engines, the risk manager, the market | the delta, the latch, the price history, the hedges under way; `Track1Tick`, `Track4Tick`, `Land`, `Move` |
| `Dashboard` | both ends and the network | `Accept`, `Delivered`, `PingAnswered` join a step of each end; `CallFails`, `ClosedFails`; `Forget` reuses the identity of a finished connection |
| `MC...` | - | small sets for TLC |
| `...Proofs` | - | theorems |

`ExecutionAgent`, `ManualCommandController`, `OrderDispatch` and `TradingPath` each
INSTANCE `OmsFsm`, so the order table is one definition wherever it is written; the
controller and the dispatch share `PanicHalt`, the trading path and the hedging share
`RiskManager`. `Dashboard` EXTENDS its two ends, which share no variable.

**One agent at a time.** The agents of `AgentHost` share nothing but the event loop:
none calls another, and a shutdown is to each a single cancellation. So `deployed`
chooses one of the `Deployments`, and every interleaving of that agent with boot, signals and
shutdowns is explored. The signals that overtake one another are received by the deployment
"main", whose recorder runs but has nothing to record; the others end with
the shutdown of a `KeyboardInterrupt`. Variables are prefixed by their owner: `m`
for `main.py`, `r`, `s` and `t` for recorder, report agent and Telegram bot.

**What joins the trading path.** The repository has the handlers and not their wiring.
`TradingPath` joins them as their signatures ask: somebody passes `validate_order`
the position it has read, registers and sends what was approved, feeds the reports to
`handle_execution_report`, and hands the bus event to `on_leg_filled`. Reports on the
socket are a set from which any may be delivered, again and again. The fills and
the cancellations are the exchange's.

**A second start.** `start()` of the recorder, the report agent and the bot creates a task
whatever became of the last one, and `stop()` cancels the last one only. So each of them has
two names for its tasks, `Create` takes one that is free, and what a task holds between two
suspensions (a poller's number, a scheduler's timer, a worker's pause) is indexed by the task.

**Hedging in tenths.** Deltas, gammas and prices of the two engines are integers, in
tenths, so that a delta of half a future, where the rounding matters, is a state.
One future is worth a delta of one.

**Histories.** `ReportHistory` and `SwitchHistory` only add variables: every step
of the model is possible with them, and they let a property say when it holds.
The distinction matters. If reports arrive out of order, a PARTIAL after FILLED
starts a task on a closed order, and the `finally` clause of one task
(`execution.py:95`) may remove the registry entry of another; a stray task then
survives the next final report. So `FinalReportStopsWatches` and `CancelNotEarly`
speak of orders whose reports came in order (`disordered`) and say nothing of the others, while
`NoForgottenPartial`, `MonitorLive` and the refinement hold whatever the order. Likewise
`StopEndsTheSwitch` and `NoHaltAfterStop` speak of switches that were not started on top of a running watcher (`overlapped`), and
`CommandsRunOnce` of a bot that was not (`tOverlapped`): what happens in the
other cases is in section 7.

**Two ends of a connection.** The client and the worker learn of a broken
connection separately, so a worker may still send on a socket the client has closed,
and a new session may be live while the old one is being cleaned up. Payloads are
numbered in the order of the broadcasts; `latest` is the one the store was given
last, `shown` the one the throttle handed over (`lastData`). A payload that arrives may be
one the client cannot parse (section 7), so `Delivered` may change nothing.

**The log's file.** An append leaves half a line, a line without its newline, or a
line. What an `fsync` confirmed survives a power failure; of the rest a prefix
does, its last piece possibly cut. `load_history` is the operator `Readable`: a
piece without a newline swallows its successor, and what does not parse is
skipped.

## 4. Runs

| run | instance | distinct states | question |
|---|---|---|---|
| `exec_watch` | 1 order, 3 tasks, all statuses, timeout 2, 1 event waiting | 48,719 | Is a partial fill ever forgotten, is a cancellation ever early, does a final report stop the watch, does the agent implement `PartialFillWatch`? |
| `deadman` | 2 orders, 2 watchers, timeout 2 | 454,032 | How long can a silence go unnoticed, does a halt close what its caller listed, does a stop stop? |
| `deadman_restart` | 1 order, 2 watchers | violation | finding 1 |
| `bus` | 3 types of two priorities, 2 callbacks, 3 publications | 309,115 | Is every subscriber called, once and in order, is `task_done` balanced, does the loop get to every event, does the heap implement `PriorityFifo`? |
| `wal` | 4 events, 2 crashes | 242,897 | Is the history in order, which acknowledged event can be missing, can one leave again, does every call end? |
| `wal_torn_tail` | 2 events, 1 crash | violation | finding 2 |
| `dispatch` | 2 orders, both adapters, 2 attempts of 2 posts | 118,388 | How many requests, when is an order booked twice, does every call end? |
| `dispatch_after_halt` | 1 order | violation | finding 3 |
| `dashboard` | 2 connections, 2 timers, 1 new URL, queues of 2, 3 payloads | 1,026,024 | Is one socket live and one to come, does the store ever step back, what does a slow session lose, is the last payload shown, do closed sessions end? |
| `agents` | 2 signals, one of five deployments: throttle (capacity 7, rate 2, cost 3), recorder (queue of 2, 3 events, 1 malformed), report agent (2 records), bot (3 updates, 2 in an answer), none | 753,050 | Do the agents account for what they were given, wherever they are stopped and started, and get on with it, is the exit clean and does it come? How many calls fit a window of time? |
| `trading` | 1 pair, 1 single order, 5 markets, limit 4 | 89,114 | When is the position limit passed, and does a filled first leg get its second, once? |
| `hedging` | either engine or both, 4 moves of the market or overtaking ticks | 69,955 | Does a hedge overshoot, and does hedging come to rest? |

No run repeats a type invariant that is a theorem (section 6).

Why the bounds are enough:

- *exec_watch.* Orders do not interact except through the bus and the pool of
  tasks: registry entries, tasks and table rows are indexed by order, so one order
  shows what reports of that order can do; the proofs cover any number. Three
  tasks allow one that is being cancelled, one in the registry and one stray; a
  report that would need a fourth waits until one ends. The bus is a buffer
  nobody reads back; `MaxBus` blocks a report while an event waits, never a
  task. Two ticks tell "just started", "half way" and "expired" apart.
- *deadman.* Two watchers make every overlap the code allows; a third repeats the
  second. `Timeout = 2` lets a heartbeat fall strictly inside a sleep.
- *bus.* Three publications give a pair of equal priority, also one that reads the
  same time, overtaken by a more urgent one, and a publication during a dispatch. The types
  and their priorities are those of the repository: reports and cancellations are both most
  urgent, `MARKET_HALT` is the least. `Subscriptions` bounds who may subscribe to what: two
  callbacks to the reports, in either order, one to the cancellations, nobody to the third
  type, each at any time. With
  `StaleAfter = 0` an event is stale after one tick, so fresh and stale events
  both occur at every position. Safety and the refinement are proved for all bounds.
- *wal.* Two crashes allow a torn line, a recovery that appends to it, and a
  second failure on top; four events give a torn line, its victim and two
  unaffected neighbours.
- *dispatch.* Two of each retry is the least at which both loops repeat; the
  bounds are proved for all values. Two orders show a halt that lists one of them.
- *dashboard.* Identities of connections and timers are used again, so two sockets
  give any number of reconnections with at most one old socket dying beside the new
  one; a connection or a close event that would need a third identity waits. With queues of
  two and three broadcasts a push drops the older of two waiting payloads, or waits with another
  one behind a third that is being sent. Safety is proved for all sizes.
- *agents.* Two signals and the shutdown of `main()` make every chain
  of shutdowns that overtake one another; a third signal repeats the second. Two tasks of an agent
  are one that was started on top of another. The recorder's batch is as long
  as its queue (2), so batches break at their first and at their second event, and an
  event is dropped. The report agent may get records without a timestamp, late ones
  and ones dated at any time up to the end of the day and after it, a gain and a loss;
  `SummaryIsWorstFall` also compares the drawdown with its definition for every day of at
  most four trades. The bot's server answers with two updates, so two the bot
  never acknowledges hide a third. For the throttle neither
  the capacity nor the rate is a multiple of the cost, so remainders occur.
- *trading.* Limit 4 with orders of 2, 2 and 3 lets one order in, refuses a second beside it,
  and is passed when two are checked on one position. Each market but the first
  fails exactly one check. Safety is proved for all orders, limits and markets.
- *hedging.* Deltas on both sides of a half, of each dead band, of the clamp and of the kill
  switch; `MaxMoves` bounds how often the market moves and how often a tick
  overtakes a hedge under way. `FreshHedgeHelps` is proved for every delta.

`CHECK_DEADLOCK FALSE` stands where the system may really stop: every event of the
log has been saved and the crashes are used up, every order's call is over, nobody mounts
the dashboard, the program has ended, or every order is filled or refused.

Every property has a mutant in `PROJECT.json`: a plausible slip in a named
definition (an entry not removed, a sleep one tick too long, a task not awaited, a
heap that ignores the time, a list of orders shared by all watchers, a token bucket that is not clamped, a job
not taken in order, ...) under which the same run finds the property violated.
The mutated forms stand beside the definition they would replace, with a comment
that says what slip they are.

## 5. Fairness

A liveness property of the form `[]<>P` says that the system is never without P for good.

- A ready task runs (`WF` of `GcStep`, `WatcherStep`, `Loop`, `PostAgain`): asyncio
  serves its ready queue in order. Time passes (`WF` of `Tick`).
- The bus is drained (`WF` of `Consume` in `ExecutionAgent`); in `EventBus`
  callbacks come back, since nothing bounds a callback that does not.
- The log's worker runs and the disk answers (`WF` of `WorkerStep`).
- The browser runs the throttle's timer, the event loop the worker's steps that wait
  for nothing but the queue and the clock, and a call on a closed connection fails
  (`WF` of `ThrottleFires` and of `WorkerGoesOn` or `ClosedFails`, which exclude each other). A client that does not
  answer is never made to: with no timeout on the ping (`_PONG_TIMEOUT` is unused),
  its session may stay, so `ClosedSessionsEnd` speaks of closed connections only.
  Nothing makes a connection succeed, so the recovery of the client is the safety
  property `NeverStranded`.
- The event loop runs what is ready. `AgentHost` asks for less: as long as something in the
  conductor, the recorder or the report agent can go on, the clock of the day included, something
  there does (`WF` of the disjunction of their steps); only each of two pollers must have its
  turn, since the other one may be started and fail again and again. Nobody is made to start an
  agent, send an update or a signal; a request that the server never answers is
  left out, since the code has none.
- A FILLED report that is on the socket comes (`WF` of `Deliver`), and the bus hands
  its event on or drops it as stale (`WF` in `TradingPath`). No fill is promised.
- Ticks keep coming and hedges are filled (`WF` of `Track1Tick` and `Land` in `HedgeLoop`);
  the market rests because its moves are bounded.
- No fairness on the environment: no report, command, heartbeat, publication or
  answer of the exchange is ever promised. `EveryCallEnds` is therefore
  conditional: *if* every post is answered or its call cancelled, every
  `execute_order` ends. No post has a timeout in the code
  (`real_broker.py:78`); without the condition the property is false.
- Each subscript names the variables of the component whose step is meant. No step of another
  component looks like one of its steps, and whenever such a step is enabled so is the action of
  the composed next-state relation that takes it, so no fairness forbids what the model allows.
- `EveryEventTaken` relies on a behaviour having finitely many publications. With
  endless urgent events a strict priority queue starves the others.

## 6. Proofs

Every safety invariant and every action property of a passing run is also a theorem, for
every value of the constants under the named assumptions `OrdersAssumption`,
`GcTimeoutAssumption`, `NoTaskAssumption`, `MaxBusAssumption`,
`ReportStatusesAssumption` (execution agent), `TimeoutAssumption`,
`NoWatcherAssumption`, `MovesAssumption` (controller), `PriorityAssumption`,
`NameRankAssumption`, `StaleAssumption`, `MaxPublishedAssumption` (bus), `BucketAssumption`, `RecorderAssumption`, `ReportAssumption`,
`SignalsAssumption`, `DeploymentsAssumption` (throttle, recorder, report agent, event loop), `WalAssumption`,
`RetriesAssumption`, (dashboard) `EffectAssumption`, `QueueAssumption`,
`PublishedAssumption`, `ClientsAssumption`, `PathAssumption` (trading path) and
`HedgeAssumption` (hedging). They say that bounds are natural numbers, that a name which
stands for "none" is not one of the things named, and which priorities, statuses and orders
there are. Finiteness of the sets is nowhere assumed.

- **ExecutionAgentProofs.** `TypeCorrect`; `NothingForgotten`: always `MonitorLive`
  and `NoForgottenPartial`. Neither is inductive alone: a PARTIAL report that
  finds an entry starts no task, so "nothing forgotten" needs "entries name live
  tasks", and removing an entry in a `finally` clause needs to know that the order
  is then resolved, not PARTIAL, or watched by another task. `WatchInv` is their
  conjunction.
  `ImplementsWatchSafety`: each step is a step or a stutter of
  `PartialFillWatch` under `watched <- Watched`.
  `HistoryRefinesAgent` carries all this over to the agent with its history, where
  `HistoryInv` is what orders with orderly reports add: until the final report the only
  task that has not ended is the one in the registry, afterwards none is live
  (`OneWatch`), and what a task still sleeps makes up for what the order's spell lacks
  (`SleepMatchesSpell`). From the first follows `FinalReportStops`, from the second
  `NoEarlyCancel`.
- **ControllerProofs.** `TypeCorrect`; `DeadmanBounded`: while an uncancelled watcher
  lives and the system runs, the silence is below twice the timeout. The
  inductive form `SleepInv` adds the rest of the watcher's sleep to the age of the
  heartbeat. `HaltsAreExact`: a halt cancels the open orders its caller
  listed and touches nothing else. For a watcher that rests on `ListsInv`: the list it
  holds is the one its own start was called with, whatever was started since. `StopEnds` and `StoppedNeverHalts` rest on `SwitchInv`: without an
  overlap the one watcher that may not have ended is the one the controller remembers, a
  stop waits for that one, and when the switch is not armed not even that one is live.
- **EventBusProofs.** `JoinIsBalanced` by `BusInv`: where the loop is says whether an
  event is in hand, and that event is not on the queue. `EachIsCalledOnce` by `CallInv`: during a
  dispatch the last calls are the first callbacks of the list, as many as the index says,
  nobody was called earlier with the event in hand, and nobody yet with one that waits.
  `HeapIsFifo` is the refinement of `PriorityFifo`. The abstract queues are the
  publications of one type in ascending order; on these the readings of the clock strictly
  ascend, so the head of a queue has the earliest. `Ascending` defines that order by
  counting the smaller elements, not by recursion, so it can be reasoned about: to add a number
  larger than all others appends it (`AscendingAppend`), to remove the smallest takes
  the head (`AscendingHead`), and the least of the tuple order is the head of the first
  queue that is not empty.
- **AgentHostProofs.** Each agent of the host is proved about beside all the others:
  one lemma says what the steps of each leave alone.
  `RateBounded`: in every window, calls cost at most a full bucket plus what drips in.
  `ChargeInv` also charges the window with the tokens still in the bucket;
  `HostRefinesBucket` takes it from the bucket alone to the process.
  `EventsAccountedFor` by `RecorderInv`: file and queue together ascend, and with
  the lost and the dropped events they are all that arrived, each once; every loss names the
  event its batch broke on, which is lost itself, so no later batch can break on it again.
  `CommandsOnce` by `TelegramInv`: as long as no start found a poller at work, one poller
  at most is live, its request carries the last number the bot moved past, and no command
  run is newer than that.
  `ExitIsClean` by `ExitInv`, which has three parts besides `CleanExit`: where `main()`
  is says which of its tasks have ended (`MainInv`); it takes a signal to end a loop
  that ran and a second one to cancel the last shutdown (`CancelledInv`); and whoever
  lives while the last shutdown waits is one it waits for or the handler of a later
  signal (`WaitInv`).
  `SummaryCoversTheDay` by `ReportInv`: while the clock runs forward every scheduler sleeps at
  least to the close, so a summary is written at the close or later, and after the close no
  record is kept any more; what the summary says of the records is therefore still what
  its formula says of them as of the time it was written. That its drawdown, taken from a running maximum, is the largest fall between
  any two records is `DrawdownIsWorstFall`, for every list of profits and losses.
- **WalStoreProofs.** `OrderedHistory` by `Order` (file, job and queue each ordered
  and one before the other); `LostOnlyToTear` and `AckedNeverLeaves` by
  `Confirmed` (the line of an acknowledged event is whole and synced).
- **OrderDispatchProofs.** `RequestsBounded` by `Accounted` (each failed attempt pays
  for `PostRetries` requests); `NoNeedlessDuplicate` by `Unheard` (a booking the
  agent knows of ends the call).
- **DashboardProofs.** `OneLiveSocket`, `Recovers`, `DropsOldest` and `NeverStepsBack`,
  by `IInv`. That the store never steps back needs both ends: `WorkersOwn` and
  `HandBeforeQueue` say that what a worker holds is older than its queue, which is
  consecutive up to the newest payload (`QueueIsLatest`); `NothingOlderComes` says that
  what an *open* socket can still be sent is no older than the store; a delivery
  moves the store, and only `LiveIsCurrent` says that there is no second open socket
  for which it would now be false.
- **StrategyProofs.** `LimitHolds` by `RoomLeft`: unless two approvals raced, at most one
  order is open, and the limit has room for all that is still to be bought of it. The
  quantity counts for a sale as well, so a sale leaves room too. `OneSecondLeg` by
  `FilledIsTrue` (a FILLED report on the socket or on the bus tells the truth) and
  `PairInv` (a pair still pending has struck nothing, and no first leg is made twice).
  `FreshHedgesHelp`: `HedgeInv` says that whatever is under way is its
  engine's formula of the delta it was computed from. The rest is arithmetic:
  rounding half away from zero leaves at most half a future (`RoundedLeaves`), so a hedge
  of Track1 ends in the dead band (`Track1Helps`) and the clamp of Track4 only stops
  earlier (`Track4Helps`).

**Recursion in proofs.** The records of the day are filtered and summed by recursive
functions (`At`, `Cumulative`). The prover has no induction, so what is proved of them is
little: that they exist and of what type they are, from a smallest counterexample to the
well-founded order of the naturals (`Smallest`, `ComputedExists`, `StaysIn`). The
invariants need no more, since they compare two applications of the same function. What
the functions compute is only evaluated: the `agents` run filters every list of records it
reaches, and `MCAgentHost` compares the drawdown with its definition on every
day of at most four trades.

Checked by TLC only: every liveness property (`EveryCallEnds`, `EverySaveEnds`,
`SilenceHalts`, `EveryEventTaken`, `LatestIsShown`, `ClosedSessionsEnd`, `QueueDrains`,
`HealthyReports`, `StopHeard`, `SignalEnds`, `SecondLegFollows`, `HedgingSettles`) and the
liveness half of `ImplementsWatch`: the prover does not handle fairness and ENABLED.

## 7. Where the code and its comments part

Shown by a run:

1. `stop_deadman_switch` promises a safe stop (`controllers.py:129`); a second
   `start_deadman_switch` overwrites the task, and the first watcher can still halt.
2. Half a line does not hurt valid data (`tests/unit/test_infra_wal_store.py:170`);
   the test writes the newline itself. A real torn line swallows the next
   acknowledged event.
3. A halt stops the trading logic at once (`controllers.py:48`); `execute_order`
   retries without reading the table.

Read off the code, each in a model but without a run of its own:

- Callback failures are "isolated" (`bus.py:60`); a callback that lets a
  `CancelledError` out ends the bus for everybody (`CallbackCancelled`).
- Unmounting releases every socket and timer at once (`useWebSocket.js:117`); the
  close event of the socket it closes arms a new timer. After a reconnection it
  does not even close the right socket: the effect still holds the first one
  (`Unmount`, `OnClose`).
- A system shutdown sends Cancel All first (INSTRUCTIONS.md line 32); `shutdown` cancels
  tasks and closes no order. It does not call the agents' `stop()` either, so what the
  recorder has queued is never written (`ShutdownBegins`).
- A signal during boot finds no shutdown event: its shutdown cancels `run_loop` before it
  starts, or is too early for it. A second signal during the last shutdown makes `main()`
  raise before `loop.close()`, with the garbage collector off (`ShutdownAborted`).
- The recorder loses the rest of a batch with one event that cannot be serialised, and
  marks none of the batch done: nobody can join its queue again (`BatchBreaks`).
- A record out of order ends the report agent's scheduler; `health_check` goes on
  answering true, and there is no summary (`CloseOfDay`). With the wall clock set back, the summary
  comes before the close and leaves out records of the day (`SetClockBack`).
- A record dated after the moment of the summary counts as a look into the future
  (`report_agent.py:93`) and is left out for good. It takes no more than a sender whose clock
  is slightly ahead: kept just before the close, dated just after the summary.
  `ReportIsWhole` counts the records not dated later than the summary, and no others.
- The broadcaster sends bytes (`websocket.py:89`), a binary frame; a browser hands it over
  as a Blob, which `JSON.parse` (`useWebSocket.js:56`) refuses, and the hook swallows the
  error. Whether a web server in between makes a text of it cannot be told from the
  repository, so `Delivered` leaves open whether a payload reaches the store.
- The update number is moved on so that nothing is handled twice
  (`telegram_bot.py:145`); `start()` adds a second poller to one that polls
  (`telegram_bot.py:54`), both request the updates above the same number, and a command
  runs twice. `stop()` then ends the second poller only (`TelegramStart`, `tOverlapped`).
- One update or request that raises ends the polling loop while the bot counts as
  running; updates without a message are never acknowledged, and a full answer of
  them hides every later `/stop` (`Clogged`).
- `validate_order` counts a sale like a purchase, so it may refuse the second leg of a pair
  at the limit, whose first is then alone. A second leg that cannot be built, or whose
  event the bus drops after 200 ms, is not tried again (`missed`), and a first leg
  partially filled and then cancelled gets none.
- Track1 prices its hedge at 350.00 whatever the market (`FixedPrice`): away from it the risk
  manager refuses every hedge. The kill switch sends the same two orders on every tick that finds
  the limits exceeded. Neither engine knows of the other's hedge: both hedge the same delta.
- `/stop` halts with an empty list because "the controller tracks the open orders"
  (`telegram_bot.py:153`; the next line calls it a placeholder). No order is closed, and
  `_is_halted` makes every later halt that does list them a duplicate (`StopCommand`).
- MARKET_HALT is "top priority" (`market_data.py:70`) and published with
  `EventPriority.SYSTEM`, the last (`MCEventBus`).
- A session is closed by force if no pong arrives (`websocket.py:94`); nothing waits
  for a pong, and a `TimeoutError` out of `send_bytes` is taken for an empty queue: the
  payload is lost and the session stays (`SendTimesOut`).
- A new URL during a throttle stops its timer but leaves the reference, so `lastData`
  is never updated again (`StopThrottle`); `LatestIsShown` therefore ends with the first
  effect. The close event of the old socket reconnects to the old URL, since
  the timer's `connect` is the old one (URLs are left out of the model).

## 8. Left out

- Reports, commands and events that do not parse change nothing and are stutters;
  so are events the log cannot serialise. Non-string statuses and the like are
  not modelled.
- Publishers with a timestamp of their own, a system clock set back, and two publications
  of one type with the same reading: the heap then compares their payloads, dictionaries, and
  raises a `TypeError`. Ties between different types are in the model.
- Floating-point rounding in the token bucket; quantities and prices in the dispatch;
  fees.
- The log: a successful `fsync` is taken to confirm earlier pieces, also those
  behind a failed one, and what survives a power failure is a prefix. File systems
  exist that promise less.
- `execute_order`: the length of the delays; the token refresh task, start and stop
  of the real adapter; the stateless `_track_queue_position`.
- `AgentHost`: the memory lock and the scheduling class (`_lockdown_os`, calls into the
  operating system); a `KeyboardInterrupt` during the last shutdown; two agents at
  once; a third task of one agent while two of its tasks have not ended.
- The Telegram request, a comment in the source: the model takes the server's protocol
  from it. The mean slippage of the summary (floating point).
- `TradingPath`: RISK_REJECT events, to which nobody subscribes; the retries of
  `execute_order` (in `OrderDispatch`) and the watch on partial fills (in
  `ExecutionAgent`), whose cancellation is the exchange's `Cancel` here.
- `HedgeLoop`: rounding of the dead band to six places; the orders of the kill switch fill in
  other instruments and do not move the delta.
- Strategies: Track 2 (a counter of the day and a cooldown nothing arms), the volatility
  scaling, Kelly fraction and liquidity discovery of Track 1, the spread test of
  Track 3: stateless, and called by nobody.
- The graph observer is the recorder's loop without batches, behind a filter; the regime
  detector and the orchestrator are floating-point statistics whose weights nobody
  reads; the time service is a maximum; the configuration is read by no other component.
- For good: the charts (drawing), the plugin loader (imports), the agent base class
  (abstract), the slippage statistics, the guards and the greeks (floating point).

## 9. Plan

Done, in this order: order table and execution agent with their abstract watch and
proofs; manual override and dead man's switch with proofs; event bus with its
abstract queues; token bucket, log and dispatch with proofs; the dashboard's two
ends with proofs; conductor, recorder, report agent and Telegram bot on one event loop;
the trading path with proofs; the two hedging engines with proofs; proofs for the
histories, the bus and the agents of the event loop.

Worth adding, the most important first:

1. **Shutdown with the execution agent**: the collectors `shutdown` cancels owe orders
   their cancellation; what is left open when the loop is closed.
2. **One path for an order**: `TradingPath` with the retries of `OrderDispatch` and the
   watch of `ExecutionAgent` in place of the exchange's free `Cancel`; an abstract
   specification of the life of one order.
3. **Track 2 and the time service**: the limit of the day across midnight.
4. **The graph observer** against `set_standby`, if its sampling ever matters.

Theorems worth proving next: for each liveness property the safety fact it rests on, a
quantity that no step raises and that some step lowers; and a definition of the summary's
filter by counting, as `Ascending` is one of sorting, against which it could be proved.
