# bds-test-bot in TLA+

This directory holds TLA+ models of bds-test-bot, a load generator that logs a fleet of
headless players into a Bedrock Dedicated Server and makes them walk, fly or play a scripted
scenario. Paths below are relative to the repository (`fleet.go` is `internal/bot/fleet.go`).

TLC checks the models on small instances. TLAPS proves most of what they promise for every
fleet size, script, cooldown and bound.

## The system

| Component | Code | State | Operations | Hard because |
| --- | --- | --- | --- | --- |
| Fleet supervisor | `fleet.go`: `Run`, `finishFleet` | launched, online and collected bots, first error, two buffered channels, `fleetCtx` | launch with stagger, count online bots, announce, shut down, report | three selects race a signal, failing bots and failing output |
| Bot instance | `bot.go`: `runInstance`, `authInputWriter` | connection, three contexts, `tickErr`, read deadline, online flag, counters | dial, spawn, prepare, read packets, become online, return | three goroutines; cancellation closes the connection under a running main goroutine |
| Movement state | `tick.go`, `flight.go`, `flight_movement.go`: `playerState` | position, readiness, input clock, prediction history, teleport flag, flight flags, controls | snapshot, record, correct and replay, teleport, sync clock, seed from publisher | tick and reading goroutines interleave between two lock acquisitions; the server's answers arrive late |
| Actions | `actions.go`, `flight.go`, `packet_actions.go`, `scenario_action.go` | elapsed ticks, done, cooldown | Start, Tick, Done | they share one control block in `playerState`, and none resets what it does not use |
| Scenario engine | `internal/scenario/runner.go`, `internal/action` | step index, repeats left, current action | Start, Tick | an action is replaced in the tick that ends it |
| Configuration | `config.go`, `scenario.go` | none | parse and validate, name the bots, spread their headings | other parts rely on what was validated |
| Output | `internal/output/output.go` | a mutex | Emit | any event may fail to be written |
| Entry point | `cmd/bds-test-bot/main.go` | the signal context | run | exit codes |

How they interact:

    main -- ctx (signal) --> Run -- fleetCtx --> runInstance x Count --> gophertunnel --> BDS
                              ^ onlineCh, resultCh |   closer goroutine: closes conn on cancel
                              +--------------------+   tick goroutine: runTickLoop -> actions
                                                           |  playerState (mutex)  |
                                                       reading goroutine: packet switch

What makes each part correct:

- Supervisor: `fleet_online` only when every bot has been online; shutdown always completes,
  collects each launched bot once and leaves none running; no bot blocks on a channel nobody
  reads; the earliest error decides the exit code and exit code 0 hides nothing.
- Instance: it returns nil only when cancelled; it comes online or ends; it waits for the
  transport's close; no goroutine leaks; its counters say what the server was sent.
- Movement: prediction converges on the server's position; a bot seeded from the publisher's block
  starts out no farther from it than a block tells; teleports are acknowledged, by frames that stand
  still; flight requests and `StartFlying` frames pair up; one probe, and no prediction from a place
  outside the world; the history is bounded.
- Scenario engine and actions: each step's controls reach the frames of its ticks and no
  others; repeats are exact; packets are sent once and keep their distance; press and release
  of the jump key alternate; bounded scripts finish.
- Configuration: what it accepts can be run; names fit and sort; headings are distinct.

## Modules

| Module | What it is |
| --- | --- |
| `Supervisor.tla` | abstract contract: workers are started while up, and the supervisor stops only when none is alive |
| `Fleet.tla` | `Run`, `finishFleet` and the exit code; bots abstract |
| `BotLife.tla` | abstract bot: what a fleet may assume of one |
| `Instance.tla` | `runInstance` and its goroutines |
| `FleetBots.tla` | `Fleet` with bots that are `BotLife`'s, and the goroutines that run them |
| `Movement.tla` | `playerState` between tick goroutine, reading goroutine and server, for chunk-walk and chunk-fly |
| `Config.tla` | the command line and the scenario file, as operators |
| `Scenario.tla` | a scripted bot: from the arguments through the runner and its actions to the frames |
| `ScenarioHolds.tla` | `Scenario` with a count of the frames each action is in |
| `FleetProofs.tla`, `FleetBotsProofs.tla`, `InstanceProofs.tla`, `MovementProofs.tla`, `ScenarioProofs.tla` | the theorems about these, with their proofs |
| `PredictionProofs.tla`, `ConvergenceProofs.tla` | more theorems about `Movement`: what its loops compute, types, acknowledgements, the rewind; and that prediction converges |
| `DataInduction.tla` | induction over numbers and sequences, for the loops of `Movement` and of what a script says in `Scenario` |
| `MCFleet.tla`, `MCInstance.tla`, `MCFleetBots.tla`, `MCMovement.tla`, `MCScenario.tla`, `MCScenarioHolds.tla` | the instances TLC checks |

The abstractions form a chain: `Instance` implements `BotLife`; `FleetBots`, made of `Fleet`'s
supervisor and `BotLife`'s bots, implements `Fleet`; `Fleet` implements `Supervisor`.

An operator whose name starts with `Mut` is never used by a specification. It is a plausible
bug, stated next to the definition it would replace, which breaks a property that the runs
check; `PROJECT.json` pairs them up.

### Fleet

`pc` is where `Run` is: `start`, the launch `loop` and `launch`, `stagger` (the select with the
timer), `await` (the second counting loop), `active` (the last select), then `finishFleet`:
`cancel`, `drain`, `report`, `shutdown`. A select is a choice among its ready cases, as in Go. Every
`Emit` may fail; `outputFailed` remembers it. `Propagate` is a step of its own: the child
context is cancelled after its parent, and `Run` looks at the parent. A bot is `idle`,
`connecting`, `ready` (`OnlineAt` set, about to report), `online` or `ended`; it may return an
error at any moment, and nil only when its context is done and it is not between the two
halves of coming online. The code's loop over `cfg.Count` and the timer's duration become
nondeterminism: the timer may fire at any moment. The aggregated statistics are left out.

`Supervisor` forgets channels, contexts and timers. `ImplementsSupervisor` maps `pc` to up,
stopping or stopped, and the bots to workers alive or ended.

### Instance

`pc` follows `runInstance` from dial to its deferred calls, which are steps of their own because
other goroutines run between them. The closer (`bot.go:141-152`) and the tick goroutine
(`bot.go:224-226`) have their own states. The connection is `open`, `lost` (the server went away;
writes may still be buffered) or `closed`. Packets matter by kind only: radius, chunk, other. A
frame is accepted by the connection first and counted afterwards, which is what makes the
counters interesting.

`BotLife` is what `Fleet` assumes. `ImplementsBotLife` shows that `Instance` keeps to it: returns nil
only when cancelled, never between `OnlineAt` and the report, reports once it is ready, ends
once it is cancelled. The stages of errors map to the exit codes' kinds (`ErrKind`).

### FleetBots

In the code a bot's goroutine calls `runInstance` and then sends its result (`fleet.go:120-124`);
`Fleet` makes one step of both. `FleetBots` has them apart: `life`, `told` and `err` of each bot
follow `BotLife`, `SendResult` comes later, and `bot` keeps its meaning in `Fleet`, "ended" once the result is in
the channel. `ImplementsFleet` says that the composition behaves as `Fleet`, its fairness included, so the
supervisor needs no more of its bots than `Instance` shows. `PendingResultStands` says why: what a goroutine
has in hand stays true until it is sent. The temporal properties of the fleet (a bounded number of launches
after a signal, shutdown, the announcement, the contract of `Supervisor`) are checked of this composition.

### Movement

Each method of `playerState` holds its mutex, so each is one action. Methods that one handler
calls in a row are separate actions: `inputSnapshot` then `recordPrediction` (`tick.go:377`, `441`),
`correctPrediction` or `update` then `syncServerTick` (`bot.go:341-347`), and the two reads of
`NewChunkFlyAction`. Everything between `recordPrediction` and `WritePacket` touches no shared state,
so these are one action. A position is a distance along the bot's heading and an altitude, in
steps of one tick. Places need not be valid: a `MovePlayer` or a correction to one outside the world is stored and
leaves the bot without an authoritative position, as `tick.go:97-100` and `144-147` do.

The server is external. It is given the powers that the code's handlers and comments speak of:
it applies a frame's movement or refuses it, corrects a bot that moved and is not where the
server has it, ignores frames until a teleport is acknowledged, moves a bot without a teleport,
and sends its tick, abilities and publisher blocks whenever it likes. A publisher packet of
the model stands for the second of two at one block, the one the code acts on. One teleport is
outstanding at a time. Both directions of the connection are ordered and reliable.

The publisher names a block (`bot.go:305`), `BlockSize` steps each way. `BlockOf` is the block of the server's
position, and `PublisherEye` is what `publisherEyePosition` makes of it: the middle of the block, eyes
`EyeOffset` above its bottom. So a seeded bot starts up to half a block from where the server has it, and `seed`
remembers what has become of that:

- `unseen`: the server has processed no frame of the bot that moves. The bot may be quiet, ready and not where the
  server has it, and no correction is due. `SeedIsNear` bounds how far off it is.
- `seen`: the server has processed such a frame, and has the bot where the frame says or has sent a correction.
- `unheard`: the server refused such a frame and had the bot at the very place the frame claims, so it
  corrected nothing, while the bot's prediction went on from a place of its own. No position is promised then.
  A server that corrects whenever it refuses would not do this.
- `none`: the position is not the publisher's, or a `MovePlayer` has replaced it since.

The loop of `correctPrediction` is the recursive functions `Kept` and `Replay`: what is kept, and where the
bot is, after so many rounds. `missed` remembers that a correction was replayed while `Missing` held: a
later frame moves the server's bot, and the history does not tell, because the frame is half made, or is
the probe (which moves the packet and not the bot), or had no room in the history.

### Config and Scenario

`Config` translates the checks of `ParseConfig`, `Load` and `validateStep`. The actions that `validateStep` has a
case for are the list in `Supported`; those of the factory, `newConfiguredAction`, are the cases of `KindOf` in
`Scenario`. The code has these two switches and nothing that keeps them alike; `AcceptedRuns` compares them. A
command is a record of flags, a
text is whether it is given and how many runes it has, a file is absent, broken, or a name and
steps. Headings are kept in units of 1/count degree, so that the division is exact.

`Scenario` starts with `Parse`, the step of `main`. For an accepted command the state is a bot's tick
goroutine: `pc` follows `runTickLoop` (the settle delay, the first frame of chunk-fly, `begin`, `ticker`,
`frame`). `RunnerTick` is
one `Runner.Tick` with everything in it: the action's `Tick`, which may write a packet and fail, the
decrement of `repeat`, and `Replace`, which creates the next action and runs its `Start` in the same tick. `SendFrame` is
the rest of the tick. The reading goroutine's `Teleport` and the cancellation come between the two.
An action is one record whatever its kind: its step's arguments, `elapsed`, `over`, `sent`, `cooldown`. The
controls of `playerState` are one record too, which each action changes as its setters do, leaving the other
fields alone; that is what `FrameShowsScript` is about. The loop compares names, so a file named chunk-walk or
chunk-fly gets the delay or the early frame of the built-in scenario; both are in the model. The
built-in chunk-fly ends at `begin`, where `Movement` takes over.

The reference for `FrameShowsScript` and `RepeatsExact` is `Wanted`: it computes from the script alone which step each
tick belongs to, by adding up lengths, without the engine's counters. The lengths are the code's: the question of
`FrameShowsScript` is what of one step gets into the frames of another. Whether a hold lasts as long as its step asks
for is the question of `HoldLastsItsTicks`, in `ScenarioHolds`, and the answer is no (finding 7).

## What the runs check

| Run | Instance | Result |
| --- | --- | --- |
| `FleetSafety` | 3 bots | type invariant and five safety invariants hold, 3.05 million states |
| `FleetSignal` | 2 bots | finding: a signal may end with exit code 1 |
| `Instance` | 3 packets, 2 inputs | four invariants, refinement of `BotLife`, one action property, three liveness properties, 174 thousand states |
| `InstanceGrace` | 2 packets, 1 input | finding: nil without the grace period |
| `InstanceCancel` | 2 packets, 1 input | finding: cancellation during preparation is an error |
| `Movement` | walk and fly, ticks 0..3, 2 acts of the server | six safety invariants, the type invariant and one action property, 6.6 million states |
| `FleetBots` | 2 bots | one invariant, bounded launches after a signal, two liveness properties, refinement of `Supervisor` and of `Fleet` with liveness, 66 thousand states |
| `Scenario` | 892 command lines, scripts of up to three steps | six safety invariants, the type invariant, two action properties, one liveness property, 310 thousand states |
| `ScenarioJump` | the same | finding: a jump followed by a jump is not released |
| `ScenarioHolds` | the same | finding: a hold that follows another step is in a frame too many |
| `MovementReplay` | walk, ticks 0..4 | finding: a correction may miss the frame in flight |
| `MovementFrameIds` | walk and fly | finding: frame ids may repeat |

### Bounds, and why they are enough

- `Count`: every counter of `Fleet` is bounded by it, nothing else is. With three bots one can be
  online, one ended and one not launched yet, and two results can meet in the channel, which is
  where order and the choice of the first error matter. The safety properties are proved for
  every `Count`; liveness is checked with two, in `FleetBots`.
- `MaxPackets = 3`: coming online takes two packets in either order; the third lets the main
  goroutine look at `tickErr` when online. `MaxInputs = 2`: one frame counted, one in flight. All
  later frames behave as the second.
- `MaxTick = 3`, `MaxEvents = 2`: four frames, two acts of the server of its own accord (a
  refused frame, a move, a sync...), besides the corrections these cause. `HistoryLimit` is 3
  instead of 256 and `RetryTicks` 2 instead of 40, so that both are exceeded. Altitudes are scaled
  to -3..5 with the same order: placeholder above the world, target between the minimum and the
  maximum. The server has three places: one below the target and one at it, neither at the middle of its
  block both ways, and one outside the world. A block has three steps (`BlockSize`; 0.32 blocks in the code) and
  eyes are at its third (`EyeOffset`), so that middle, corner and eyes differ. `TicksOver` marks the end of
  the bounded run: any other
  state without a step is a deadlock TLC would report.

- `Scenario`: `MCScenario` takes the default command line with one or two flags changed, on both sides of each
  limit of `ParseConfig` (ports 0, 1, 65535, 65536; counts 0, 1, 2, 9, 10, 99, 100, 101 with names of 0 to 17 runes; ...);
  files with one step, valid or wrong in one way; all scripts of two and of three steps out of a choice
  with every kind of action, with ticks 0, 1, 2 and repeats 0, 1, 2, 3. A step can disturb the next
  one through the controls and the one after that through what the next left alone: three steps
  show both. `Cooldown` is 2 instead of 5. `MaxTicks = 18` is longer than the longest bounded script, so
  that `ScriptFinishes` is never met by the bound; unbounded scripts run into it, which `Over` marks.
  Movement and speed are integers.
- `FleetBots`: two bots, one between its return and its send while the other does anything.

### Fairness

- `Fleet`: weak fairness of the supervisor's goroutine, of the context's propagation, of a ready
  bot's report and of a cancelled bot's return. Goroutines are scheduled, timers fire, and that a
  cancelled bot ends and a ready one reports is what `Instance` shows. Nothing makes a bot come
  online, nothing makes it fail and nothing makes the signal arrive.
- `Instance`: weak fairness of the three goroutines' steps, of the timeouts of dial and spawn (part
  of `Main`), of the grace period and of the read deadline. No packet is ever owed.
  `ReadError` and `TickStop` have strong fairness: each competes in a select with a case that comes
  and goes (a packet, a tick), and a random choice takes a case that stays ready in the end.
- `FleetBots`: for the supervisor as in `Fleet`; for each bot as in `BotLife`, which `Instance` implements; and a
  goroutine whose `runInstance` has returned goes on to send.
- `Scenario`: weak fairness of `Parse` and of the tick goroutine's steps together: the process runs on and the ticker
  ticks. Cancellation and teleports are never owed.
- `Movement` has no liveness properties: whether a bot gets anywhere is the server's choice.

### What the checks found

1. `FleetSignal`. After a signal, `Run` may receive the result of a bot that ended because of the
   signal before it sees the signal, and take it for one that "exited while the fleet was active": exit
   code 1 where the README says 0 (`fleet.go:183-187`, `207-211`, `229-233`).
2. `InstanceGrace`. Cancelled during the loading screen, `runInstance` returns nil without waiting for
   the closer (`bot.go:189-193`), which comments at `bot.go:24-30` and `146-148` ask for.
3. `InstanceCancel`. The writes of the preparation do not look at the context (`bot.go:184`, `196`,
   `203`), nor do action packets (`tick.go:512`): a cancelled bot may end with an error.
4. `MovementReplay`. A correction handled between `inputSnapshot` and `recordPrediction` loses the step
   of the frame in flight. One such loss is corrected in time; two can cancel out, so that the
   server has nothing to correct while the bot thinks it is a step away.
5. `MovementFrameIds`. The first nonzero server tick is taken whatever it is (`tick.go:192`), so a bot
   that has sent frames sees its clock go back and repeats their ids.

6. `ScenarioJump`. When a jump is repeated or followed by another jump, `Runner.Tick` starts the next one in
   the tick in which the ended one lets go (`runner.go:73-84`), so the frame in between still jumps and there is
   no release, which the comment at `actions.go:116-117` promises. The bot holds the key throughout.
7. `ScenarioHolds`. The same replacement sends a frame with the new action before that action's first tick. A
   hold of N ticks (`actions.go:33`, `78`, `116-117` and `README.md:135` say for how long) is in N frames when
   it is the first step,
   and in N + 1 when it follows another.

`BotIsWhereServerHasIt` therefore excludes runs where one of these came up (`rewound`, `missed`) or
where the server moved the bot without a teleport (`displaced`), which is a position nobody
acknowledges. It also leaves out a bot whose position is still the publisher's guess (`seed`, see Movement
above). `OneRewind` says how far the rewind goes: once per run.

## What is proved

Everything is proved from the assumptions on the constants that the modules state, and TLC
evaluates those assumptions on its instances.

| Module | Theorem | Says |
| --- | --- | --- |
| `FleetProofs` | `TypeCorrect` | `TypeOK` is invariant, for every `Count` |
| | `OnlineCorrect` | `FleetOnlineMeansAllOnline` is invariant |
| | `ChannelsCorrect` | `SendsNeverBlock` is invariant |
| | `CollectCorrect` | `EveryBotCollected` is invariant |
| | `FirstErrorCorrect` | `FirstErrorIsReported` is invariant |
| | `CleanExitCorrect` | `CleanExitMeansSignal` is invariant |
| | `LaunchesCorrect` | `OneLaunchAfterSignal`: at most one launch follows the signal |
| | `SafetyRefinement` | every step of the fleet is a step of `Supervisor`, or a stutter |
| `FleetBotsProofs` | `PendingCorrect` | `PendingResultStands` is invariant |
| | `BotsRefineFleet` | every step of `FleetBots` is a step of `Fleet`, or a stutter |
| | `SafeWithBotLife` | the invariants of `Fleet` hold of `FleetBots` |
| `InstanceProofs` | `TypeCorrect` | `TypeOK` is invariant, for all bounds |
| | `GraceCorrect` | `GraceWaited` is invariant |
| | `InputStops` | `NoInputAfterReturn` holds of every step |
| | `CountersCorrect` | `FinalCounters` is invariant |
| | `OnlineCorrect` | `OnlineOrOnDeadline` is invariant |
| | `LifeRefinement` | every step of `Instance` is a step of `BotLife`, or a stutter |
| `MovementProofs` | `RequestsCorrect` | `RequestsStart` is invariant, for every retry interval |
| | `TeleportsCorrect` | `TeleportNotLost` is invariant |
| `PredictionProofs` | `TypeCorrect` | `TypeOK` is invariant, for every world, history limit and bound |
| | `ProbeCorrect` | `ProbeIsOneShot` is invariant, with places outside the world too |
| | `AcksCorrect` | `AckStandsStill` holds of every step |
| | `RewindsCorrect` | `OneRewind` is invariant |
| `ConvergenceProofs` | `ConvergenceCorrect` | `BotIsWhereServerHasIt` is invariant |
| | `SeedCorrect` | `SeedIsNear` is invariant, for every size of a block |
| `ScenarioProofs` | `TypeCorrect` | `TypeOK` is invariant, for every script and cooldown |
| | `FactoryCorrect` | `AcceptedRuns` is invariant: the factory has a case for all that the validation accepts |
| | `JumpsCorrect` | `JumpFlagsPair` holds of every step |
| | `PacketsCorrect` | `PacketsSpaced` holds of every step |
| | `RepeatsCorrect` | `RepeatsExact` is invariant, for every script |
| | `WritesCorrect` | `PacketsOnce` is invariant, for every script and cooldown |
| | `FramesCorrect` | `FrameShowsScript` is invariant, for every script and cooldown |
| | `NamesCorrect` | `NamesAligned` is invariant, for every prefix and count |
| | `HeadingsCorrect` | `HeadingsSpread` is invariant, for every count and base yaw |

None of these invariants is inductive by itself.

The assumptions are what the code fixes: limits and retry intervals are positive, eyes are in their
block, and the altitudes a flight may aim for (128 to 256) lie within
`chunkFlyValidMinY..chunkFlyValidMaxY`. The convergence proof needs the last: a bot that climbs to its target must not
become one whose place is not valid. Of places nothing is assumed but of the placeholder, which does not lie in
the world (`bot.go:301`: its Y is about 32768). Base yaws are integers: the model measures angles in whole
degrees, and headings in parts of one.

*Fleet.* The argument adds, in four parts:

- *Launches.* Bots `1..launched` have left `idle` and the others have not; `pc` tells how `launched`
  compares with `Count`. This bounds `launched` and lets `Launch` name the next bot.
- *Online reports.* `onlineCh` holds distinct bots, all in `onlineAt`, none of them recorded, and
  `onlineCount` is the number of recorded bots. Hence a count of `Count` means every bot, and the channel is
  never longer than the number of bots past `ready`.
- *Results.* `results` followed by `resultCh` names exactly the ended bots, each once. Hence the length
  of both together is the number of ended bots: there is room for one alive, and a drain of `launched` results
  leaves none alive.
- *Errors.* `firstErr` is tied, phase by phase, to the results collected, to `outputFailed` and to the
  signal: nil in the drain means a signal and clean results so far.

Counting needs only that the sequences have no duplicates and that their elements lie in a
finite set; lemmas about appending to and taking the head of such a sequence are stated once
and cited. `SafetyRefinement` uses the first three parts: when `pc` reaches `returned`, the ended bots are all
launched ones.

`LaunchesCorrect` fixes the number n of bots launched when the signal comes: from then on `AfterSignal(n)` is
kept, which says that n + 1 bots are launched only by a loop that had passed its check.

*FleetBots.* The invariant of `Fleet` is reused as it is: a step of the composition either is the
supervisor's, with the same `bot`, or a step of a bot, where `bot` and `life` agree until the result is
sent. `BotsInv` says how they agree. That a report finds room in `onlineCh` is a lemma of
`FleetProofs`, needed here because `RunStep` asks for room and `Fleet`'s `BotReport` does too.

*Instance.* `CountInv` says which of the frames accepted is not counted yet, by the step the tick
goroutine is at. `PathInv` follows the connection and the closer along the main goroutine's steps: once the
main goroutine returns without an error after the preparation, the closer is done. `LoadInv` says how
far the loaded counters may lag. `OnlineInv` and `SelectInv` tie the deadline, the online flag and the reported state
to the place of the main goroutine, which is what the mapping to `BotLife` needs.

*Movement.* `FlightInv`: a queued transition exists only between a request and the next snapshot, and no
retry falls due in between, since the tick counter has just been reset and `RetryTicks > 1`. `TeleportInv`: an
acknowledgement that is owed is in one of four places, and each step hands it on to the next; the
channels are described by the sets of their elements only.

*Types and ticks of `Movement`* (`PredictionProofs`). `TypeInv` adds to `TypeOK` which scenarios a control goes
with. `Replay` adds one delta per round, so its type is an induction over the rounds, and so are the lemmas
that `Kept` is a subsequence with later ticks only and that a replay adds the `Displacement` of the
predictions. `RewindInv` says that ticks advance among the predictions made before the clock went back, and among those
made since, whose places are R: up to the first server tick there is one run, and only that tick may start another.
`Unready` is behind `ProbeCorrect`: until the bot is told a valid position it holds an invalid one, its frames and
predictions are level, and those of a flying bot rest; a correction to an invalid place replays level predictions, which
leave it at an altitude that is as invalid.

*Convergence* (`ConvergenceProofs`). Where the bot is and where the server has it may differ by
everything that is on its way, in two channels with the handlers of two goroutines in between, so the
invariant says how they differ. It does so in layers, each proved with the ones before it, all under `Steady`: nothing that the
property excludes has happened.

- *Order.* The ticks of predictions and of frames on their way advance, up to the clock, and corrections on their way are
  older than every frame on its way, and in order. Hence a correction leaves the predictions of frames the
  server has still to see.
- *Mirror.* For every frame on its way, the predictions after it add up to what the frames after it will add on
  the server. Otherwise a correction for it would count as missed.
- *Unstirred.* Before the first input tick nothing is on its way that moves or corrects, and a publisher packet
  names the block of the server's place, or a `MovePlayer` follows it. So a seed is never of a place
  that the server has left.
- *Handshake.* Bot and server agree on no teleport, or one is told (on its way), noted, or answered by a
  frame which stands still at the place the server has the bot at. A teleport to a place outside the world may be
  noted by a bot that the publisher seeds afterwards; it is then answered from near by.
- *Waits.* A bot without an authoritative position is corrected at the altitude the server has it at, since
  only teleports lead out of the void.
- *Chains*, for a bot that the server told where it is. The frames that count are those on their way, or those
  after the acknowledgement the server waits for.
  `Ends` is where they will take the server's bot. Frames only move the bot ahead, or, when it climbs or
  descends to its target, in one direction (`up`). So the bot is never behind `Ends`; the corrections on their way take it
  back step by step, each not behind the next, and the last of them leaves it exactly at `Ends`, as it
  is when no correction is on its way. This order is why a bot that was corrected is not corrected past the server's place, and
  why frames that the server refused cannot cancel out. When nothing is on its way, `Ends` is the server's place and the
  property follows. Frames made in the void (`Void`), where a walking bot goes on from the placeholder, are outside the
  order: where they say the bot is, the server never has it.
- *Seeds*, for a bot that the publisher seeded. It may start behind the server's place, so the order does not hold; but the
  last correction on its way takes it to `Ends`, and while there is none it is at `Ends` already or has not been
  corrected, and is then as far from `Ends` as its seed was (`SeedAlong`). When nothing is on its way,
  this is `SeedIsNear`.

`Kept` and `Replay` are recursive functions, and the library's induction theorems take a predicate, which the
provers cannot instantiate. `DataInduction` states induction with a set instead: a subset of the
naturals has a least element (from the well-foundedness of <), so the set of the n at which a
recursive function does not have the value claimed is empty.

*Scenario.* `RunInv` has three parts: the script is valid (`ScriptValid`); the runner stands at a step of it or is
done, and a built-in action never ends (`Placed`); types, with `elapsed` no greater than the clock and a sent packet
still cooling down (`Typed`). The last is why no action that is done stays current. `Waited` adds that the last
packet's age and the ticks left of its cooldown make up the cooldown. `JumpKept` says that `lastJump` is the last
frame's.

*What a script asks for* (`ScenarioProofs`). `Executions`, `Offset`, `Wanted` and `Due` say from the script alone
which step runs when, what the frames show and which packets are due. They are recursive functions over scripts of any length,
unfolded one step at a time with `DataInduction`. The engine is tied to them in layers, each proved with the ones before it:

- `Counted`: what the runner has created is `Until(Script, index, n)`, all executions of the steps before `index` and
  n of that one, n being the repetitions taken; when it is done, all `Executions`. Since
  `Until` grows by what a tick creates and always begins `Executions`, `RepeatsExact` follows.
- `PacketsOnce` is inductive with `Counted`: a tick that creates a packet step adds it to `Due`, and it is the one
  not yet written until its action is ticked.
- `Timing`: the clock is the `Offset` of the current execution plus the `Age` of its action, which is less than the
  execution's length, and the controls are those its action holds, or neutral. An action is done exactly when its age
  reaches that length, which is the offset of the next. Here it matters that a replaced hold is released before
  the next one starts, so that nothing of it stays in the controls.
- `Sent`: the last frame was made from the present controls, unless it acknowledges a teleport. Executions do not overlap,
  so at most one of them is `Shown` at a tick, and `FrameShowsScript` follows.

*Names and headings* (`ScenarioProofs`). `Configured`: a configuration is what `ParsedConfig` makes of an accepted
command line. Numbers up to 100 have at most as many digits as the width of the fleet's names, which therefore have one
length. A wrapped heading differs from base + 360 (i - 1) / count by whole turns; two bots with the
same heading would be a multiple of count apart.

## What is only model-checked

- Liveness, in `Fleet`, `FleetBots`, `Instance` and `Scenario`, and so the fairness half of the refinements: TLAPS does
  not reason about `ENABLED`.
- What the runs with `expect: violation` show, which are counterexamples.

Every safety property that a passing run checks is a theorem.

## What is not modelled

- The contents of events, statistics sums, chunk spans and telemetry: no control depends on them.
- Directions of headings in the world, camera, the other input flags, float32 rounding and the altitude
  tolerance of 0.05.
- The decoding of flags, JSON and YAML, which is the libraries'. Numbers are integers: that YAML
  can give NaN, which passes every comparison of the validation, is listed as a hazard.
- Wrap-around of 64-bit ticks.
- `action.Sequence`, which only tests use.
- gophertunnel and go-raknet beyond an open, lost or closed connection, and Bedrock Dedicated Server
  beyond what the handlers allow for.
- Whether a flying bot ever climbs and travels: it needs the server's confirmation and its position, which
  nothing in the code makes it send.

## Plan

Done: the chain of refinements from `Instance` to `Supervisor`, `Movement`, `Config`, `Scenario`, and the proofs listed above.
Left:

1. `Movement` with the controls of scripted moves, which walk by speed and direction, so that prediction and
   scripts are checked together.
2. The refinement of a reader's view of a scenario (the sequence of executions with their ticks) as a module of its own.

To check a model, run TLC on an `MC` module with the configuration of that run, for example
`tlc -config MCFleetSafety.cfg MCFleet`; to check the proofs, `tlapm FleetProofs.tla`.
