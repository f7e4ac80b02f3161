# ScrcpyForge: specifications, model checking and proofs

ScrcpyForge is a daemon that keeps scrcpy sessions to Android devices, shows
their screens to clients and runs Lua scripts on the frames.  This directory
holds TLA+ specifications of its concurrent core, the TLC configurations that
check them on small instances, and proofs that the TLA+ proof system checks for
every size of instance.

Paths below are relative to `src/`; `session.rs`, `manager.rs` and `lua.rs` are
in `crates/forge-core/src`, `main.rs` is the daemon's,
`crates/forge-daemon/src/main.rs`.

## The system

| part | state | operations | talks to |
|---|---|---|---|
| Session registry, `DeviceManager` (manager.rs) | map serial -> session, map serial -> start lock, `stopping_all`, `start_epoch`, `stop_all_gate`, device list | `start_session`, `stop_session`, `stop_all_sessions`, `session`, `sessions`, `scan`, `pair` | daemon handlers and poller call it; it creates and shuts down sessions |
| Frame demand, `FrameHub` (session.rs 195-492, 634-776) | lease and request counts, preview mode, script slot, activity state, deep-idle flag | acquire/release of leases, `begin_script`, attach/detach, `activity`, the idle hook | leases of HTTP handlers, Lua worker, ticker, reader, decoder |
| Video pipeline (session.rs 1140-1367, stream.rs) | channel of 8 packets, `reader_demand`, resume anchor, codec, observed epoch | reader task, watcher task, decoder thread | reads the demand and its epoch, publishes into the hub |
| Script slot (session.rs 255-260, 652-679, 719-870) | generation, sender, throttle, metrics | attach, detach, publish, record | decoder publishes, Lua worker receives |
| Script runs (main.rs 1252-1319, 1402-1413, 1599-1726; lua.rs 42-399) | registry of runs, cancel flag and wake-up of each | start, stop (by id, by serial, all), reaper, the worker's loop | registry of sessions, script slot |
| Auto-start (main.rs 338-450) | set of serials stopped by hand | poll, ensure sessions | registry of sessions, scan |
| Session life (session.rs 921-1025, 1408-1449, 1645-1672, 1825-1860) | startup guard, `alive`, `cleanup_started`, server process, forwards | connect with retries, rollback, shutdown, idle stop, drop | adb |
| Input writer (session.rs 1368-1407, 1451-1494) | queue of 16 batches | send with timeout, write, fail | control socket |
| Packet framing (stream.rs 49-141) | pending config, last config, last keyframe | `read` | socket |
| ADB and discovery (adb.rs, manager.rs 242-360) | output budget, time of the last mDNS probe | commands, scan, pair | adb process |
| Vision policy (lua_vision.lua, in forge-core/src) | one track per target, a table of places, the state file | process a frame, restore, save | frames, input |
| Template cache (cv.rs 75-299) | decoded images, their stamps, order of use, bytes | load, and the save of a template | Lua workers, daemon |
| HTTP API, templates, desktop, cli, web page | views and files | requests | all of the above |

What is hard here: every HTTP handler is a task whose future may be dropped at
any await; the decoder is a thread; the hub is read and written by all of them
through separate atomics; sessions die by themselves (stream end, codec failure,
deep idle) while handlers hold references to them.  `PROJECT.json` lists the
hazards one by one at the line where they bite, with the properties that cover
them; a hazard without one says why.

What makes each part correct:

* registry: one session per serial at most, none lost, none overwritten; a stop
  wins over the starts it overlaps; every call returns that no silent server keeps.
* demand: who is served finds the session active; who is not does not keep it so;
  an unused session is stopped, a used one is not.
* pipeline: the codec is fed an unbroken chain; a resumed session shows a frame;
  everything ends with the session.
* scripts: a run that is registered can be stopped and is fed, and the frames and
  metrics of one run never reach another.
* life: server and forwards are released exactly once, however the session ends.
* input: a batch is performed once, and a caller who is told it was refused can
  rely on that.
* auto-start: what was stopped by hand stays so, what is plugged in is served.
* vision: a target is not clicked again once its click was done, until it has been
  gone, and is looked for only where it was really learned.
* templates: no load gives an image older than the file was when it began, and the
  cache stays within its budget.

## Modules

| module | models | runs |
|---|---|---|
| `SessionRegistry` | what the registry promises, in atomic steps | `sessions` (as `ImplementsRegistry`), `autostart` |
| `SessionManager` (+ `MCSessionManager`, `_proofs`) | the registry | `sessions`, `sessions_live`, `sessions_fence` |
| `HubActivity` (+ `MCHubActivity`, `_proofs`) | the demand side of the hub | `activity` |
| `VideoPipeline` (+ `MCVideoPipeline`, `_proofs`) | reader, watcher, channel and decoder | `video`, `video_resume` |
| `AutoStart` (+ `MCAutoStart`, `_proofs`) | poller, scans and the handlers that start and stop | `autostart`, `autostart_stop` |
| `ScriptRuns` (+ `_proofs`) | registry of runs, handlers, workers and script slot | `scripts` |
| `InputWriter` (+ `_proofs`) | input queue and writer task | `life` |
| `SessionLife` (+ `MCSessionLife`, `_proofs`) | startup and end of a session, with its input | `life` |
| `VisionPolicy` (+ `_proofs`) | an engine of the vision policy and the state file | `vision` |
| `TemplateCache` (+ `MCTemplateCache`) | the cache of decoded templates | `templates` |

How they are composed: `AutoStart` runs over `SessionRegistry`, which
`SessionManager` is proved to implement, so what holds of the daemon's handlers over the
abstract registry holds of them over the real one.  `SessionLife` extends
`InputWriter` and shares `alive` and the sender with it.  Elsewhere a part appears
in another's module as its effect: connecting and shutting down in `SessionManager`
are what `SessionLife` has in detail; sessions in `ScriptRuns` come and go as
`SessionManager` lets them.

### SessionManager

A process is one call in flight: `start_session`, `stop_session`,
`stop_all_sessions`, `session` or `sessions`.  Its steps are the stretches between
the points where another task can come in: an await, a `std` mutex, an atomic
load or store.  Program counters are named for the code that comes next
(`"connect"`, `"publish"`, `"drain"`).  A lock and a session are `Arc`s, so they
have identities (`Locks`, `Sessions`), and the model counts references exactly
where the code does: `prune_start_lock` compares `Arc::strong_count` with two,
which is `OnlyCallerRefers`, and the last reference to a session runs its `Drop`
(`Dropped`, `GiveBack`, `DropHand`).  A call may be cancelled at each of its
awaits (`Cancel`): then exactly the destructors of its locals run, `StopAllFlag`
included, and nobody prunes its lock.  A start reads the flag, the epoch, the flag
and epoch again after the lock and once more under the map's write lock; the last
two pairs are one step each (`StopAllOverlaps`), for the flag is stored after the
epoch and a pair of loads decides what one instant would.  `Die` stands for the
ends a session can come to by itself, `Borrow` for the handlers and scripts that
keep a reference.  `overtaken` is a history variable: what a start was overtaken
by.  Callers are tasks of the multi-threaded runtime; sequential consistency of
the acquire/release atomics is assumed, and `alive`, which is relaxed, is only
ever cleared.

### HubActivity

Demand is four separate things read one after the other under the activity lock
(`LoadNext`, with the short-circuit of `||`), while the threads that change it
take the lock only after the change.  A consumer is in `"announce"` between its
change and the refresh that follows, `"in"` once its call has returned,
`"withdraw"` after its release.  A run is a generation: `begin_script` gives the
slot a new one, so `scriptRun` is the run whose generation it holds, or `None`.
`mark_active` is two steps, around its lock.  `activity()` is a refresh, a second
acquisition of the lock for the decision, and the hook after it.  Time is
`idleFor`: 0, 1 (idle grace over), 2 (deep idle).  One thread changes the preview
mode at a time (`Setter`) and one shuts down or stops scripts (`Stopper`): bounds
of the model.  The epoch, `latest` and the notification belong to VideoPipeline.

### VideoPipeline

Packets are numbered as the device sends them; a keyframe decodes alone, a delta
only after the packet before it.  The three tasks step at each access to what
they share: the demand, `reader_demand`, the anchor, the channel, the epoch.
`moved` says why the epoch differs from the one the decoder has observed
(`"suspend"` or `"reconnect"`), which abstracts the counter to what the
properties tell apart.  The hub is here the three-state machine whose refreshes
HubActivity has in detail.  `era` (suspensions so far) and the fields `live`,
`era` and `fed` of packets and codec are history.  FFmpeg is external: it accepts
a packet, gives no frame yet, fails, or cannot be initialised.  A packet yields
at most one frame; the frames of one packet would be published by the same steps
again.

### SessionRegistry, and the refinement

A serial has a session or none, and a call has a *role*: what it may still do to
the registry.  `Register`, `Stop`, `Clear` and `Prune` are each one step; a
`Fence`, the beginning of a stop-all, takes the role of every start away.  Under
the mapping in `SessionManager`, a session in the map is registered, a live one is
`live`, and a start has its role for as long as it can still publish: from the
reading of an epoch that is still current.  So the locks, the flag, the epoch and
the gate are exactly the means by which a start, a stop and a stop-all are atomic to
their callers.

### AutoStart

A *worker* is the polling task or a handler in flight; it has at most one *task* for
each serial, as the `JoinSet`s of the code have.  `scan()` is the scan gate, an
optional mDNS probe, `adb devices` and the snapshot; the sweep after it drops blocks,
spawns tasks as permits come free, and each task re-checks the blocked set
(`Check`), looks the session up and starts it (`Start` to `Open` or `Abandon`, under
the serial's start lock).  `StartAll` unblocks by one snapshot and starts by another,
as main.rs:845-860 does.  A request may be dropped at any time (`Cancel`).  Devices
are plugged in and out, sessions die with them and by themselves.  `stopped` and
`sealed` are history: serials whose manual stop has returned, and those of them that
nothing was about to start when it did.

### ScriptRuns

`wpc` is the worker thread of a run, `pc` a handler.  The script slot of a session is
its generation, sender, demand and metrics; its mutex makes each operation on it one
step.  A run's channel is a `watch`: one value and whether it was seen.  A
handler's locals include the `LuaRun`, whose `Drop` cancels the run
(`AbortHandler`).  Frames are numbers; the throttle may hold any of them back.
`Resume` is the loss of `latest` when a suspended session is used again.  The three
checks of the generation in start_script are `Attach`, the guard of `Register` and
`Superseded`.  A callback is one state, in which it may return, fail or be
interrupted.

### InputWriter

A batch stands for one call of `send_input`; `sent` counts its messages that the
socket has taken, `reply` is its oneshot channel.  The writer looks at `alive` before
every message and in every step of a delay; a failing batch ends the session.  A
caller may time out, and its future may be dropped; neither takes its batch back.

### SessionLife

`connect()` goes through `pc`: push, two forwards, server, two sockets, header,
commit; each stage may fail, and the future may be dropped at each await (`Awaits`).
`guard` is what the `SessionStartupGuard` has to roll back, `loose` the ports that
`connect()` itself has in hand, which nobody else will remove: a port between the
effect of `adb forward` and its tracking, and those `rollback()` has drained.  The
end of a session is claimed by one of `shutdown()`, the deep-idle hook and `Drop`
through `cleanupStarted`; `cleaner` is what the claimant's cleanup has still to do.
`Drop` needs that nobody refers to the session (`Referred`): neither the registry
(`held`) nor a script's worker, which keeps its `Arc` for its whole run (`borrowed`,
main.rs:1617 and lua.rs:141-166), nor a call in flight.  It takes the sender
out, without which the hub's hook would keep it.  A forward that is `Lose`d is out of
the model: `NothingForgotten` says that nothing else can be left behind.

### VisionPolicy

One `engine:process(frame)` is one step: the delayed click that is due, then the
search, then the click without delay.  The code calls the script's own functions for
each of these anew, so a frame has an answer for each: what comes of an action before
the search (`first`), whether the target is active when it is looked for (`active`),
and what comes of an action after it (`second`).  An action is off, tried (it
declined or raised) or done.  A match is a place and a size; two matches at
one place are within the tolerance, two of one size within the ratio.  `Begin` is
the reset on a frame of another size, `Placed` is `update_track`, `Hit` and `Miss`
the two branches after the search.  Engines share the state file and nothing else,
so one is modelled frame by frame and another one by its writes (`OtherSaves`).
Times count down.  `clicks`, `gone`, `streak` and `learned` are history, kept from
the frames and actions and not from the track; `clicks` counts what is tried from the
first action on that was reported as done.  An action that raised is not done for the
engine, but it may take place: a tap behind a long gesture times out at
session.rs:1489, the engine counts a failure (lua_vision.lua:520-523) and taps the
target again, and the input writer performs both.  So the code does not promise one
tap for each appearance, and no property here says so.

### TemplateCache

A load is the steps that other threads can come between: the stamp of the file, the
lookup, the decoding without the lock, the second lookup with the insertion.  The
contents and the stamp of a file are both its version, so the decoded image may be
newer than the stamp it is kept under, as in the code.  The colour pyramids are
modelled, keyed by file and mode; the gray images have a cache of the same code with
one mode.  `began`, the version the file had when a load began, is history.

## Runs

Bounds are in the `.cfg` files.

* `sessions`: three calls and the poller, one serial, two locks and two sessions,
  one stop-all.  Two locks are needed for a pruned lock to be replaced while a
  waiter has the old one; two sessions for one to be dead in a hand while another
  is alive in the map; three calls for a start, another start or stop of the same
  serial and a stop-all.  One serial suffices because calls on different serials
  meet only in the flag, the epoch and the gate, which are there.  The identities
  are symmetric, and no liveness is checked with the symmetry.
* `sessions_live`: two calls and the poller on two serials, so that a call that hangs
  on one can be seen not to stop those on the other.  Fairness: a task that can run is
  polled eventually (weak), `tokio::sync::Mutex` serves its waiters in order
  (strong fairness of the acquisitions), the daemon's poller calls `sessions()`
  again and again (main.rs:377).  Cancellation, new calls and deaths have none, and
  neither has the end of `connect()`: its reads of the name, the codec and the first
  header (session.rs:1101-1112) have no timeout, so a server that accepts and stays
  silent keeps the start lock of its serial.  `CallsReturn` says that starts and stops
  of that serial are all that waits then.  `SmallStep` bounds the run: a new lock is
  the first free one (the others are the same renamed; symmetry would not be sound
  for liveness), handlers keep no sessions, a stop-all is made when at most one
  serial is in use.
* `sessions_fence` (violation): the comment on `start_epoch`, manager.rs:31-33.
  A start that loads the epoch after the bump and re-checks the flag before it is
  raised connects through the drain and inserts its session after the stop-all.
  Starts whose epoch was loaded before the bump are fenced: `StopAllWins` in the
  run `sessions`, and a theorem.
* `activity`: one preview client, one frame request, one run, the setter, the
  stopper, the ticker; `MaxBusy`, three of them in the hub at once: one that
  refreshes, one that has changed the demand meanwhile, and a third that is between
  a detach and the late `mark_active`.  Deadlock is checked.  Fairness as in the code:
  the ticker polls every second while the session lives, time passes, a thread in the
  middle of an operation goes on, the activity lock is held for a few instructions
  (strong fairness of its acquisition).  No consumer is obliged to come or to leave;
  `UnusedIsStopped` is about those behaviours in which all have left for good.
* `video`: a channel of capacity two and three packets: a keyframe and two deltas,
  with the channel full before the last, or fewer with a suspension, which costs one of
  the packets (`Budget`); codec failures included.  That is enough for a packet to be
  lost, repeated or overtaken between a fed keyframe and its deltas.  `SteadyChain`
  is about chains that start with a live keyframe; one that a replayed anchor started
  has a gap by design.  `TasksEnd` is checked in the same run: the tasks are fair, and
  the socket of a session that is no longer alive is closed (its shutdown kills the
  server).
* `video_resume` (violation): a suspension and a resume that fall between two
  looks of the watcher leave a static screen without a frame for as long as it
  is watched, against ARCHITECTURE.md:33-35.  It is a temporal property under the
  same fairness; the device may stop sending, so the run does not check deadlock.
* `autostart`: the poller and a handler on two serials, two sessions, two permits.
  One device, `Steady`, stays attached and is not stopped by hand, the other comes and
  goes, is stopped and blocked: a start of the one must not take from the other what
  it needs.  Fairness: the poller polls for ever (main.rs:338-382), its acquisitions
  of tokio locks are strongly fair, and a scan that is tried again and again succeeds
  at last - the part that is not the daemon's.  Of starts nothing is assumed:
  `connect()` may fail, or never end on a silent server.  Since the poller waits for
  all the starts of a scan (`join_next`, main.rs:449), one such server ends the service
  of every device; `DevicesAreServed` names this exception and says there is no other.
* `autostart_stop` (violation): the comment at main.rs:429-430.  The re-check of the
  blocked set and the start are not one step, so a stop between them is undone, and
  the session stays.  What does hold is `StoppedStaysStopped`.
* `scripts`: one session, two runs, two handlers, one frame.  Two starts, or a start
  and a stop, overlap in every way, with the decoder, both workers, the reaper and
  the end of the session.  `Stop` is strongly fair, for the wake-up is stored and
  the worker's `select!` takes it at last though its rescan timer fires too.  A
  callback ends, for the hook gives it five seconds (scripts that catch the hook's
  errors for ever are left out), but the source is run without a deadline (lua.rs:281;
  it is set at lua.rs:344): loading is fair for a cancelled run only.  A source that
  loops at top level outlives a shutdown of its session, which cancels nothing, until
  its run is stopped.
* `life`: two attempts (one that is rolled back, one that may succeed), two ports,
  one caller of shutdown beside the hook and `Drop`, two batches of one and two
  messages over a queue of one.  Code has three attempts and sixteen places; a third
  attempt repeats the second.  Fairness: futures are polled, every adb command and every
  attempt to reach a socket has its timeout; the reads of the header have none and
  need not end.  The control socket only answers for certain once the server is dead.
* `vision`: two places, two sizes, two screens, two hits to learn, two misses to arm
  again, delay and wait of one, and every combination of answers of the script's
  functions in a frame.  Each number is the least at which "one" and "enough"
  differ.  `rearm = "disappear"`, the default: with `"timer"` the code promises no
  more than the wait.  Histories are finite sets or capped, so the run is exhaustive.
* `templates`: two files of up to three versions, two modes and two threads; a budget
  of three, where an image at one scale takes one, a pyramid two, and the pyramid of
  the second version four, more than the whole cache.  So images are evicted, replaced
  by larger and smaller ones and refused.  Files and threads are symmetric.

Every property of a passing run has a mutant in its module, defined just before
the definition it changes (`SameLock`, `CancelKeepsFlag`, ...): a slip that code of
this kind could have, which the property catches.

## Proofs

Every safety property that a run checks, invariant or action property, is a theorem
too, those of `templates` excepted, and so is the refinement; each is proved from an inductive invariant.  All are
for arbitrary sets of calls, serials, locks, sessions, consumers, runs, ports,
batches, screens and places, and any capacities, delays and bounds, under the named
assumptions of the modules: the kinds of identity are distinct, and the bounds are
numbers, a capacity, a number of permits, of attempts or of hits a positive one.

### SessionManager

`SessionManager_proofs` proves every safety property of the run `sessions` from
one inductive invariant, a conjunction of parts:

* `TypeInv`: types, and which program counters have a serial;
* `LockInv`: a call past the cloning of the lock refers to the lock that is in the
  map (a clone keeps the count above two, so nobody can prune it), and one past
  the lock holds it.  Two calls past it therefore hold one lock: `Exclusion`;
* `StopAllInv`: the gate has an owner whenever a stop-all is past it, the flag is
  up only for such an owner, and from the drain on the map is empty;
* `EpochInv`: the epoch of a start is at most the current one, and below it once
  it was overtaken.  So the comparison at the end of a start fails: `StopAllFences`;
* `HandInv`, `SlotInv`: what a call may have in its locals, and that while a start
  holds the lock past its lookup nothing else fills its slot: `NoOverwrite`;
* `LiveIsReachable` is then inductive: `NoLeak`;
* `OwnInv`: a session is in the map once, what is about to be published is in one
  hand, and what was taken out to be shut down is not in the map.

Neither exclusion nor the emptied map is inductive alone: the first needs the
reference discipline, the second the flag that `Publish` finds raised.

`Refinement` takes each step of the code to a step of `SessionRegistry` or to none.
The mapping has three components, the map, the sessions of the map that live, and the
roles; a lemma for each kind of registry step (`BeginsRole`, `EndsRole`, `KillsOne`,
`PrunesDead`, ...) says when a step of the code is one, and a lemma for each group of
calls applies them.  The steps that need the invariant are `Publish`, which fills
an empty slot for a role that no stop-all has taken (`SlotInv`, `EpochInv`); the
shutdown of what a call has taken out, which must not be a death in the map
(`OwnInv`); and the bump of the epoch, which is the one step that is a `Fence` and
takes many roles at once.  The reading of the epoch is where a start begins its role,
so a start that reads it after the bump is not fenced: the violation of
`sessions_fence` is allowed by the specification, and the theorem does not hide it.

### HubActivity

`ServedIsActive` is proved with `LoadInv`: what the thread that holds the activity
lock has already seen absent stays absent among the *served* consumers, for one that
comes later needs that lock before it is served.  The decision to stop is then taken
in a state where nobody is (`DecidedWhenUnused`: a theorem about
`StopDecidedWhenUnused`, which no run checks by itself).

### VideoPipeline

The capacity of the channel, `SuspensionResets` and `SteadyChain` are proved.  Both
of the latter speak of the moment a delta is decoded only.  `SuspensionResets` is
strengthened by

* `FlightInv`: every packet in the reader's hands, in the channel and in the
  decoder's hands was read in the current era or before, and media packets are
  numbered from one (that tells a codec that was fed from none);
* `CodecInv`: a decoder without a codec awaits a keyframe, and a codec whose epoch
  no suspension has moved was started in the current era.

A delta passes the comparison of the epochs only while no suspension is pending:
the codec then is of the current era, and the delta of it or an earlier one.  A
suspension between that comparison and the decoding changes neither.

`SteadyChain` is about a *line* of packets: at its head the packet the decoder holds,
or the last one its codec was fed (`ChainEnd`), behind it the channel, and then the
packet the reader has or would read now.

* `LineInv`: each live packet of the line follows the live one before it (the next
  number if both are of one era and the first is no session packet), and the reader's
  follows the last of them.  Replayed anchors may stand anywhere between them.
* `ChainHeld`: what the decoder holds follows what its codec was fed, and the
  decoder that awaits a keyframe has no live chain.
* `GapInv`: this is why a discarded packet is no gap.  While the session is suspended,
  and still while the reader is about to discard, no live media packet of the current
  era is in the line, nor on its way into it past the swap of the demand.

Sending a replayed keyframe changes none of the links between live packets
(`AppendReplayed`), sending the reader's packet adds one (`AppendRead`), receiving
moves the line up (`MoveUp`), and a codec that is fed the packet at the head asks no
more of what follows than the packet did (`FedWeaker`).

### SessionLife and InputWriter

`InputWriter_proofs` has lemmas only: `InputWriter` has no specification of its own,
it is a part of every session, and each of its steps keeps

* `QueueInv`: a batch is queued at most once, and before anything of it was written;
* `WriterInv`: the writer has a batch just at the points where the code has one in a
  local, and has not answered it before it is over;
* `AnswerInv`: a batch whose reply was dropped, or whose call was refused, has left no
  trace in the queue, at the writer or on the socket; one that succeeded was written
  whole.

`SessionLife_proofs` adds `BeforeUp` (nothing uses or ends a session that is not up),
`StartInv` (what the startup guard and `connect()` have in hand at each point) and
`EndInv` (who has claimed the cleanup, and what is left of it), and proves all six
safety properties of the run `life`.  `RemovedOnce` and `NothingForgotten` are
inductive only together with them: at each point where a future can be dropped, the
forwards of adb and the server are what guard, hand and cleaner name.

### ScriptRuns

The link between a run and its session is the generation (`GenInv`): a run has one that
its session gave, no other run has the same, and a run that is done is behind.
`SlotInv` says that the run in a slot is of the current one.  `DemandHasRun` and
`NoOrphanRuns` are then inductive, and so is `RegisteredIsFed` (`ListedIsFed`): a
run is listed after its `attach`, and whatever takes its sender or its demand away
afterwards moves the generation past it (`FedInv`, which has the run that is about to
be registered in it too).  `MetricsOfOneRun` needs `MetricsInv`:
no callback without a frame, and no frame before `attach` has reset the metrics, so
a run that was fed while its generation is current has them for itself.
`NoLateFrame` is an action property from the same invariant.

### AutoStart

`StoppedStaysStopped` is proved from `SealInv`: a serial that was stopped by hand while
nothing was about to start it has neither a start under way nor a session.  Each step
that brings a task past the re-check finds the serial blocked; the sets the steps
sweep over do not matter.

### VisionPolicy

A frame takes the track through `Begin`, a `Finish`, `Hit` or `Miss`, and a second
`Finish`; there is a lemma for each on `Once` (an action is pending for an armed
target only, a target is armed only while nothing was done since it was gone, and one
that is not armed counts no more misses than it was gone for) and on `Known` (a place
that restricts the search is learned, and before that the hits are matches in a row).
`NothingAfterDone` says nothing of what was tried before an action was done, nor of
`rearm = "timer"`, which makes no such promise.

### Only model-checked

* The liveness properties `CallsReturn`, `DeadArePruned`, `UnusedIsStopped`,
  `SpuriousActivityEnds`, `TasksEnd`, `DevicesAreServed`, `RunsEnd` and
  `EverythingReleased`: fairness and ENABLED are out of the proof system's reach.
* `CacheIsExact` and `NeverStale`.  `CacheIsExact` sums the sizes of what is cached, by
  a fold over a set, about which a proof would need induction.
* The three properties of the runs that expect a violation, which are false.

No theorem needs induction over data, and no module has a recursive operator.

## Plan

The parts are modelled, and nearly all their safety properties proved.  What is left, in this
order:

1. The seams between modules, as refinements: the hub of `VideoPipeline` is the
   three-state machine that `HubActivity` has in detail, and a session that dies or is
   shut down in `SessionManager` is what `SessionLife` has in detail.
2. `VideoPipeline`: what a chain that starts with a replayed anchor can promise, which
   `SteadyChain` leaves out; the line of the proof has the anchors in it already.
3. The rest of the poller: the end of the daemon, with the final stop-all.
4. `TemplateCache`: `NeverStale` as a theorem, from the fact that an image is never older
   than the stamp it is kept under.
5. Config packets and their merging, if the framing is to be modelled at all.

## Not modelled

* Image matching, beyond its cache, and the FFmpeg wrapper: numerical or foreign code without states of
  interest.
* Two saves of a template that agree in length and in time of change, which the cache
  would not tell apart: `TemplateCache` takes stamps to differ.
* The HTTP layer's parsing and files, the desktop client, the command line and the
  web page: clients of the operations modelled.
* The end of the daemon: a poller that is in the middle of a sweep when the final
  stop-all runs may open one more session, which dies with the process.
* Real time.  A timeout may fire at any moment at which its answer is not there; how
  the timeouts compare (half a second for input, eight for a socket, five for a
  callback) is not looked at.  tokio's cooperative budget, which could make an
  uncontended await yield, is taken not to.
* The merging of config packets (stream.rs:97-125) and the output budget of adb
  (adb.rs:281-316): sequential code that a test can reach all of.
* The throttle's choice of frames, the counters of the vision policy, configured ROIs
  and the grouping of searches.
* Two sessions of one device in `scripts`: a stop that looks the session up after it
  was replaced may detach a run of the new session that has the same generation
  (main.rs:1722), which ends like a superseded one.
* What an engine's save does to another engine's places (lua_vision.lua:127-145) is in
  `VisionPolicy`, but no property claims them safe: the last writer's table wins.
* A lease that comes back within the idle grace costs the decoder its codec
  (session.rs:415-416), against the doc comment at session.rs:473-475; `VideoPipeline`
  has the step and only shows that it is safe.
