# A TLA+ model of trollshell

trollshell is a desktop shell for the Niri compositor: GTK views on one thread,
and below them a tokio runtime on which thin clients of system daemons, a D-Bus
layer and a host for out-of-process widget plugins run.  The views hold no state
worth a proof.  What is below them does: tasks that are supervised and
restarted, a shared connection that is lost and reopened, a bus name that others
want too, plugin connections that come, hang and go while sharing ids, cards and
datasources, plugins launched as systemd units, Wi-Fi backends switched under a
running panel.  This directory models those parts, checks them with TLC on small
instances and proves the main invariants with TLAPS for all sizes.

Paths below are relative to the repository; `PROJECT.json` has the exact lines
every definition stands for.

## 1. Inventory

### Supervision (`crates/hytte-reactive/src/supervisor.rs`, `health.rs`)

* *State*: per task the loop's position, its `Backoff`, the `watch` channel
  behind a `SupervisorHandle`, the join handle of the current run; one
  process-wide health table of rows found by id but pruned by name.
* *Operations*: the five `spawn_supervised*` entry points, `cancel`, `stopped`,
  dropping the handle; a run that returns, panics or is aborted; the table's
  `register`, `run_started`, `panicked`, `returned`, `stopped`.
* *Hard*: a cancel in any window of the loop (between runs, mid-run, in a sleep,
  in a zero-delay loop); `stopped()` against a run that still unwinds; siblings
  under one name; two counters for one streak.
* *Correct when*: `stopped()` means over, a cancel stops, a panic restarts,
  nothing else ends supervision, and the table shows each loop as it is.

### Shared bus connection (`crates/hytte-bus/src/connection.rs`)

* *State*: the cached connection with its generation (under a lock), the epoch
  (after it), the epoch's `watch`, one `Notify`.
* *Operations*: `with_conn`, `with_conn_tagged`, both invalidation tails, and
  `supervisor_loop`, which reopens.
* *Hard*: an operation that fails late, after the connection was replaced;
  several that fail at once; a loss between install and `notified()`.
* *Correct when*: a late failure never clears a newer connection, each loss is
  reported and woken for once, none is slept through, a failure heals.

### Name ownership (`crates/hytte-bus/src/own.rs`)

* *State*: the broker's owner, a bounded subscription to `NameOwnerChanged`, a
  request in flight, the loss tally, the published `OwnNameState`.
* *Operations*: connect, subscribe, `RequestName`, `GetNameOwner`, watch for the
  loss, back off, give up and wait for the release, cooldown.
* *Hard*: signals of earlier owners in front of our own; a release between the
  refusal and the wait; the connection dying in each window; a full queue that
  blocks the reader which must bring the reply.
* *Correct when*: `Owned` is true, a give-up is woken by a release without the
  cooldown, a name left alone ends up ours.

### Plugin host (`trollshell/src/plugins/`)

* *listener.rs*: the accept loop with its gate of unregistered connections, and
  the take-over of the socket (lock, probe, unlink, bind).
* *session.rs*: one task per connection: handshake, claim of the id
  (`live_ids`), generation, registration, then a `select!` of reader, render
  flusher and liveness ping, then the teardown.  Beside it a writer task and
  push tasks for level state (`push_latest`), pages and the audio spectrum.
* *region.rs, mod.rs*: mailboxes of cards and panels keyed by plugin id and
  generation; the runtime mirror keyed by id alone.
* *datasource.rs*: providers of each datasource in line, pending queries with a
  timeout each, the admission that lets an answer skip the effect bucket.
* *effects.rs*: the broker that carries effects out on the GTK thread.
* *Hard*: a plugin that redials before its old connection is torn down; a reader
  that panics past the teardown; writers that die first; a provider that reads
  nothing; the last frame of a burst; a hung peer.
* *Correct when*: one connection per id, no card or mirror entry of a dead one,
  no query unanswered or answered twice by its provider, the newest frame shown,
  every permit returned.

### Audio spectrum tap (`session.rs`, `crates/hytte-services/src/audio_native/`)

* *State*: a `SpectrumGate` per connection over one process-wide counter, a
  command channel to the PipeWire thread, the capture of its current session.
* *Hard*: the counter and the command it calls for are two steps of different
  threads; sessions end and panic with commands queued.
* *Correct when*: demanded means running, undemanded means gone.

### Plugin launcher (`trollshell/src/plugin_launcher.rs`, `control.rs`, the control centre's `plugins_tab.rs`)

* *State*: none of its own but a lock (`CONVERGE_LOCK`) and a flag
  (`RELOAD_UNLISTED`).  It reads `plugins.json`, the overrides file, the
  settings and the keys, and the user manager's units, and makes the last agree
  with the others.
* *Operations*: the reconcile at startup, on a change of `plugins.json` and on a
  poke; `StartPlugin`, `StopPlugin`, `SetPluginEnabled`, the restart for a Save
  and for a key; per unit stop, wait, relaunch with a fallback to `StartUnit`.
* *Hard*: the files change while a pass works from what it read; units crash,
  stop slowly and come back by `Restart=`; listing, stopping and launching fail
  one by one; a switch flipped twice sends two persists and two applies; a
  toggle is given up by the control centre and goes on in the shell.
* *Correct when*: once all is quiet, what is on runs and what is off does not,
  from the newest declaration, settings and key; nothing stopped is revived;
  a pass that saw nothing is made up for; everything gets quiet.

### Wi-Fi service (`crates/hytte-services/src/wifi/`, `wifi_backend.rs`, `wifi_nm.rs`)

* *State*: the committed backend (`LiveSlot`), what commands dispatch on, what
  the panel shows, an exported secret agent and its registration in
  NetworkManager, a subscription with a bounded buffer.
* *Operations*: the probe, commit, the watch and its recheck, `tear_down`, the
  registrar's loop, the restart of the task after a panic.
* *Hard*: a switch is five awaits long, two of them with a grace period; an
  abort lands later than asked for; NetworkManager restarts, or our connection
  is replaced, and the registration is gone or refused; the stream has holes.
* *Correct when*: one backend runs and is shown, no agent is registered that
  nobody serves, the service ends on the daemon that is there and its agent
  registered.

### Not concurrent, or not modelled

Configuration (`hytte-config`), drawing (`hytte-ui`, `hytte-preem`, `hytte-gl`),
the wire encoding (`hytte-plugin-proto`), sensors, the EDS binding, the control
centre, the agent window, the Claude bridge and the plugins themselves are view
code, pure functions over data or programs of their own; most services project
D-Bus properties.  `PROJECT.json` lists each with its reason.  These have
behaviour worth a module and are planned (section 7): the socket take-over,
level pushes, the launcher's watcher of missing keys, the property watchers, the
optimistic toggle, the SDK's dial loop.

### How the parts interact

Every service and the bus itself run under the supervisor and use the shared
connection; the name ownership task subscribes on it.  A plugin connection
claims an id, parks frames through its pacer into the mailboxes the GTK thread
reconciles, joins the line of a datasource, and demands the tap when its card is
on screen.  Its teardown undoes these in order, and the panic of its reader
skips them.  The launcher starts the processes behind those connections and
never looks at the connections; the control centre asks for its operations over
the control endpoint.  The Wi-Fi service's task, watchers and registrar are
supervised tasks, and a switch relies on `cancel` and `stopped`.

## 2. Modules

| module | models | checked by | proofs |
|---|---|---|---|
| `SupervisedTasks` | what the supervisor promises | as a property of `Supervisor` | |
| `Supervisor` | `supervise_runs`, handles, the health table | `MCSupervisor` | `SupervisorProofs` |
| `BusLink` | what the shared connection promises | as a property of `SharedConnection` | |
| `SharedConnection` | `connection.rs` | `MCSharedConnection` | `BusProofs` |
| `OwnName` | `run_ownership` against broker and peers | `MCOwnName` | `BusProofs` |
| `SpectrumTap` | gate, counter, channel, capture | `MCSpectrumTap` | `SpectrumTapProofs` |
| `ProviderLine` | joining, leaving and dropping closed providers | used by the next two | |
| `PluginHost` | accept loop and connections with their shared state | `MCPluginHost` | `PluginHostProofs` |
| `DatasourceRouter` | queries, timeouts, answers | `MCDatasourceRouter` | `DatasourceRouterProofs` |
| `RenderPacer` | render gate, flusher, ping, end of a session | `MCRenderPacer` | `RenderPacerProofs` |
| `PluginLauncher` | passes under the lock, units, files, the tab's toggles | `MCPluginLauncher` | `PluginLauncherProofs` |
| `WifiSwitch` | probe, watch, switch, registrar, agent registration | `MCWifiSwitch` | `WifiSwitchProofs` |

`PluginHost` and `DatasourceRouter` share `ProviderLine`: the first composes it
with connections, the second with queries.  `RenderPacer` is one connection of
`PluginHost` seen from inside: what there is "a frame is parked" is here the
gate, the bucket and the flusher.

### State and actions against the code

* **Supervisor**.  `pc[t]` is the await `supervise_runs` is at; an action is
  what the loop does from one await to the next, so a cancel can come between
  any two.  `run[t]` is the join handle, `row[t]` the health row, `cancelled`
  and `dropped` the two ways a `watch` changes.  `AbortLands` separates asking
  for an abort from the run being over.  `healthy` in `RunPanicked` is
  `HEALTHY_RESET` against the run's length, left open.
* **SharedConnection**.  Generations stand for connections; `conn = None` is an
  empty cache.  `Install`, `BumpEpoch`, `Announce` are the three writes of a
  reopen, apart because other threads run between them.  An operation captures
  generation and connection in one step (one lock) and fails later; `Invalidate`,
  `Report`, `Notify` are the three statements of its tail.
* **OwnName**.  The broker (`owner`, `signals`) is external; `arrived` says how
  many signals the socket reader has published, `before` how many stand before
  the reply.  Each action is one await of `run_ownership`; the stream is dropped
  where the code leaves its scope.  Log lines are left out.
* **SpectrumTap**.  `edge[c]` is a counter move whose command is not sent yet.
* **PluginHost**.  `pc[c]` walks the phases of `handle_conn` and `serve_conn`;
  each step of the teardown is its own action, in the code's order.  `Panic`
  goes from serving to unwound: only the guards' destructors run.
* **DatasourceRouter**.  `task[q]` is the spawned forward, `pending` and
  `timers` the table and its timeouts, `queue[g]` the outbound of a connection,
  `flight` the results that plugins have emitted.
* **RenderPacer**.  The three arms of the `select!` are three sets of actions.
  `tokens` are whole tokens; `Refill` is time.  `owed` is the permit `Notify`
  stores.
* **PluginLauncher**.  The queue's head holds the lock; a pass goes through
  reading and listing, then works its plan unit by unit, one action per call to
  the user manager.  Contents of files are numbers that only grow, so that
  "newest" is a comparison; a unit remembers from which declaration, settings and
  key it was launched.  `excused`, `overlooked`, `stale` and `owed` are kept for
  the properties alone: they name the units about which a call failed, a listing
  was missing, or the code documents that it looks away.
* **WifiSwitch**.  A life is one start of a backend, with its watcher and
  registrar, so an old one can outlive its switch.  `wire` is the calls to
  NetworkManager in the order of the connection, `sub`, `items` and `lagged` the
  broadcast channel behind `NameOwnerChanged`.  `Retire` to `Start` are the
  awaits of `tear_down`.  Kept for the properties alone: `loose`, the lives whose
  switch ran out of patience or panicked, and `missed`, changes that were made
  while nothing was subscribed or about which a probe's failed queries misled.
  A probe takes the set of its two queries that fail (`deaf`): what the other
  one names is believed (`Verdict`), that there is nothing is not (`Conclusive`).
  A caller may give a call up (`CallExpires`, `UnregisterExpires`, the 25 s of
  `CallBuilder::send`) and the call stays on `wire`: who waits, waits for the
  last call of its life, and hears the answer of no earlier one.  `CallBuilder`'s
  one retry after a lost connection is left out, as `Cut` says: on the new
  connection an `Unregister` has nothing to remove, and a `Register` is what the
  registrar does next by itself.

## 3. Runs

State counts are those of the passing runs; all take less than two minutes.

| run | asks | states |
|---|---|---|
| `supervisor` | three tasks under one label, one of each kind | 61 880 |
| `shared_connection` | three operations against the supervisor | 69 348 |
| `own_name` | two peers and one name | 62 530 |
| `spectrum_tap` | three subscribers, restarts, a panic, a build failure | 29 223 |
| `plugin_host` | three dials by up to three plugins, two permits | 235 164 |
| `datasource_router` | two queries, two providers that come and go | 108 382 |
| `render_pacer` | three frames, a burst of two, a peer that may hang | 18 328 |
| `plugin_launcher` | two plugins, files that change, calls that fail | 587 451 |
| `wifi_switch` | daemons, reconnects, a panic, overruns, deaf probes, timeouts | 332 190 |

What they show:

* `supervisor`: `StoppedMeansOver`, `TableTellsTheTruth`, `StreakMatchesBackoff`
  in every state; `CancelStops` and `PanicRestarts` always come about; the loop
  implements `SupervisedTasks`.
* `shared_connection`: `OnlyOwnConnectionIsCleared`, `LossReachesSupervisor`,
  `OneWakePerLoss`; `FailureHeals`; it implements `BusLink`.
* `own_name`: `OwnedIsTrue`; `ReleaseIsNoticed` without the cooldown's help;
  `QuietNameIsOwned`, which after a denial waits as long as the code does.
* `spectrum_tap`: `UnwantedTapIsDown`, `TapIsReleased`.  The opposite direction
  does not hold: see the findings.
* `plugin_host`: `OneConnectionPerId`, `CardsAreOwned`, `MirrorTellsTheTruth`,
  `LineIsTheProviders`, `NoOvertaking`, `DialsAreAnswered`.
* `datasource_router`: `AnswersComeFromTheProvider`, `ResolvedOnce`,
  `ExemptionsWerePaidFor`, `EveryQueryIsSettled`.
* `render_pacer`: `NewestIsOwedOrParked`, `LastFrameIsShown`,
  `HungPeerIsDropped`.
* `plugin_launcher`: with the lock free and nothing pending, `OnIsUp`,
  `OffIsDown` and `RunsTheNewest`; in every state `BlindPassIsOwed`; no step
  breaks `NoRevival`; `GoesQuiet` always comes about.
* `wifi_switch`: `ShownIsTheBackends`, `OneBackendRuns`, `AgentIsServed` in every
  state; `SettlesOnTheDaemon` and `AgentIsRegistered` come about and stay.  The
  run reaches a registered agent that nobody serves: `AgentIsServed` says that
  the `Unregister` which ends this is then the last of our calls on its way.

Each property has a mutant in the module it is about: the form of a definition
that a plausible bug would give it, with which TLC finds the property violated.

### Findings

Three runs check one statement of a comment each, which the code does not meet.

* `spectrum_tap_race` (`session.rs:117`): two connections cross the counter's
  edges, the commands reach the channel in the other order, and the tap stays
  down while it is demanded.
* `datasource_router_twice` (`datasource.rs:380`): a forward that waits on a
  full queue past the timeout sends a second result when the queue closes.
* `plugin_launcher_crash` (`plugin_launcher.rs:1827`): a pass leaves a
  `deactivating` unit of a plugin that is off alone; if it was deactivating after
  a crash, `Restart=` brings it up again and nothing looks.

### Other gaps met while modelling

They have no run of their own.  Where a property would meet one, it is named in
an exception of that property, never left out of the model.

* `wifi/mod.rs:1055`: the start-up probe is answered before
  `watch_for_daemon_changes` has its match rule (`Probe`, `Watch`,
  `DaemonStarts`, and only then `Subscribes`): the daemon that starts in between
  is in neither, and since only a renewed subscription announces itself
  (`signals.rs:467`), nothing looks again until another daemon changes.  The same
  window costs a registration when it is NetworkManager that restarts.  This is
  `missed`.
* `wifi/mod.rs:868`: a recheck that cannot ask drops the change; the code
  documents that it waits for the next one.  Also `missed`.
* `wifi_backend.rs:138`: "a positive hit in whichever list answered is
  trustworthy on its own", and the test
  `iwd_in_activatable_wins_even_if_owned_query_failed` says so, but "NM wins when
  both are present" needs the answer of both: with `ListNames` failed and iwd
  activatable, the probe commits iwd, or switches to it, while a NetworkManager
  that is not activatable runs, and nothing looks again until another daemon
  changes.  Also `missed`.
* `wifi/mod.rs:784`: an `Unregister` that is not answered within 25 s is logged
  and the agent's object unmounted, so NetworkManager may call an object that is
  not there until it carries that call out.  The comment above it names this
  as what the `Unregister` is there to prevent; `AgentIsServed` names the
  interval.
* `wifi_nm.rs:1770`: a registrar that outlives its grace period and is aborted
  between withdrawing and registering again leaves the next backend's agent, of
  the same connection, unregistered until the next wake.  This is `loose`.
* `session.rs:1680`: a reader that panics drops its `IdGuard` and never reaches
  `unregister_provider`; the entry holds the datasource until the same plugin
  registers again, while `datasource.rs:151` says every entry belongs to a live
  connection.  `LineIsTheProviders` names it (`panicked`).
* `loop_.rs:335`: after PipeWire restarts, the tap stays down until the count
  passes zero again.
* `own.rs:1026`: a give-up against one holder, then a refusal by another, then
  success: the log line that the name is inert is never retracted.
* The launcher: a Save or a key rotation answered "not running" while the unit
  is crash-deactivating leaves the old settings or key in what `Restart=` brings
  up; `start_via` and `relaunch_for_secret_via` take an unreadable
  `plugins.json` for one that declares nothing; `StartPlugin` and `StopPlugin`
  do not consult the persisted switch, so an edit between a switch's two calls
  loses; a `StartUnit` of an id that is no longer declared revives a transient
  unit that is still stopping; when a newer toggle's persist fails after it
  superseded an older one, "on" is kept and nothing is started.

## 4. Bounds

A bound is a constant in the guard of the action it limits, never a constraint
on the side, and deadlock is checked except where a system may stop
(`CHECK_DEADLOCK FALSE`: supervisors that all left, connection generations used up, queries
all answered, a session that is over, a launcher and a Wi-Fi service with
nothing more happening to them).

* *Supervisor*: `MaxPanics` lets the cancellable task go past the backoff cap
  (initial 1, cap 3), so capped and resetting delays meet every ending.  Three
  tasks are one of each kind; only the rows of a name relate two of them.
* *SharedConnection*: four generations let an operation be late by more than
  one; two failed attempts before an open; three operations let two race while
  a third holds an old connection.
* *OwnName*: three signals in flight are an earlier owner's, ours and the
  release; `MaxQueued` is above that in `own_name`, so that run does not have
  the blocked reader.  `PermanentAfter` 3 and `MaxTally` 4 let the tally
  saturate.
* *SpectrumTap*: two restarts, one panic, one failed build, three queued
  commands.
* *PluginHost*: three dials are the least with an incumbent, its redial and a
  competitor; two permits let the gate be full; one fault at a time.
* *DatasourceRouter*: queues of one are full at once; two connections in all
  (`MaxConnections`) let a provider come back or another one stand by; two
  answers are one and its repeat or another plugin's.
* *RenderPacer*: three frames tell shown, waiting and new apart, two with a
  panel and one without; a burst of two can be spent and partly refilled; two
  misses are the code's `MAX_MISSED_PONGS`; `MaxPings` saturates and is above
  the limit.
* *PluginLauncher*, *WifiSwitch*: the things outside that can happen are many,
  and each costs states, so a run starts from one of several scenarios, each
  saying how often each may happen (`Scenarios`, spent by the guard of the action
  itself).  The launcher's combine edits, switches, Saves, keys, pokes, crashes,
  failures and given-up toggles by twos and threes, for a declared plugin and one
  with a static unit.  Wi-Fi's are three changes of daemons with a reconnect; two
  with a panic and a deaf probe; two with a reconnect and an overrun grace
  period; one with two reconnects and a deaf probe; two with a deaf probe and two
  calls given up, the registration and the `Unregister` of one switch; one of
  each of these with a reconnect.  A deaf probe is one or both queries failing,
  the one way to switch away from a NetworkManager that never stopped.
  `Capacity` 1 makes every second item a hole.

## 5. Fairness

* The runtime polls every task that can go on (`WF` on loops, flusher, ping,
  sends, lookups), and sleeps and timers end: that is tokio's contract.
* An aborted run reaches an await (`AbortLands`): documented by the supervisor
  as what `stopped()` waits for.
* A bus that can be opened again and again is opened at last (`SF` on
  `Install`, `Connect`, `Ask`): without it reconnecting is not promised.
* `SF` on accepting a dial: `accept(2)` may fail in between, and the permits of
  the connections that say nothing come back by `REGISTER_TIMEOUT`.
* The launcher's passes go on, the lock is fair and the watch ticks (`WF` on
  `Work`, `Turns`, `Watching`); a wait on a unit ends by its own timeout, so
  nothing is asked of units.
* NetworkManager answers and sees a name go, an abort lands, a subscription is
  made, the registrar and the Wi-Fi task run (`WF` each).
* A refused name is asked for again: the wait after a denial (`own.rs:1221`) is a
  sleep of five minutes and ends as one (`SleepEnds`).  Of the cooldown of a
  give-up, which has the same length, nothing is asked (`Cooldown`): there the
  release has to wake the task.
* Nothing is asked of callers, peers, plugins, units or daemons, nor of a run to
  end, nor of a queue to fill up.

## 6. Proofs

All are about `Spec` with no bound on the constants beyond the modules' named
assumptions (finite sets of connections, numbers in `Nat`, the kinds of tasks).

* **SupervisorProofs**.  The invariants speak of the loop's ends, which says
  nothing of the step before; `PhaseInv` gives row and run at every position
  and, with `OneReturnedRowPerName`, is inductive.  From it `TypeCorrect`,
  `StoppedSafe`, `TableSafe`, and `Refinement`: under the mapping of live runs to
  `working`, each step is one of `SupervisedTasks` or a stutter.
  `StreakIsBackoff` needs the recursive function from a streak to its delay:
  its values up to a streak exist, and any two such functions agree, both by
  induction on a set of numbers (`NatSetInduction`, from the library's
  well-founded sets: its induction rule over an operator is out of reach).
* **BusProofs**.  `CycleInv` says where the loss of the newest
  connection is at each point of the supervisor's cycle (with an operation, in
  the permit, being reopened), `EpochInv` relates the three counters.  From them
  `NoLostWake`, `OneWake`, `RetractionOrdered`, `EpochOrdered`,
  `OwnConnectionOnly`, and `Refinement` to `BusLink`.  The name is proved about
  in the same module, by what is still unread at each await (`NameIInv`).  While
  the task claims the name, by the broker's answer or by its own state, at most
  one loss of ours is unread, and on a live connection one is unread exactly when
  the name is gone; while it does not, none is, so that no claim begins with an
  older one's loss in front of it; `ChangesOnly` (a signal is a change of owner)
  keeps the signal of our own gain from reading as a loss.  From this
  `NoLossMissed`.
* **SpectrumTapProofs**.  `CountExact` needs cardinalities of a set that changes
  by one; `NoUnwantedTap` needs that the last command on its way is an off when
  nobody demands, for any order of the sends.
* **PluginHostProofs**.  Generations identify connections (`Identity`); with it
  `OneConnection`, `CardsHaveOwners` and `MirrorIsTrue` are inductive together
  and none alone: the mirror, removed by id, is right only because ids are
  exclusive.  `LineHolds` and `NobodyOvertakes` are about a sequence from which
  entries are removed.  `ProviderLine` therefore writes `Vec::retain` by the rank
  of the entries that stay, and `Thinned` says what both properties need of it:
  an increasing map from the new places to the old ones.  Generations are what
  makes `Closed`, a set of generations, spare every provider whose writer runs.
  `PermitsComeBack` counts: permits, the loop's hand and the unregistered dials
  add up to the gate at all times, which with the other invariants gives
  `TypeCorrect`.
* **DatasourceRouterProofs**.  A correlation belongs to one query (`Minted`),
  the table's entry is that query's (`Owned`), who was resolved has left it
  (`Gone`), who skipped the bucket is marked (`Marked`).  From them the four
  safety properties of the run.
* **RenderPacerProofs**.  The two invariants of the frames are inductive with
  the type; `HungSafe` needs `PingInv`, which counts the pings that the misses
  so far stand for.
* **PluginLauncherProofs**.  `NeverRevived` rests on `OwnUnits`: every unit but
  a static one carries the launcher's stamp, so a relaunch falls back to
  `StartUnit` for static plugins alone.  `BlindPassesAreOwed` is inductive with
  the type: whoever leaves without a listing leaves the flag or a retry behind,
  and only the watch takes the flag down.  What is right once all is quiet
  (`OnIsAlwaysUp`, `OffIsAlwaysDown`, `TheNewestRuns`) needs an invariant of what
  is not quiet yet, `LInv`: each plugin is as its declaration says, or something
  that is still to look at it exists, or an error was told (`RightOrToCome`).
  "Still to look" is a pass that has not read the declaration (`Later`), one that
  has not listed the units (`Due`), the newest switch's call (`FlipToCome`), a
  Save or a rotation in the queue, or a step of the operation that has the lock.
  Its other parts say when the holder may be relied on: what it read is of now
  unless a later pass follows (`GotIsFresh`, `KeyIsFresh`), it stops and launches
  only what is meant to be (`StopIsMeant`, `LaunchIsMeant`), and the calls of the
  switches are queued in an order in which the newest comes last (`Calls`).
* **WifiSwitchProofs**.  `Phases` ties where the task is to which slot is filled:
  a switch under way has an outgoing life and no live one.  `OneBackend` is
  inductive with it.  `ShownSafe` needs `WatchersAreKnown`: past its first wait
  a switch's watcher is stopped, or its life is among those not waited for.
  `AgentSafe` needs the most.  The mounted object is the NetworkManager life in
  hand; calls go out on the connection of now; and, as long as every such switch
  waited for its registrar, registrars no switch has in hand are done and the
  switch has the last word (`TheLastWord`): from its `Unregister` on, until a
  NetworkManager life is in hand again, the last call on the wire is an
  `Unregister`, or there is none and NetworkManager holds nothing of ours.  It
  does not say that the `Unregister` is the switch's own or is waited for: one
  that was given up may still stand before the registration of a later life.
  Whoever still hears an answer has an object (`WhoHearsIsMounted`), so no
  answer puts a second registration behind that word.

Some theorems state facts no run repeats, because their hazards are the same as
those of a deeper property: `CountExact`, `MailboxesSafe`, `HungSafe`,
`RetractionOrdered`, `EpochOrdered`.

Two attempts found the model wrong, and it was changed.  `TheNewestRuns` failed
at a state that TLC then reached with one Save, one switch and two edits: the
Save stops a unit, its wait runs out, the declaration loses the plugin, a late
`StartPlugin` revives the unit that is still stopping, and the declaration gets
it back; the unit runs from the settings it had.  The code looks away there (it
says so of a plugin that is not declared: `LoadIsAll` is that early return), so
such a unit is now `stale`, as is one found at startup with settings nobody here
wrote.  And `Decide` had two alternatives of one `CASE` that could hold together,
which TLC resolves by their order and TLA+ leaves open; they exclude each other
now.

All invariants and all action properties of the passing runs, and both
refinements, are proved.  Only model-checked is every liveness property
(`CancelStops`, `PanicRestarts`, `FailureHeals`, `ReleaseIsNoticed`,
`QuietNameIsOwned`, `TapIsReleased`, `DialsAreAnswered`, `EveryQueryIsSettled`,
`LastFrameIsShown`, `HungPeerIsDropped`, `GoesQuiet`, `SettlesOnTheDaemon`,
`AgentIsRegistered`): fairness and `ENABLED` are outside the prover.  So is the
type invariant of `DatasourceRouter`, of whose state the proofs use a part
(`Types`).

## 7. Plan

In this order, the most shared behaviour first.

1. `DatasourceRouter`: its abstract "one resolution per query" as a refinement,
   and the type invariant, for which the lemmas about `ProviderLine` are to be
   shared with `PluginHostProofs`.
2. `LevelPush` (`session.rs:955`): `push_latest` and `page_task` against a value
   that changes, a bounded queue shared with the lossy stream, a writer that
   dies.  Abstract: whatever is received last is the value held.  To be composed
   with `RenderPacer` as one session.
3. `HostSocket` (`listener.rs:162`): claimants with and without the lock, deaths
   at each step.  Safety: of the claimants that lock, one is bound, and it is
   the one the path names.
4. `PluginLink` (`hytte-plugin/src/runtime.rs`): the SDK's dial loop and session
   as the other end of `PluginHost`'s connections.
5. `SecretWatch` (`plugin_launcher.rs`): the watcher of keys that were missing at
   a launch, added to `PluginLauncher`'s queue.
6. `NameOnLink`: `OwnName` over `BusLink` instead of its own `up`, for `emit`
   (`own.rs:121`), which sends on the connection of the moment.
7. `PropertyWatch` (`property.rs`): subscribe before `Get`, the epoch captured
   before both, `Loading`, `Loaded`, `Stale`; `Pending` (`pending.rs`): an
   optimistic toggle against echoes and its timeout.
8. Proofs of what liveness rests on: that in each state in which something is
   owed, the step that pays it is one the fairness names.

As these come, shallower properties of the earlier runs give way to theirs; what
is proved by then stays proved.
