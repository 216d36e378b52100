--------------------------- MODULE PluginLauncher ---------------------------
(***************************************************************************)
(* The plugin launcher (trollshell/src/plugin_launcher.rs), the user       *)
(* manager's units it starts and stops, and the switches of the Plugins    *)
(* tab that drive it (trollshell-control-center, plugins_tab.rs).          *)
(*                                                                         *)
(* Every operation of the launcher runs under CONVERGE_LOCK, a fair mutex: *)
(* the queue holds the operations in the order they asked for it and its   *)
(* head has it.  An operation reads the declaration, lists the units,      *)
(* decides for each plugin, and carries the decisions out one call to the  *)
(* user manager at a time; between two of those calls plugins.json, the    *)
(* settings and the keyring may change, and a unit may die or come back.   *)
(***************************************************************************)
EXTENDS Integers, Sequences, FiniteSets

CONSTANTS
  Plugins,    \* plugin ids
  Static,     \* those hand-installed as static units as well
  Readers,    \* those whose declaration lists the secret slot
  Specs,      \* what the spec fingerprint tells apart: exec, env, secrets
  Contents,   \* what plugins.json may hold
  FirstUnits, \* the units a shell may find when it starts
  Scenarios   \* bounds: how often each thing outside the launcher may happen

Kinds == {"startup", "tick", "poke", "start", "stop", "persist", "save",
          "rotate"}
Bounds == {"edits", "saves", "rotations", "flips", "pokes", "crashes",
           "exits", "faults", "timeouts"}
Steps == {"none", "stop", "restart", "down", "wait", "replace", "launch",
          "relaunch"}
Declaration == [named : BOOLEAN, enabled : BOOLEAN, pinned : BOOLEAN,
                spec : Specs]
Unit == [at : {"gone", "up", "crashing", "stopping"}, stamped : BOOLEAN,
         spec : Specs, settings : Nat, key : Nat]

ASSUME PluginLauncherAssumption ==
  /\ IsFiniteSet(Plugins) /\ "none" \notin Plugins
  /\ Static \subseteq Plugins /\ Readers \subseteq Plugins
  /\ Contents \subseteq
       [readable : BOOLEAN, plugin : [Plugins -> Declaration]]
  /\ FirstUnits \subseteq [Plugins -> Unit]
  /\ \A units \in FirstUnits : \A p \in Plugins :
       units[p].stamped <=> p \notin Static
  /\ Scenarios \subseteq [Bounds -> Nat]

VARIABLES
  json, stamp,   \* plugins.json, and what its stamp tells apart
  override,      \* plugins.toml: the switch where it differs from nix
  saved,         \* plugin-settings.toml, per plugin
  keyring,       \* the secret slot
  unit,          \* the user manager's unit of each plugin
  queue,         \* CONVERGE_LOCK: its holder, then who waits for it
  phase,         \* how far the holder is
  got,           \* the effective declaration the holder read
  step,          \* what the holder has still to do about each plugin
  fallback,      \* a relaunch that may fall back to the unit file
  unlisted,      \* Outcome::Unlisted of the pass under way
  watch,         \* converge_then_watch
  raising,       \* a poke that launched blind has still to say so
  reloadUnlisted, \* RELOAD_UNLISTED
  flips,         \* the toggles of each switch, oldest first
  left           \* how often each bounded thing may still happen

\* Kept for the properties alone.
VARIABLES
  excused,    \* an error about the plugin was logged or answered
  overlooked, \* a pass took it for going down, and it was crashing
  stale,      \* a change its unit was not relaunched for
  owed        \* a pass could not list, and none has listed since

fileVars == <<json, stamp, override, saved, keyring>>
passVars == <<phase, got, step, fallback, unlisted>>
watchVars == <<watch, raising, reloadUnlisted>>
checkVars == <<excused, overlooked, stale, owed>>
vars == <<fileVars, unit, queue, passVars, watchVars, flips, left, checkVars>>

Op(kind, p, n) == [kind |-> kind, plugin |-> p, flip |-> n]
Holder == Head(queue)
Holds(kinds, at) ==
  queue # <<>> /\ Holder.kind \in kinds /\ phase = at
Passes == {"startup", "tick", "poke"}
Spend(b) == left[b] > 0 /\ left' = [left EXCEPT ![b] = @ - 1]

\* fold_overrides, effective_enabled: a pin wins over the switch.
Effective(p) ==
  LET d == json.plugin[p]
      named == json.readable /\ d.named
  IN  [named |-> named,
       enabled |-> named /\ IF d.pinned \/ override[p] = "none"
                            THEN d.enabled ELSE override[p] = "on",
       spec |-> d.spec, settings |-> saved[p], key |-> 0]

Stopping(u) == u.at \in {"crashing", "stopping"}

Init ==
  /\ json \in Contents /\ stamp = 0
  /\ override = [p \in Plugins |-> "none"]
  /\ saved = [p \in Plugins |-> 0] /\ keyring = 0
  /\ unit \in FirstUnits
  /\ queue = <<>> /\ phase = "idle"
  /\ got = [p \in Plugins |-> Effective(p)]
  /\ step = [p \in Plugins |-> "none"]
  /\ fallback = [p \in Plugins |-> FALSE] /\ unlisted = FALSE
  /\ watch = [at |-> "starting", seen |-> 0, pending |-> FALSE]
  /\ raising = FALSE /\ reloadUnlisted = FALSE
  /\ flips = [p \in Plugins |-> <<>>]
  /\ left \in Scenarios
  /\ excused = [p \in Plugins |-> FALSE]
  /\ overlooked = [p \in Plugins |-> FALSE]
  /\ stale = [p \in Plugins |-> unit[p].settings # 0 \/ unit[p].key # 0]
  /\ owed = FALSE

-----------------------------------------------------------------------------
(* The user manager.  A listing shows a unit that crashed and one told to  *)
(* stop alike, as deactivating.                                            *)

\* StopUnit: the job is queued, and a pending Restart= is off.
StopUnit(u) == [u EXCEPT !.at = "stopping"]

\* StartUnit: a pending stop is replaced by a start of the same unit.
StartUnit(p) ==
  CASE unit[p].at = "stopping" -> [unit[p] EXCEPT !.at = "crashing"]
    [] unit[p].at = "gone" /\ p \in Static -> [unit[p] EXCEPT !.at = "up"]
    [] OTHER -> unit[p]

StopCompletes(p) ==
  /\ unit[p].at = "stopping"
  /\ unit' = [unit EXCEPT ![p].at = "gone"]
  /\ UNCHANGED <<fileVars, queue, passVars, watchVars, flips, left,
                 checkVars>>

\* The main process dies and leaves children, which systemd kills first.
Crash(p) ==
  /\ unit[p].at = "up" /\ Spend("crashes")
  /\ unit' = [unit EXCEPT ![p].at = "crashing"]
  /\ UNCHANGED <<fileVars, queue, passVars, watchVars, flips, checkVars>>

\* Restart=on-failure: the same unit again, with the environment it had.
ComesBack(p) ==
  /\ unit[p].at = "crashing"
  /\ unit' = [unit EXCEPT ![p].at = "up"]
  /\ UNCHANGED <<fileVars, queue, passVars, watchVars, flips, left,
                 checkVars>>

\* The plugin ends by itself, or crashed too often.
Exits(p) ==
  /\ unit[p].at \in {"up", "crashing"} /\ Spend("exits")
  /\ unit' = [unit EXCEPT ![p].at = "gone"]
  /\ excused' = [excused EXCEPT ![p] = TRUE]
  /\ UNCHANGED <<fileVars, queue, passVars, watchVars, flips, overlooked,
                 stale, owed>>

-----------------------------------------------------------------------------
(* What changes under the launcher, and who calls it.                      *)

Ask(op) == queue' = Append(queue, op)

EditJson ==
  /\ Spend("edits")
  /\ json' \in Contents \ {json} /\ stamp' = stamp + 1
  /\ UNCHANGED <<override, saved, keyring, unit, queue, passVars, watchVars,
                 flips, checkVars>>

\* Save: the file is written, then RestartPlugin is called.
SaveSettings(p) ==
  /\ Spend("saves")
  /\ saved' = [saved EXCEPT ![p] = @ + 1]
  /\ Ask(Op("save", p, 0))
  /\ UNCHANGED <<json, stamp, override, keyring, unit, passVars, watchVars,
                 flips, checkVars>>

\* SetAiKey: the keyring is written, then relaunch_for_secret runs.
RotateKey ==
  /\ Spend("rotations")
  /\ keyring' = keyring + 1
  /\ Ask(Op("rotate", "none", 0))
  /\ UNCHANGED <<json, stamp, override, saved, unit, passVars, watchVars,
                 flips, checkVars>>

\* ReloadPlugins.
Poke ==
  /\ Spend("pokes")
  /\ Ask(Op("poke", "none", 0))
  /\ UNCHANGED <<fileVars, unit, passVars, watchVars, flips, checkVars>>

-----------------------------------------------------------------------------
(* The switch of the Plugins tab: ToggleOrder and toggle_round_trip.       *)

\* A flip is recorded and SetPluginEnabled goes out at once.
Flip(p, on) ==
  /\ Spend("flips")
  /\ flips' = [flips EXCEPT ![p] = Append(@, [on |-> on, at |-> "persisting"])]
  /\ Ask(Op("persist", p, Len(flips[p]) + 1))
  /\ UNCHANGED <<fileVars, unit, passVars, watchVars, checkVars>>

\* Mutant: the start or stop goes out as soon as the choice is kept.
TakeTurnAtOnce(p, n) ==
  /\ flips[p][n].at = "kept"
  /\ flips' = [flips EXCEPT ![p][n].at = "applying"]
  /\ Ask(Op(IF flips[p][n].on THEN "start" ELSE "stop", p, n))
  /\ UNCHANGED <<fileVars, unit, passVars, watchVars, left, checkVars>>

\* Its choice is kept and the toggle before it is over: the start or stop is
\* sent, or left to a newer toggle.
TakeTurn(p, n) ==
  /\ flips[p][n].at = "kept"
  /\ n > 1 => flips[p][n - 1].at = "over"
  /\ LET newest == n = Len(flips[p])
         call == IF flips[p][n].on THEN "start" ELSE "stop"
     IN  /\ flips' = [flips EXCEPT ![p][n].at =
                        IF newest THEN "applying" ELSE "over"]
         /\ IF newest THEN Ask(Op(call, p, n)) ELSE UNCHANGED queue
  /\ UNCHANGED <<fileVars, unit, passVars, watchVars, left, checkVars>>

\* The round trip's deadline: the tab gives up, a call it sent still runs.
GiveUp(p, n) ==
  /\ flips[p][n].at # "over" /\ Spend("timeouts")
  /\ flips' = [flips EXCEPT ![p][n].at = "over"]
  /\ excused' = [excused EXCEPT ![p] = @ \/ flips[p][n].at = "kept"]
  /\ UNCHANGED <<fileVars, unit, queue, passVars, watchVars, overlooked,
                 stale, owed>>

-----------------------------------------------------------------------------
(* The lock.  The holder leaves with an outcome for the watch and an       *)
(* answer for the toggle that called.                                      *)

Leaves(blind, seen, pending, raises) ==
  /\ queue' = Tail(queue) /\ phase' = "idle"
  /\ watch' = IF Holder.kind \in {"startup", "tick"}
              THEN [at |-> "sleeping", seen |-> seen, pending |-> pending]
              ELSE watch
  /\ raising' = (raising \/ raises)
  /\ flips' = IF Holder.flip = 0 THEN flips
              ELSE [flips EXCEPT ![Holder.plugin][Holder.flip].at = "over"]
  /\ owed' = (owed \/ blind)
  /\ UNCHANGED reloadUnlisted

\* Mutant: the stamp is taken again after the pass.
LeaveRestamps(blind) ==
  Leaves(blind, stamp, blind, Holder.kind = "poke" /\ blind)

\* Mutant: a pass that settles leaves its retry pending.
LeavePending(blind) ==
  Leaves(blind, watch.seen, watch.pending \/ blind,
         Holder.kind = "poke" /\ blind)

\* Mutant: a poke that launched blind tells nobody.
LeaveSilently(blind) == Leaves(blind, watch.seen, blind, FALSE)

Leave(blind) ==
  Leaves(blind, watch.seen, blind, Holder.kind = "poke" /\ blind)

Excuse(ps) == excused' = [p \in Plugins |-> excused[p] \/ p \in ps]
Stale(ps) == stale' = [p \in Plugins |-> stale[p] \/ p \in ps]

\* Who may hold a change back: the write of plugins.toml fails.
WriteFails == left.faults > 0

\* set_enabled: what nix declares decides, the file keeps the difference.
\* The undeclared go to their unit file, which only the static have.
Persist ==
  /\ Holds({"persist"}, "idle")
  /\ LET p == Holder.plugin
         n == Holder.flip
         on == flips[p][n].on
         d == json.plugin[p]
         refused == ~json.readable \/ (d.named /\ d.pinned)
                    \/ (~d.named /\ p \notin Static)
         Redundant(q) ==
           LET e == json.plugin[q] IN
           e.named /\ ~e.pinned /\ e.enabled = (override[q] = "on")
         After(q) ==
           IF q = p THEN IF on = d.enabled THEN "none"
                         ELSE IF on THEN "on" ELSE "off"
           ELSE IF Redundant(q) \/ ~json.plugin[q].named THEN "none"
           ELSE override[q]
     IN  \E fails \in {FALSE} \cup (IF refused THEN {} ELSE {WriteFails}) :
           /\ override' = IF refused \/ fails \/ ~d.named THEN override
                          ELSE [q \in Plugins |-> After(q)]
           /\ left' = IF fails THEN [left EXCEPT !.faults = @ - 1] ELSE left
           /\ LET over == flips[p][n].at = "over" IN
              /\ flips' = [flips EXCEPT ![p][n].at =
                   IF over \/ refused \/ fails THEN "over" ELSE "kept"]
              /\ Excuse(IF over \/ fails \/ (refused /\ n > 1) THEN {p} ELSE {})
  /\ queue' = Tail(queue)
  /\ UNCHANGED <<json, stamp, saved, keyring, unit, passVars, watchVars,
                 overlooked, stale, owed>>

\* StopPlugin reads nothing, be the plugin declared on since.
BeginStop ==
  /\ Holds({"stop"}, "idle")
  /\ phase' = "working" /\ unlisted' = FALSE
  /\ LET p == Holder.plugin IN
     /\ step' = [step EXCEPT ![p] = "stop"]
     /\ Excuse(IF Effective(p).enabled /\ Holder.flip = Len(flips[p])
               THEN {p} ELSE {})
  /\ UNCHANGED <<fileVars, unit, queue, got, fallback, watchVars, flips,
                 left, overlooked, stale, owed>>

\* Whether what the holder reads leaves it anything to list the units for: a
\* pass needs a file it can read, a Save and a start their plugin in it, a
\* rotation a reader.
Listable ==
  LET declared == {p \in Plugins : Effective(p).named} IN
  CASE Holder.kind \in Passes -> json.readable
    [] Holder.kind \in {"save", "start"} -> Holder.plugin \in declared
    [] OTHER -> declared \cap Readers # {}

\* load_declared, under the lock.
Load ==
  /\ Holds(Kinds \ {"stop", "persist"}, "idle") /\ Listable
  /\ got' = [p \in Plugins |-> Effective(p)]
  /\ phase' = "listing"
  /\ UNCHANGED <<fileVars, unit, queue, step, fallback, unlisted, watchVars,
                 flips, left, checkVars>>

\* The pass is settled, the Save and the rotation are over, and a start of
\* what is not declared is StartUnit, for a legacy static unit: a transient one
\* that is still stopping comes back as it was.
LoadIsAll ==
  /\ Holds(Kinds \ {"stop", "persist"}, "idle") /\ ~Listable
  /\ IF Holder.kind = "start"
     THEN /\ unit' = [unit EXCEPT ![Holder.plugin] = StartUnit(Holder.plugin)]
          /\ Excuse({Holder.plugin})
     ELSE UNCHANGED <<unit, excused>>
  /\ Stale(CASE Holder.kind \in {"save", "start"} -> {Holder.plugin}
             [] Holder.kind = "rotate" -> Readers
             [] OTHER -> {})
  /\ Leave(FALSE)
  /\ UNCHANGED <<fileVars, got, step, fallback, unlisted, left, overlooked>>

-----------------------------------------------------------------------------
(* What a listing decides.                                                 *)

\* plan: one reconcile's decision about one plugin.
Plan(p) ==
  LET u == unit[p]
      w == got[p]
  IN  CASE w.enabled /\ u.at = "gone" -> "launch"
        [] w.enabled /\ Stopping(u) -> "wait"
        [] w.enabled /\ u.at = "up" /\ (~u.stamped \/ u.spec # w.spec) ->
             "restart"
        [] ~w.enabled /\ u.at = "up" /\ u.stamped -> "stop"
        [] OTHER -> "none"

\* reapply: a Save's, or a rotation's, decision about one declared plugin.
Reapply(p) ==
  CASE unit[p].at = "up" /\ got[p].enabled -> "restart"
    [] unit[p].at = "up" /\ ~got[p].enabled /\ unit[p].stamped -> "stop"
    [] OTHER -> "none"

\* start_via: only a unit still stopping is waited for.
Begin(p) == IF Stopping(unit[p]) THEN "wait" ELSE "launch"

Decide(p) ==
  CASE Holder.kind \in Passes -> Plan(p)
    [] Holder.kind = "rotate" /\ (p \notin Readers \/ ~got[p].named) -> "none"
    [] Holder.kind \in {"save", "start"} /\ p # Holder.plugin -> "none"
    [] Holder.kind = "start" /\ p = Holder.plugin -> Begin(p)
    [] OTHER -> Reapply(p)

\* list_plugin_units answers.  A batch reads its keys before it stops
\* anything; a rotation or a Save that finds no running unit does nothing.
List ==
  /\ phase = "listing"
  /\ phase' = "working" /\ unlisted' = FALSE
  /\ step' = [p \in Plugins |-> Decide(p)]
  /\ fallback' = [p \in Plugins |->
                    Decide(p) = "restart" /\ ~unit[p].stamped]
  /\ got' = [p \in Plugins |-> [got[p] EXCEPT !.key = keyring]]
  /\ LET pass == Holder.kind \in Passes
         Crashing(p) == unit[p].at = "crashing"
         Missed(p) ==
           \/ Holder.kind = "save" /\ p = Holder.plugin /\ Crashing(p)
           \/ Holder.kind = "rotate" /\ p \in Readers
              /\ (Crashing(p) \/ ~got[p].named)
     IN  /\ excused' = [p \in Plugins |-> excused[p] /\ ~pass]
         /\ overlooked' = [p \in Plugins |->
              IF pass THEN ~got[p].enabled /\ Crashing(p) ELSE overlooked[p]]
         /\ Stale({p \in Plugins : Missed(p)})
         /\ owed' = (owed /\ ~pass)
  /\ UNCHANGED <<fileVars, unit, queue, watchVars, flips, left>>

\* It fails: a one-shot pass launches blind, a tick acts on nothing, a start
\* launches at once, a Save and a rotation do nothing.
ListFails ==
  /\ phase = "listing" /\ Spend("faults")
  /\ LET blind == Holder.kind \in {"startup", "poke"}
         Launches(p) == \/ blind /\ got[p].enabled
                        \/ Holder.kind = "start" /\ p = Holder.plugin
     IN  IF blind \/ Holder.kind = "start"
         THEN /\ phase' = "working" /\ unlisted' = blind
              /\ step' = [p \in Plugins |->
                            IF Launches(p) THEN "launch" ELSE "none"]
              /\ fallback' = [p \in Plugins |-> FALSE]
              /\ UNCHANGED <<queue, watchVars, flips, stale, owed>>
         ELSE /\ Leave(Holder.kind = "tick")
              /\ Stale(CASE Holder.kind = "save" -> {Holder.plugin}
                         [] Holder.kind = "rotate" -> Readers
                         [] OTHER -> {})
              /\ UNCHANGED <<step, fallback, unlisted>>
  /\ UNCHANGED <<fileVars, unit, got, excused, overlooked>>

-----------------------------------------------------------------------------
(* Carrying it out.                                                        *)

At(steps) == {p \in Plugins : step[p] \in steps}
Goes(p, to) == step' = [step EXCEPT ![p] = to]
Answer(p, err) == excused' = [excused EXCEPT ![p] = @ \/ err]

\* StopUnit: first what is only to stop, then the whole batch, and any time
\* in the wait a unit that came back up.  There may be no unit any more.
SendStop(p) ==
  /\ phase = "working"
  /\ step[p] \in {"stop", "restart", "replace"}
  /\ step[p] = "restart" => At({"stop"}) = {}
  /\ IF unit[p].at = "gone"
     THEN /\ Goes(p, "none") /\ Answer(p, step[p] # "stop")
          /\ UNCHANGED unit
     ELSE /\ Goes(p, IF step[p] = "stop" THEN "none" ELSE "down")
          /\ unit' = [unit EXCEPT ![p] = StopUnit(@)]
          /\ UNCHANGED excused
  /\ UNCHANGED <<fileVars, queue, phase, got, fallback, unlisted, watchVars,
                 flips, left, overlooked, stale, owed>>

\* The call fails: the plugin keeps the unit it has.
StopFails(p) ==
  /\ phase = "working" /\ Spend("faults")
  /\ step[p] \in {"stop", "restart", "replace"}
  /\ step[p] = "restart" => At({"stop"}) = {}
  /\ Goes(p, "none") /\ Answer(p, TRUE) /\ Stale({p})
  /\ UNCHANGED <<fileVars, unit, queue, phase, got, fallback, unlisted,
                 watchVars, flips, overlooked, owed>>

\* A single plugin's launch reads its keys now, a batch has read them.
Relaunches == IF Holder.kind \in Passes \cup {"rotate"} THEN "relaunch"
              ELSE "launch"

Waiting(p) == /\ phase = "working" /\ step[p] \in {"down", "wait"}
              /\ At({"stop", "restart"}) = {}

\* Mutant: a unit that is running again is taken for launched.
PollTakesBackUp(p) ==
  /\ Waiting(p)
  /\ \/ unit[p].at = "gone" /\ Goes(p, Relaunches)
     \/ unit[p].at = "up" /\ step[p] = "wait" /\ Goes(p, "none")
  /\ UNCHANGED <<fileVars, unit, queue, phase, got, fallback, unlisted,
                 watchVars, flips, left, checkVars>>

\* A listing of wait_then_settle: the unit is down, or, for a launch, it is
\* running again (StopWait::BackUp) and replace_or_launch stops it.
Poll(p) ==
  /\ Waiting(p)
  /\ \/ unit[p].at = "gone" /\ Goes(p, Relaunches)
     \/ unit[p].at = "up" /\ step[p] = "wait" /\ Goes(p, "replace")
  /\ UNCHANGED <<fileVars, unit, queue, phase, got, fallback, unlisted,
                 watchVars, flips, left, checkVars>>

\* A listing fails: every launch waited for finds out for itself.
PollFails ==
  /\ Spend("faults")
  /\ \E p \in Plugins : Waiting(p)
  /\ step' = [p \in Plugins |-> IF Waiting(p) THEN Relaunches ELSE step[p]]
  /\ UNCHANGED <<fileVars, unit, queue, phase, got, fallback, unlisted,
                 watchVars, flips, checkVars>>

\* STOP_WAIT runs out on a unit that holds its name: StillStopping, unless
\* the launcher never started it.
WaitRunsOut(p) ==
  /\ Waiting(p) /\ unit[p].at # "gone"
  /\ Goes(p, IF fallback[p] THEN Relaunches ELSE "none")
  /\ Answer(p, ~fallback[p])
  /\ UNCHANGED <<fileVars, unit, queue, phase, got, fallback, unlisted,
                 watchVars, flips, left, overlooked, stale, owed>>

\* resolve_secret_env; a pass's own launches come after its batch.
ReadKeys(p) ==
  /\ phase = "working" /\ step[p] = "launch"
  /\ At(Steps \ {"none", "launch"}) = {}
  /\ got' = [got EXCEPT ![p].key = keyring]
  /\ Goes(p, "relaunch")
  /\ UNCHANGED <<fileVars, unit, queue, phase, fallback, unlisted, watchVars,
                 flips, left, checkVars>>

\* systemd-run, which is refused while the unit holds the name, and always
\* where a static unit has it; then perhaps StartUnit.
Launched(p) ==
  [at |-> "up", stamped |-> TRUE, spec |-> got[p].spec,
   settings |-> got[p].settings, key |-> got[p].key]

\* Mutant: every refused launch falls back to the unit file.
RelaunchFallsBack(p) ==
  /\ phase = "working" /\ step[p] = "relaunch"
  /\ Goes(p, "none")
  /\ IF unit[p].at = "gone" /\ p \notin Static
     THEN /\ unit' = [unit EXCEPT ![p] = Launched(p)]
          /\ stale' = [stale EXCEPT ![p] = FALSE]
          /\ excused' = [excused EXCEPT ![p] =
                         ~got[p].enabled /\ Holder.flip = Len(flips[p])]
     ELSE /\ unit' = [unit EXCEPT ![p] = StartUnit(p)]
          /\ Answer(p, TRUE) /\ UNCHANGED stale
  /\ UNCHANGED <<fileVars, queue, phase, got, fallback, unlisted, watchVars,
                 flips, left, overlooked, owed>>

Relaunch(p) ==
  /\ phase = "working" /\ step[p] = "relaunch"
  /\ Goes(p, "none")
  /\ IF unit[p].at = "gone" /\ p \notin Static
     THEN /\ unit' = [unit EXCEPT ![p] = Launched(p)]
          /\ stale' = [stale EXCEPT ![p] = FALSE]
          /\ excused' = [excused EXCEPT ![p] =
                         ~got[p].enabled /\ Holder.flip = Len(flips[p])]
     ELSE /\ unit' = IF fallback[p] THEN [unit EXCEPT ![p] = StartUnit(p)]
                     ELSE unit
          /\ Answer(p, TRUE) /\ UNCHANGED stale
  /\ UNCHANGED <<fileVars, queue, phase, got, fallback, unlisted, watchVars,
                 flips, left, overlooked, owed>>

\* systemd-run fails for a reason of its own.
LaunchFails(p) ==
  /\ phase = "working" /\ step[p] = "relaunch" /\ Spend("faults")
  /\ Goes(p, "none") /\ Answer(p, TRUE)
  /\ UNCHANGED <<fileVars, unit, queue, phase, got, fallback, unlisted,
                 watchVars, flips, overlooked, stale, owed>>

Finish ==
  /\ phase = "working" /\ At(Steps \ {"none"}) = {}
  /\ Leave(unlisted)
  /\ UNCHANGED <<fileVars, unit, got, step, fallback, unlisted, left, excused,
                 overlooked, stale>>

-----------------------------------------------------------------------------
(* converge_then_watch, and the flag a poke leaves it.                     *)

\* The stamp is taken before startup's own pass.
WatchStarts ==
  /\ watch.at = "starting"
  /\ watch' = [watch EXCEPT !.at = "converging", !.seen = stamp]
  /\ Ask(Op("startup", "none", 0))
  /\ UNCHANGED <<fileVars, unit, passVars, raising, reloadUnlisted, flips,
                 left, checkVars>>

\* A tick that finds a moved stamp, a pass of its own that could not list, or
\* a poke's.
Tick ==
  /\ watch.at = "sleeping"
  /\ watch.seen # stamp \/ watch.pending \/ reloadUnlisted
  /\ watch' = [at |-> "converging", seen |-> stamp,
               pending |-> watch.pending \/ reloadUnlisted]
  /\ reloadUnlisted' = FALSE
  /\ Ask(Op("tick", "none", 0))
  /\ UNCHANGED <<fileVars, unit, passVars, raising, flips, left, checkVars>>

\* reconcile, once its pass has left the lock.
Raise ==
  /\ raising
  /\ reloadUnlisted' = TRUE /\ raising' = FALSE
  /\ UNCHANGED <<fileVars, unit, queue, passVars, watch, flips, left,
                 checkVars>>

-----------------------------------------------------------------------------

UnitMoves(p) == StopCompletes(p) \/ Crash(p) \/ ComesBack(p) \/ Exits(p)
Outside ==
  \/ EditJson \/ RotateKey \/ Poke
  \/ \E p \in Plugins :
       \/ UnitMoves(p) \/ SaveSettings(p) \/ \E on \in BOOLEAN : Flip(p, on)
       \/ \E n \in DOMAIN flips[p] : GiveUp(p, n)
Turns == \E p \in Plugins : \E n \in DOMAIN flips[p] : TakeTurn(p, n)
Watching == WatchStarts \/ Tick \/ Raise
Waits == PollFails \/ \E p \in Plugins : Poll(p) \/ WaitRunsOut(p)
Work ==
  \/ Persist \/ BeginStop \/ Load \/ LoadIsAll \/ List \/ ListFails \/ Finish
  \/ Waits
  \/ \E p \in Plugins : \/ SendStop(p) \/ StopFails(p) \/ ReadKeys(p)
                        \/ Relaunch(p) \/ LaunchFails(p)

Next == Outside \/ Turns \/ Watching \/ Work

Spec == Init /\ [][Next]_vars

\* The runtime runs every task: the lock's holder goes on (a wait ends with a
\* listing or with its deadline), the watch ticks, and a round trip takes its
\* turn.  Nothing is assumed of a unit or of what happens outside.
FairSpec == Spec /\ WF_vars(Work) /\ WF_vars(Turns) /\ WF_vars(Watching)

-----------------------------------------------------------------------------
(* Properties.                                                             *)

\* The types of the variables.
TypeOK ==
  /\ json \in Contents /\ stamp \in Nat
  /\ override \in [Plugins -> {"none", "on", "off"}]
  /\ saved \in [Plugins -> Nat] /\ keyring \in Nat
  /\ unit \in [Plugins -> Unit]
  /\ queue \in Seq([kind : Kinds, plugin : Plugins \cup {"none"}, flip : Nat])
  /\ phase \in {"idle", "listing", "working"}
  /\ got \in [Plugins -> [named : BOOLEAN, enabled : BOOLEAN, spec : Specs,
                          settings : Nat, key : Nat]]
  /\ step \in [Plugins -> Steps]
  /\ fallback \in [Plugins -> BOOLEAN] /\ unlisted \in BOOLEAN
  /\ watch \in [at : {"starting", "sleeping", "converging"}, seen : Nat,
                pending : BOOLEAN]
  /\ raising \in BOOLEAN /\ reloadUnlisted \in BOOLEAN
  /\ flips \in [Plugins ->
       Seq([on : BOOLEAN, at : {"persisting", "kept", "applying", "over"}])]

\* Nothing is under way, and the watch owes nothing.
Quiet ==
  /\ queue = <<>> /\ json.readable
  /\ watch.at = "sleeping" /\ watch.seen = stamp /\ ~watch.pending
  /\ ~raising /\ ~reloadUnlisted
  /\ \A p \in Plugins : \A n \in DOMAIN flips[p] : flips[p][n].at = "over"
Lives(p) == unit[p].at \in {"up", "crashing"}

\* Once everything asked for is done, a plugin that is on runs: no order of
\* flips, Saves, rotations, edits and pokes loses a start, unless an error
\* was logged or answered for that plugin (the guarantees of CONVERGE_LOCK,
\* toggle_round_trip and the plugins.json watch).
OnIsUp ==
  Quiet => \A p \in Plugins :
    Effective(p).enabled /\ ~excused[p] => Lives(p)

\* And one that is off does not, be it switched off or declared so (#1417):
\* no relaunch or late start brings it back.  A unit that was on its way down
\* from a crash when a pass looked is left out: OffStaysDown.
OffIsDown ==
  Quiet => \A p \in Plugins \ Static :
    ~Effective(p).enabled /\ ~excused[p] /\ ~overlooked[p] => ~Lives(p)

\* The comment of plan: a deactivating unit of a plugin that is off "is
\* already going where the reconcile wants it, and is left alone".
OffStaysDown ==
  Quiet => \A p \in Plugins \ Static :
    ~Effective(p).enabled /\ ~excused[p] => ~Lives(p)

\* What runs then runs from the declaration, the settings and the key of now:
\* an edit during a pass, a Save into a restart and a unit systemd brought
\* back are all followed by a launch from the newest (#1399, #1415, #1555).
RunsTheNewest ==
  Quiet => \A p \in Plugins \ Static :
    Effective(p).enabled /\ Lives(p) =>
      /\ ~excused[p] => unit[p].spec = json.plugin[p].spec
      /\ ~stale[p] => /\ unit[p].settings = saved[p]
                      /\ p \in Readers => unit[p].key = keyring

\* A unit this launcher started and stopped is never started again as it was
\* (#1417 item 1): while its declaration names it, the stop goes through.
NoRevival ==
  [][\A p \in Plugins \ Static :
       unit[p].at = "stopping" /\ unit'[p].at # "stopping" =>
         unit'[p].at = "gone" \/ ~Effective(p).named]_vars

\* A pass that could not list leaves the stops and restarts it could not see
\* to a later tick, whoever made it and whatever ran meanwhile (#1404).
BlindPassIsOwed ==
  owed /\ json.readable /\ watch.seen = stamp =>
    raising \/ reloadUnlisted \/ watch.pending \/ watch.at # "sleeping"

\* Whatever is asked for is over in the end: no queue behind the lock stays,
\* no round trip waits for ever and no retry goes on for ever.
GoesQuiet ==
  <>[](/\ queue = <<>> /\ watch.at = "sleeping" /\ ~watch.pending
       /\ \A p \in Plugins : \A n \in DOMAIN flips[p] : flips[p][n].at = "over")
=============================================================================
