------------------------ MODULE PluginLauncherProofs ------------------------
(***************************************************************************)
(* Proofs about PluginLauncher, for any plugins, files and bounds: types,  *)
(* whose units there are (Stamps), who comes back for a pass that could    *)
(* not list (Owing), and what is right or still to come (LInv).            *)
(***************************************************************************)
EXTENDS PluginLauncher, SequenceTheorems, TLAPS

Flips == [on : BOOLEAN, at : {"persisting", "kept", "applying", "over"}]
Ops == [kind : Kinds, plugin : Plugins \cup {"none"}, flip : Nat]

\* Changing a field of a toggle leaves a sequence of toggles.
LEMMA FlipStays ==
  ASSUME NEW s \in Seq(Flips), NEW n,
         NEW to \in {"persisting", "kept", "applying", "over"}
  PROVE  [s EXCEPT ![n].at = to] \in Seq(Flips)
<1>1. CASE n \in 1..Len(s)
  <2>1. s[n] \in Flips
    BY <1>1, ElementOfSeq
  <2>2. [s[n] EXCEPT !.at = to] \in Flips
    BY <2>1 DEF Flips
  <2>3. [s EXCEPT ![n] = [s[n] EXCEPT !.at = to]] \in Seq(Flips)
    BY <1>1, <2>2, ExceptSeq
  <2> QED BY <2>3
<1>2. CASE n \notin 1..Len(s)
  <2>1. DOMAIN s = 1..Len(s)
    OBVIOUS
  <2>2. [s EXCEPT ![n].at = to] = s
    BY <1>2, <2>1
  <2> QED BY <2>2
<1> QED BY <1>1, <1>2

\* The same, within the toggles of a plugin.
LEMMA FlipsStay ==
  ASSUME NEW f \in [Plugins -> Seq(Flips)], NEW p, NEW n,
         NEW to \in {"persisting", "kept", "applying", "over"}
  PROVE  [f EXCEPT ![p][n].at = to] \in [Plugins -> Seq(Flips)]
<1> SUFFICES ASSUME NEW q \in Plugins
             PROVE  [f EXCEPT ![p][n].at = to][q] \in Seq(Flips)
  OBVIOUS
<1>1. CASE q = p
  BY <1>1, FlipStays
<1>2. CASE q # p
  BY <1>2
<1> QED BY <1>1, <1>2

\* The effective declaration has its type.
LEMMA EffectiveType ==
  ASSUME TypeOK, NEW p \in Plugins
  PROVE  Effective(p) \in [named : BOOLEAN, enabled : BOOLEAN, spec : Specs,
                           settings : Nat, key : Nat]
<1>1. /\ json.readable \in BOOLEAN
      /\ json.plugin[p] \in Declaration
  BY PluginLauncherAssumption DEF TypeOK
<1>2. saved[p] \in Nat
  BY DEF TypeOK
<1> QED BY <1>1, <1>2 DEF Effective, Declaration
-----------------------------------------------------------------------------
(* Type correctness.  The lock is held while anything is under way.        *)

Held == phase # "idle" => queue # <<>>

\* What asking for the lock, and leaving it, do to the queue.
LEMMA Asking ==
  ASSUME TypeOK, NEW op \in Ops, Ask(op)
  PROVE  queue' \in Seq(Ops) /\ queue' # <<>>
<1>1. queue \in Seq(Ops)
  BY DEF TypeOK, Ops
<1> QED BY <1>1 DEF Ask

LEMMA HolderIsOp ==
  ASSUME TypeOK, queue # <<>>
  PROVE  Holder \in Ops /\ Tail(queue) \in Seq(Ops)
<1>1. queue \in Seq(Ops)
  BY DEF TypeOK, Ops
<1> QED BY <1>1, HeadTailProperties DEF Holder

LEMMA LeavingTypes ==
  ASSUME TypeOK, queue # <<>>, NEW blind \in BOOLEAN, Leave(blind)
  PROVE  /\ queue' \in Seq(Ops) /\ phase' = "idle"
         /\ watch' \in [at : {"starting", "sleeping", "converging"},
                        seen : Nat, pending : BOOLEAN]
         /\ raising' \in BOOLEAN /\ reloadUnlisted' \in BOOLEAN
         /\ flips' \in [Plugins -> Seq(Flips)]
<1> USE DEF Leave, Leaves
<1>1. queue' \in Seq(Ops)
  BY HolderIsOp
<1>2. /\ watch' \in [at : {"starting", "sleeping", "converging"},
                     seen : Nat, pending : BOOLEAN]
      /\ raising' \in BOOLEAN /\ reloadUnlisted' \in BOOLEAN
  BY DEF TypeOK
<1>3. flips \in [Plugins -> Seq(Flips)]
  BY DEF TypeOK, Flips
<1>4. flips' \in [Plugins -> Seq(Flips)]
  BY <1>3, FlipsStay
<1> QED BY <1>1, <1>2, <1>4
Typed == TypeOK /\ Held

LEMMA UnitStays ==
  ASSUME NEW us \in [Plugins -> Unit], NEW p \in Plugins,
         NEW to \in {"gone", "up", "crashing", "stopping"}
  PROVE  [us EXCEPT ![p].at = to] \in [Plugins -> Unit]
<1> DEFINE moved == [us[p] EXCEPT !.at = to]
<1>1. moved \in Unit
  BY DEF Unit
<1> HIDE DEF moved
<1>2. [us EXCEPT ![p] = moved] \in [Plugins -> Unit]
  BY <1>1
<1> QED BY <1>2 DEF moved

LEMMA UnitMovesTyped ==
  ASSUME Typed, NEW p \in Plugins, UnitMoves(p)
  PROVE  Typed'
<1>1. unit \in [Plugins -> Unit]
  BY DEF Typed, TypeOK
<1>2. PICK to \in {"gone", "up", "crashing", "stopping"} :
        unit' = [unit EXCEPT ![p].at = to]
  BY DEF UnitMoves, StopCompletes, Crash, ComesBack, Exits
<1>3. unit' \in [Plugins -> Unit]
  BY <1>1, <1>2, UnitStays
<1>4. UNCHANGED <<fileVars, queue, passVars, watchVars, flips>>
  BY DEF UnitMoves, StopCompletes, Crash, ComesBack, Exits
<1> QED BY <1>3, <1>4 DEF Typed, TypeOK, Held, fileVars, passVars, watchVars

LEMMA OutsideTyped ==
  ASSUME Typed, Outside
  PROVE  Typed'
<1> USE DEF Held, fileVars, passVars, watchVars, checkVars
<1>0. TypeOK
  BY DEF Typed
<1>1. CASE EditJson
  BY <1>0, <1>1 DEF Typed, TypeOK, EditJson, Spend
<1>2. CASE RotateKey
  <2>1. queue' \in Seq(Ops) /\ queue' # <<>>
    BY <1>0, <1>2, Asking DEF RotateKey, Op, Ops, Kinds
  <2> QED BY <1>0, <1>2, <2>1 DEF Typed, TypeOK, RotateKey, Ops
<1>3. CASE Poke
  <2>1. queue' \in Seq(Ops) /\ queue' # <<>>
    BY <1>0, <1>3, Asking DEF Poke, Op, Ops, Kinds
  <2> QED BY <1>0, <1>3, <2>1 DEF Typed, TypeOK, Poke, Ops
<1>4. ASSUME NEW p \in Plugins, SaveSettings(p) PROVE Typed'
  <2>1. queue' \in Seq(Ops) /\ queue' # <<>>
    BY <1>0, <1>4, Asking DEF SaveSettings, Op, Ops, Kinds
  <2>2. saved' \in [Plugins -> Nat]
    BY <1>0, <1>4 DEF SaveSettings, TypeOK
  <2> QED BY <1>0, <1>4, <2>1, <2>2 DEF Typed, TypeOK, SaveSettings, Ops
<1>5. ASSUME NEW p \in Plugins, NEW on \in BOOLEAN, Flip(p, on) PROVE Typed'
  <2>1. flips \in [Plugins -> Seq(Flips)]
    BY <1>0 DEF TypeOK, Flips
  <2>2. Len(flips[p]) + 1 \in Nat
    BY <2>1
  <2>3. queue' \in Seq(Ops) /\ queue' # <<>>
    BY <1>0, <1>5, <2>2, Asking DEF Flip, Op, Ops, Kinds
  <2>4. flips' \in [Plugins -> Seq(Flips)]
    BY <2>1, <1>5 DEF Flip, Flips
  <2> QED BY <1>0, <1>5, <2>3, <2>4 DEF Typed, TypeOK, Flip, Ops, Flips
<1>6. ASSUME NEW p \in Plugins, NEW n \in DOMAIN flips[p], GiveUp(p, n)
      PROVE  Typed'
  <2>1. flips' \in [Plugins -> Seq(Flips)]
    BY <1>0, <1>6, FlipsStay DEF GiveUp, TypeOK, Flips
  <2> QED BY <1>0, <1>6, <2>1 DEF Typed, TypeOK, GiveUp, Spend, Flips
<1> QED BY <1>1, <1>2, <1>3, <1>4, <1>5, <1>6, UnitMovesTyped DEF Outside

LEMMA TurnsTyped ==
  ASSUME Typed, Turns
  PROVE  Typed'
<1> USE DEF Held, fileVars, passVars, watchVars, checkVars
<1>a. PICK p \in Plugins : \E n \in DOMAIN flips[p] : TakeTurn(p, n)
  BY DEF Turns
<1>0. PICK n \in DOMAIN flips[p] : TakeTurn(p, n)
  BY <1>a
<1>1. TypeOK /\ flips \in [Plugins -> Seq(Flips)]
  BY DEF Typed, TypeOK, Flips
<1>2. n \in Nat
  BY <1>1
<1>3. flips' \in [Plugins -> Seq(Flips)]
  <2>1. CASE n = Len(flips[p])
    BY <1>0, <1>1, <2>1, FlipsStay DEF TakeTurn
  <2>2. CASE n # Len(flips[p])
    BY <1>0, <1>1, <2>2, FlipsStay DEF TakeTurn
  <2> QED BY <2>1, <2>2
<1>4. queue' \in Seq(Ops) /\ (queue # <<>> => queue' # <<>>)
  <2>1. CASE n = Len(flips[p])
    BY <1>0, <1>1, <1>2, <2>1, Asking DEF TakeTurn, Op, Ops, Kinds
  <2>2. CASE n # Len(flips[p])
    BY <1>0, <1>1, <2>2 DEF TakeTurn, TypeOK, Ops
  <2> QED BY <2>1, <2>2
<1> QED BY <1>0, <1>1, <1>3, <1>4 DEF Typed, TypeOK, TakeTurn, Ops, Flips

LEMMA WatchingTyped ==
  ASSUME Typed, Watching
  PROVE  Typed'
<1> USE DEF Held, fileVars, passVars, watchVars, checkVars
<1>0. TypeOK
  BY DEF Typed
<1>1. CASE WatchStarts
  <2>1. queue' \in Seq(Ops) /\ queue' # <<>>
    BY <1>0, <1>1, Asking DEF WatchStarts, Op, Ops, Kinds
  <2> QED BY <1>0, <1>1, <2>1 DEF Typed, TypeOK, WatchStarts, Ops
<1>2. CASE Tick
  <2>1. queue' \in Seq(Ops) /\ queue' # <<>>
    BY <1>0, <1>2, Asking DEF Tick, Op, Ops, Kinds
  <2> QED BY <1>0, <1>2, <2>1 DEF Typed, TypeOK, Tick, Ops
<1>3. CASE Raise
  BY <1>3 DEF Typed, TypeOK, Raise
<1> QED BY <1>1, <1>2, <1>3 DEF Watching

-----------------------------------------------------------------------------
(* The holder's own steps.                                                 *)

\* Whoever leaves, the types stay with what the step itself changes.
LEMMA LeavingTyped ==
  ASSUME Typed, queue # <<>>, NEW blind \in BOOLEAN, Leave(blind),
         json' \in Contents, stamp' \in Nat, UNCHANGED <<override, saved, keyring>>,
         unit' \in [Plugins -> Unit],
         UNCHANGED <<got, step, fallback, unlisted>>
  PROVE  Typed'
<1>1. /\ queue' \in Seq(Ops) /\ phase' = "idle"
      /\ watch' \in [at : {"starting", "sleeping", "converging"},
                     seen : Nat, pending : BOOLEAN]
      /\ raising' \in BOOLEAN /\ reloadUnlisted' \in BOOLEAN
      /\ flips' \in [Plugins -> Seq(Flips)]
  BY LeavingTypes DEF Typed
<1> QED BY <1>1 DEF Typed, TypeOK, Held, Ops, Flips

LEMMA PersistTyped ==
  ASSUME Typed, Persist
  PROVE  Typed'
<1>1. TypeOK /\ queue # <<>>
  BY DEF Typed, Persist, Holds
<1>2. flips \in [Plugins -> Seq(Flips)]
  BY <1>1 DEF TypeOK, Flips
<1>3. flips' \in [Plugins -> Seq(Flips)]
  <2>1. \/ flips' = [flips EXCEPT ![Holder.plugin][Holder.flip].at = "over"]
        \/ flips' = [flips EXCEPT ![Holder.plugin][Holder.flip].at = "kept"]
    BY DEF Persist
  <2>2. [flips EXCEPT ![Holder.plugin][Holder.flip].at = "over"]
          \in [Plugins -> Seq(Flips)]
    BY <1>2, FlipsStay, Zenon
  <2>3. [flips EXCEPT ![Holder.plugin][Holder.flip].at = "kept"]
          \in [Plugins -> Seq(Flips)]
    BY <1>2, FlipsStay, Zenon
  <2> QED BY <2>1, <2>2, <2>3
<1>4. override' \in [Plugins -> {"none", "on", "off"}]
  <2>1. override \in [Plugins -> {"none", "on", "off"}]
    BY <1>1 DEF TypeOK
  <2>2. \/ UNCHANGED override
        \/ \E f \in [Plugins -> {"none", "on", "off"}] : override' = f
    <3> DEFINE After(q) ==
          IF q = Holder.plugin
          THEN IF flips[Holder.plugin][Holder.flip].on
                    = json.plugin[Holder.plugin].enabled
               THEN "none"
               ELSE IF flips[Holder.plugin][Holder.flip].on THEN "on" ELSE "off"
          ELSE IF \/ /\ json.plugin[q].named /\ ~json.plugin[q].pinned
                     /\ json.plugin[q].enabled = (override[q] = "on")
                  \/ ~json.plugin[q].named
               THEN "none" ELSE override[q]
    <3>1. UNCHANGED override \/ override' = [q \in Plugins |-> After(q)]
      BY Zenon DEF Persist
    <3>2. \A q \in Plugins : After(q) \in {"none", "on", "off"}
      BY <2>1
    <3> HIDE DEF After
    <3>3. [q \in Plugins |-> After(q)] \in [Plugins -> {"none", "on", "off"}]
      BY <3>2
    <3> QED BY <3>1, <3>3
  <2> QED BY <2>1, <2>2
<1>5. queue' \in Seq(Ops)
  BY <1>1, HolderIsOp DEF Persist
<1>6. UNCHANGED <<json, stamp, saved, keyring, unit, passVars, watchVars>>
  BY DEF Persist
<1>7. phase = "idle"
  BY DEF Persist, Holds
<1> QED BY <1>1, <1>3, <1>4, <1>5, <1>6, <1>7
        DEF Typed, TypeOK, Held, Ops, Flips, passVars, watchVars

LEMMA BeginningTyped ==
  ASSUME Typed, BeginStop \/ Load
  PROVE  Typed'
<1>1. TypeOK
  BY DEF Typed
<1>2. CASE BeginStop
  <2>1. step' \in [Plugins -> Steps]
    BY <1>1, <1>2 DEF TypeOK, BeginStop, Steps
  <2> QED BY <1>1, <1>2, <2>1
          DEF Typed, TypeOK, Held, BeginStop, Holds, fileVars, watchVars
<1>3. CASE Load
  <2>1. got' \in [Plugins -> [named : BOOLEAN, enabled : BOOLEAN, spec : Specs,
                             settings : Nat, key : Nat]]
    BY <1>1, <1>3, EffectiveType DEF Load
  <2> QED BY <1>1, <1>3, <2>1
          DEF Typed, TypeOK, Held, Load, Holds, fileVars, watchVars
<1> QED BY <1>2, <1>3

\* StartUnit leaves a unit.
LEMMA StartUnitType ==
  ASSUME unit \in [Plugins -> Unit], NEW p \in Plugins
  PROVE  StartUnit(p) \in Unit
<1>1. unit[p] \in Unit
  OBVIOUS
<1> QED BY <1>1 DEF StartUnit, Unit

LEMMA LoadIsAllTyped ==
  ASSUME Typed, LoadIsAll
  PROVE  Typed'
<1>1. TypeOK /\ queue # <<>>
  BY DEF Typed, LoadIsAll, Holds
<1>2. unit' \in [Plugins -> Unit]
  <2>1. CASE Holder.kind = "start"
    <3>1. unit' = [unit EXCEPT ![Holder.plugin] = StartUnit(Holder.plugin)]
      BY <2>1 DEF LoadIsAll
    <3> QED BY <1>1, <3>1, StartUnitType DEF TypeOK
  <2>2. CASE Holder.kind # "start"
    BY <1>1, <2>2 DEF LoadIsAll, TypeOK
  <2> QED BY <2>1, <2>2
<1>3. Leave(FALSE)
  BY DEF LoadIsAll
<1>4. UNCHANGED <<fileVars, got, step, fallback, unlisted>>
  BY DEF LoadIsAll
<1> QED BY <1>1, <1>2, <1>3, <1>4, LeavingTyped DEF TypeOK, fileVars

\* What a listing decides about a plugin is a step.
LEMMA DecideType ==
  ASSUME NEW p \in Plugins
  PROVE  Decide(p) \in Steps
BY DEF Decide, Plan, Reapply, Begin, Steps

LEMMA ListingTyped ==
  ASSUME Typed, List \/ ListFails
  PROVE  Typed'
<1>1. TypeOK
  BY DEF Typed
<1>2. phase = "listing" /\ queue # <<>>
  BY DEF Typed, Held, List, ListFails
<1>3. CASE List
  <2>1. /\ step' \in [Plugins -> Steps]
        /\ fallback' \in [Plugins -> BOOLEAN]
    BY <1>3, DecideType DEF List
  <2>2. got' \in [Plugins -> [named : BOOLEAN, enabled : BOOLEAN, spec : Specs,
                             settings : Nat, key : Nat]]
    <3>1. \A p \in Plugins : got[p] \in [named : BOOLEAN, enabled : BOOLEAN,
                                spec : Specs, settings : Nat, key : Nat]
      BY <1>1 DEF TypeOK
    <3>2. keyring \in Nat
      BY <1>1 DEF TypeOK
    <3>3. got' = [p \in Plugins |-> [got[p] EXCEPT !.key = keyring]]
      BY <1>3 DEF List
    <3> QED BY <3>1, <3>2, <3>3
  <2>3. /\ phase' = "working" /\ unlisted' = FALSE
        /\ UNCHANGED <<fileVars, unit, queue, watchVars, flips>>
    BY <1>3 DEF List
  <2> QED BY <1>1, <1>2, <2>1, <2>2, <2>3
          DEF Typed, TypeOK, Held, fileVars, watchVars
<1>4. CASE ListFails
  <2> DEFINE blind == Holder.kind \in {"startup", "poke"}
  <2>1. CASE blind \/ Holder.kind = "start"
    <3>1. /\ phase' = "working" /\ unlisted' = blind
          /\ step' \in [Plugins -> Steps]
          /\ fallback' \in [Plugins -> BOOLEAN]
          /\ UNCHANGED <<fileVars, unit, got, queue, watchVars, flips>>
      BY <1>4, <2>1 DEF ListFails, Steps
    <3> QED BY <1>1, <1>2, <3>1 DEF Typed, TypeOK, Held, fileVars, watchVars
  <2>2. CASE ~(blind \/ Holder.kind = "start")
    <3>1. /\ Leave(Holder.kind = "tick")
          /\ UNCHANGED <<fileVars, unit, got, step, fallback, unlisted>>
      BY <1>4, <2>2 DEF ListFails
    <3> QED BY <1>1, <1>2, <3>1, LeavingTyped DEF TypeOK, fileVars
  <2> QED BY <2>1, <2>2
<1> QED BY <1>3, <1>4

\* One move of a plugin's step, with what may come with it.
LEMMA GoingTyped ==
  ASSUME Typed, phase = "working", phase' = phase,
         step' \in [Plugins -> Steps], unit' \in [Plugins -> Unit],
         got' \in [Plugins -> [named : BOOLEAN, enabled : BOOLEAN, spec : Specs,
                              settings : Nat, key : Nat]],
         UNCHANGED <<fileVars, queue, fallback, unlisted, watchVars, flips>>
  PROVE  Typed'
BY DEF Typed, TypeOK, Held, fileVars, watchVars

LEMMA WorkingTyped ==
  ASSUME Typed, NEW p \in Plugins,
         \/ SendStop(p) \/ StopFails(p) \/ ReadKeys(p) \/ Relaunch(p)
         \/ LaunchFails(p) \/ Poll(p) \/ WaitRunsOut(p)
  PROVE  Typed'
<1>1. /\ unit \in [Plugins -> Unit] /\ step \in [Plugins -> Steps]
      /\ got \in [Plugins -> [named : BOOLEAN, enabled : BOOLEAN, spec : Specs,
                              settings : Nat, key : Nat]]
      /\ keyring \in Nat
  BY DEF Typed, TypeOK
<1>2. \A to \in Steps : Goes(p, to) => step' \in [Plugins -> Steps]
  BY <1>1 DEF Goes
<1>3. CASE SendStop(p)
  <2>1. step' \in [Plugins -> Steps]
    BY <1>2, <1>3 DEF SendStop, Steps
  <2>2. StopUnit(unit[p]) \in Unit
    BY <1>1 DEF StopUnit, Unit
  <2>3. unit' \in [Plugins -> Unit]
    BY <1>1, <1>3, <2>2 DEF SendStop
  <2> QED BY <1>1, <1>3, <2>1, <2>3, GoingTyped DEF SendStop
<1>4. CASE StopFails(p)
  BY <1>1, <1>2, <1>4, GoingTyped DEF StopFails, Steps
<1>5. CASE ReadKeys(p)
  <2>1. [got[p] EXCEPT !.key = keyring] \in
          [named : BOOLEAN, enabled : BOOLEAN, spec : Specs, settings : Nat,
           key : Nat]
    BY <1>1
  <2>2. got' \in [Plugins -> [named : BOOLEAN, enabled : BOOLEAN, spec : Specs,
                             settings : Nat, key : Nat]]
    BY <1>1, <1>5, <2>1 DEF ReadKeys
  <2>3. step' \in [Plugins -> Steps]
    BY <1>2, <1>5 DEF ReadKeys, Steps
  <2> QED BY <1>1, <1>5, <2>2, <2>3, GoingTyped DEF ReadKeys
<1>6. CASE Relaunch(p)
  <2>1. step' \in [Plugins -> Steps]
    BY <1>2, <1>6 DEF Relaunch, Steps
  <2>2. Launched(p) \in Unit /\ StartUnit(p) \in Unit
    BY <1>1, StartUnitType DEF Launched, Unit
  <2>3. unit' \in [Plugins -> Unit]
    BY <1>1, <1>6, <2>2 DEF Relaunch
  <2> QED BY <1>1, <1>6, <2>1, <2>3, GoingTyped DEF Relaunch
<1>7. CASE LaunchFails(p)
  BY <1>1, <1>2, <1>7, GoingTyped DEF LaunchFails, Steps
<1>8. CASE Poll(p)
  <2>1. step' \in [Plugins -> Steps]
    BY <1>2, <1>8 DEF Poll, Relaunches, Steps
  <2> QED BY <1>1, <1>8, <2>1, GoingTyped DEF Poll, Waiting
<1>9. CASE WaitRunsOut(p)
  <2>1. step' \in [Plugins -> Steps]
    BY <1>2, <1>9 DEF WaitRunsOut, Relaunches, Steps
  <2> QED BY <1>1, <1>9, <2>1, GoingTyped DEF WaitRunsOut, Waiting
<1> QED BY <1>3, <1>4, <1>5, <1>6, <1>7, <1>8, <1>9

LEMMA WorkTyped ==
  ASSUME Typed, Work
  PROVE  Typed'
<1>1. CASE Persist
  BY <1>1, PersistTyped
<1>2. CASE BeginStop \/ Load
  BY <1>2, BeginningTyped
<1>3. CASE LoadIsAll
  BY <1>3, LoadIsAllTyped
<1>4. CASE List \/ ListFails
  BY <1>4, ListingTyped
<1>5. CASE Finish
  <2>1. queue # <<>> /\ unlisted \in BOOLEAN
    BY <1>5 DEF Finish, Typed, Held, TypeOK
  <2>2. Leave(unlisted)
    BY <1>5 DEF Finish
  <2> QED BY <1>5, <2>1, <2>2, LeavingTyped DEF Finish, Typed, TypeOK, fileVars
<1>6. CASE PollFails
  <2>1. step' \in [Plugins -> Steps] /\ phase = "working"
    BY <1>6 DEF PollFails, Relaunches, Steps, Waiting, Typed, TypeOK
  <2> QED BY <1>6, <2>1, GoingTyped DEF PollFails, Typed, TypeOK
<1>7. ASSUME NEW p \in Plugins,
             \/ SendStop(p) \/ StopFails(p) \/ ReadKeys(p) \/ Relaunch(p)
             \/ LaunchFails(p) \/ Poll(p) \/ WaitRunsOut(p)
      PROVE  Typed'
  BY <1>7, WorkingTyped
<1> QED BY <1>1, <1>2, <1>3, <1>4, <1>5, <1>6, <1>7 DEF Work, Waits

LEMMA TypedInductive == Spec => []Typed
<1>1. Init => Typed
  <2> SUFFICES ASSUME Init PROVE Typed
    OBVIOUS
  <2>1. \A p \in Plugins : /\ json.readable \in BOOLEAN
                           /\ json.plugin[p] \in Declaration
    BY PluginLauncherAssumption DEF Init
  <2>2. got \in [Plugins -> [named : BOOLEAN, enabled : BOOLEAN, spec : Specs,
                            settings : Nat, key : Nat]]
    BY <2>1 DEF Init, Effective, Declaration
  <2>3. unit \in [Plugins -> Unit]
    BY PluginLauncherAssumption DEF Init
  <2>4. <<>> \in Seq(Flips) /\ <<>> \in Seq(Ops)
    OBVIOUS
  <2> QED BY <2>2, <2>3, <2>4 DEF Init, Typed, TypeOK, Held, Ops, Flips, Steps
<1>2. Typed /\ [Next]_vars => Typed'
  <2> SUFFICES ASSUME Typed, [Next]_vars PROVE Typed'
    OBVIOUS
  <2>1. CASE UNCHANGED vars
    BY <2>1 DEF Typed, TypeOK, Held, vars, fileVars, passVars, watchVars
  <2>2. CASE Next
    BY <2>2, OutsideTyped, TurnsTyped, WatchingTyped, WorkTyped DEF Next
  <2> QED BY <2>1, <2>2
<1> QED BY <1>1, <1>2, PTL DEF Spec

\* Types are kept, for any plugins, files and bounds.
THEOREM TypeCorrect == Spec => []TypeOK
<1>1. Typed => TypeOK
  BY DEF Typed
<1> QED BY <1>1, TypedInductive, PTL

-----------------------------------------------------------------------------
(* No revival.  A relaunch falls back to StartUnit only where the unit is  *)
(* not the launcher's own, and that is only ever a static one.             *)

Stamps == \A p \in Plugins : p \notin Static => unit[p].stamped
Fallbacks == \A p \in Plugins : fallback[p] => p \in Static

\* The steps that touch a unit.
LEMMA UnitChanges ==
  ASSUME [Next]_vars
  PROVE  \/ UNCHANGED unit \/ LoadIsAll
         \/ \E q \in Plugins : UnitMoves(q) \/ SendStop(q) \/ Relaunch(q)
<1>1. CASE Outside
  BY <1>1 DEF Outside, EditJson, RotateKey, Poke, SaveSettings, Flip, GiveUp
<1>2. CASE Turns
  BY <1>2 DEF Turns, TakeTurn
<1>3. CASE Watching
  BY <1>3 DEF Watching, WatchStarts, Tick, Raise
<1>4. CASE Work
  BY <1>4 DEF Work, Waits, Persist, BeginStop, Load, List, ListFails, Finish,
              PollFails, Poll, WaitRunsOut, StopFails, ReadKeys, LaunchFails
<1> QED BY <1>1, <1>2, <1>3, <1>4 DEF Next, vars

\* Any step leaves the units' stamps alone, or launches with one.
LEMMA StampsStay ==
  ASSUME Typed, Stamps, [Next]_vars
  PROVE  Stamps'
<1>1. unit \in [Plugins -> Unit]
  BY DEF Typed, TypeOK
<1>2. CASE UNCHANGED unit
  BY <1>2 DEF Stamps
<1>3. ASSUME NEW q, NEW u \in Unit, u.stamped \/ (q \in Plugins /\ u.stamped = unit[q].stamped),
             unit' = [unit EXCEPT ![q] = u]
      PROVE  Stamps'
  BY <1>1, <1>3 DEF Stamps
<1>4. ASSUME NEW q \in Plugins, NEW to \in {"gone", "up", "crashing", "stopping"},
             unit' = [unit EXCEPT ![q].at = to]
      PROVE  Stamps'
  BY <1>1, <1>4 DEF Stamps, Unit
<1>5. ASSUME NEW q \in Plugins, UnitMoves(q) PROVE Stamps'
  BY <1>4, <1>5 DEF UnitMoves, StopCompletes, Crash, ComesBack, Exits
<1>6. ASSUME NEW q \in Plugins, SendStop(q) PROVE Stamps'
  BY <1>2, <1>4, <1>6 DEF SendStop, StopUnit
<1>7. ASSUME NEW q \in Plugins, unit' = [unit EXCEPT ![q] = StartUnit(q)]
      PROVE  Stamps'
  <2>1. StartUnit(q) \in Unit /\ StartUnit(q).stamped = unit[q].stamped
    BY <1>1, StartUnitType DEF StartUnit, Unit
  <2> QED BY <1>3, <1>7, <2>1
<1>8. ASSUME NEW q \in Plugins, Relaunch(q) PROVE Stamps'
  <2>1. unit' = [unit EXCEPT ![q] = Launched(q)] => Stamps'
    <3>1. \A p \in Plugins : got[p].spec \in Specs /\ got[p].settings \in Nat
                             /\ got[p].key \in Nat
      BY DEF Typed, TypeOK
    <3>2. Launched(q) \in Unit /\ Launched(q).stamped
      BY <3>1 DEF Launched, Unit
    <3> QED BY <1>3, <3>2
  <2> QED BY <1>2, <1>7, <1>8, <2>1 DEF Relaunch
<1>9. CASE LoadIsAll
  <2>1. \/ UNCHANGED unit
        \/ unit' = [unit EXCEPT ![Holder.plugin] = StartUnit(Holder.plugin)]
    BY <1>9 DEF LoadIsAll
  <2>2. ASSUME Holder.plugin \notin Plugins,
               unit' = [unit EXCEPT ![Holder.plugin] = StartUnit(Holder.plugin)]
        PROVE  UNCHANGED unit
    BY <1>1, <2>2
  <2> QED BY <1>2, <1>7, <2>1, <2>2
<1>10. \/ UNCHANGED unit \/ LoadIsAll
       \/ \E q \in Plugins : UnitMoves(q) \/ SendStop(q) \/ Relaunch(q)
  BY UnitChanges
<1> QED BY <1>2, <1>5, <1>6, <1>8, <1>9, <1>10

\* A fallback is decided on the stamp of the unit that a listing showed.
LEMMA FallbacksStay ==
  ASSUME Typed, Stamps, Fallbacks, [Next]_vars
  PROVE  Fallbacks'
<1>1. CASE UNCHANGED fallback
  BY <1>1 DEF Fallbacks
<1>2. CASE List
  BY <1>2 DEF List, Fallbacks, Stamps
<1>3. CASE ListFails
  <2>1. UNCHANGED fallback \/ fallback' = [p \in Plugins |-> FALSE]
    BY <1>3 DEF ListFails
  <2> QED BY <1>1, <2>1 DEF Fallbacks
<1>4. UNCHANGED fallback \/ List \/ ListFails
  <2>1. CASE Outside
    BY <2>1 DEF Outside, EditJson, RotateKey, Poke, SaveSettings, Flip, GiveUp,
                UnitMoves, StopCompletes, Crash, ComesBack, Exits, passVars
  <2>2. CASE Turns
    BY <2>2 DEF Turns, TakeTurn, passVars
  <2>3. CASE Watching
    BY <2>3 DEF Watching, WatchStarts, Tick, Raise, passVars
  <2>4. CASE Work
    BY <2>4 DEF Work, Waits, Persist, BeginStop, Load, LoadIsAll, Finish, Poll,
                PollFails, WaitRunsOut, SendStop, StopFails, ReadKeys, Relaunch,
                LaunchFails, passVars
  <2> QED BY <2>1, <2>2, <2>3, <2>4 DEF Next, vars, passVars
<1> QED BY <1>1, <1>2, <1>3, <1>4

LEMMA OwnUnits == Spec => [](Typed /\ Stamps /\ Fallbacks)
<1>1. Init => Stamps /\ Fallbacks
  BY PluginLauncherAssumption DEF Init, Stamps, Fallbacks
<1>2. Typed /\ Stamps /\ Fallbacks /\ [Next]_vars => (Stamps /\ Fallbacks)'
  BY StampsStay, FallbacksStay
<1> QED BY <1>1, <1>2, TypedInductive, PTL DEF Spec

\* What may bring a stopping unit back: the stop completes, or StartUnit.
LEMMA NoRevivalStep ==
  ASSUME Typed, Fallbacks, [Next]_vars, NEW p \in Plugins \ Static,
         unit[p].at = "stopping", unit'[p].at # "stopping"
  PROVE  unit'[p].at = "gone" \/ ~Effective(p).named
<1>1. unit \in [Plugins -> Unit]
  BY DEF Typed, TypeOK
<1>2. unit' # unit
  OBVIOUS
<1>3. ASSUME NEW q \in Plugins, UnitMoves(q) PROVE unit'[p].at = "gone"
  <2>1. q = p
    BY <1>1, <1>3 DEF UnitMoves, StopCompletes, Crash, ComesBack, Exits
  <2>2. unit' = [unit EXCEPT ![p].at = "gone"]
    BY <1>3, <2>1 DEF UnitMoves, StopCompletes, Crash, ComesBack, Exits
  <2> QED BY <1>1, <2>2 DEF Unit
<1>4. ASSUME NEW q \in Plugins, SendStop(q) PROVE FALSE
  BY <1>1, <1>2, <1>4 DEF SendStop, StopUnit, Unit
<1>5. ASSUME NEW q \in Plugins, Relaunch(q) PROVE FALSE
  <2>1. ~fallback[p] /\ p \notin Static
    BY DEF Fallbacks
  <2>2. q = p
    BY <1>1, <1>5 DEF Relaunch
  <2> QED BY <1>2, <1>5, <2>1, <2>2 DEF Relaunch
<1>6. CASE LoadIsAll
  <2>1. Holder.kind = "start"
    BY <1>2, <1>6 DEF LoadIsAll
  <2>2. Holder.plugin = p
    BY <1>1, <1>6, <2>1 DEF LoadIsAll
  <2>3. p \notin {q \in Plugins : Effective(q).named}
    BY <1>6, <2>1, <2>2 DEF LoadIsAll, Listable, Passes
  <2> QED BY <2>3
<1>7. \/ LoadIsAll
      \/ \E q \in Plugins : UnitMoves(q) \/ SendStop(q) \/ Relaunch(q)
  BY <1>2, UnitChanges
<1> QED BY <1>3, <1>4, <1>5, <1>6, <1>7

\* A unit that was told to stop goes, unless its declaration has: for any
\* plugins, files and bounds, and any order of flips, passes and crashes.
THEOREM NeverRevived == Spec => NoRevival
<1>1. Typed /\ Fallbacks /\ [Next]_vars =>
        [\A p \in Plugins \ Static :
           unit[p].at = "stopping" /\ unit'[p].at # "stopping" =>
             unit'[p].at = "gone" \/ ~Effective(p).named]_vars
  BY NoRevivalStep
<1> QED BY <1>1, OwnUnits, PTL DEF Spec, NoRevival

-----------------------------------------------------------------------------
(* A blind pass is owed another.  The holder of a pass that lists owes     *)
(* nothing until it leaves, and only a pass can be blind.                  *)

Owing ==
  /\ watch.seen <= stamp
  /\ phase = "working" /\ unlisted => Holder.kind \in Passes
  /\ phase = "working" /\ ~unlisted /\ Holder.kind \in Passes => ~owed
  /\ BlindPassIsOwed

\* Asking for the lock does not change its holder.
LEMMA HolderStays ==
  ASSUME Typed, queue # <<>>, NEW op, Ask(op)
  PROVE  Head(queue') = Head(queue)
<1>1. queue \in Seq(Ops)
  BY DEF Typed, TypeOK, Ops
<1> QED BY <1>1 DEF Ask

\* What the pass, the watch and the file are left alone by.
LEMMA OwingKept ==
  ASSUME Typed, Owing, queue # <<>> => Head(queue') = Head(queue),
         UNCHANGED <<json, stamp, phase, unlisted, watch, raising,
                     reloadUnlisted, owed>>
  PROVE  Owing'
BY DEF Typed, Held, Owing, BlindPassIsOwed, Holder

LEMMA OutsideOwing ==
  ASSUME Typed, Owing, Outside \/ Turns
  PROVE  Owing'
<1>1. CASE EditJson
  <2>1. /\ watch.seen \in Nat /\ stamp \in Nat /\ watch.seen <= stamp
        /\ stamp' = stamp + 1
        /\ UNCHANGED <<queue, phase, unlisted, watch, owed>>
    BY <1>1 DEF Typed, TypeOK, Owing, EditJson, passVars, watchVars, checkVars
  <2>2. watch'.seen <= stamp' /\ watch'.seen # stamp'
    BY <2>1
  <2> QED BY <2>1, <2>2 DEF Owing, BlindPassIsOwed, Holder
<1>2. ASSUME NEW op, Ask(op) PROVE queue # <<>> => Head(queue') = Head(queue)
  BY <1>2, HolderStays
<1>3. ~EditJson => /\ UNCHANGED <<json, stamp, phase, unlisted, watch, raising,
                                  reloadUnlisted, owed>>
                   /\ UNCHANGED queue \/ \E op : Ask(op)
  <2> USE DEF fileVars, passVars, watchVars, checkVars
  <2>1. CASE RotateKey \/ Poke
    BY <2>1 DEF RotateKey, Poke
  <2>2. ASSUME NEW p \in Plugins,
               UnitMoves(p) \/ \E n \in DOMAIN flips[p] : GiveUp(p, n)
        PROVE  UNCHANGED <<json, stamp, phase, unlisted, watch, raising,
                           reloadUnlisted, owed, queue>>
    BY <2>2 DEF UnitMoves, StopCompletes, Crash, ComesBack, Exits, GiveUp
  <2>3. ASSUME NEW p \in Plugins,
               SaveSettings(p) \/ \E on \in BOOLEAN : Flip(p, on)
        PROVE  /\ UNCHANGED <<json, stamp, phase, unlisted, watch, raising,
                              reloadUnlisted, owed>>
               /\ \E op : Ask(op)
    BY <2>3 DEF SaveSettings, Flip
  <2>4. CASE Turns
    <3>1. PICK p \in Plugins : \E n \in DOMAIN flips[p] : TakeTurn(p, n)
      BY <2>4 DEF Turns
    <3>2. PICK n \in DOMAIN flips[p] : TakeTurn(p, n)
      BY <3>1
    <3>3. UNCHANGED queue \/ \E op : Ask(op)
      BY <3>2 DEF TakeTurn
    <3> QED BY <3>2, <3>3 DEF TakeTurn
  <2> QED BY <2>1, <2>2, <2>3, <2>4 DEF Outside
<1> QED BY <1>1, <1>2, <1>3, OwingKept

LEMMA WatchingOwing ==
  ASSUME Typed, Owing, Watching
  PROVE  Owing'
<1>1. ASSUME NEW op, Ask(op) PROVE queue # <<>> => Head(queue') = Head(queue)
  BY <1>1, HolderStays
<1>2. phase = "working" => queue # <<>>
  BY DEF Typed, Held
<1>3. CASE WatchStarts \/ Tick
  <2>1. /\ watch'.at = "converging" /\ watch'.seen = stamp
    <3>1. CASE WatchStarts
      <4>1. watch' = [watch EXCEPT !.at = "converging", !.seen = stamp]
        BY <3>1 DEF WatchStarts
      <4>2. watch \in [at : {"starting", "sleeping", "converging"},
                       seen : Nat, pending : BOOLEAN]
        BY DEF Typed, TypeOK
      <4> QED BY <4>1, <4>2
    <3>2. CASE Tick
      BY <3>2 DEF Tick
    <3> QED BY <1>3, <3>1, <3>2
  <2>2. UNCHANGED <<stamp, phase, unlisted, owed>> /\ \E op : Ask(op)
    BY <1>3 DEF WatchStarts, Tick, fileVars, passVars, checkVars
  <2>3. watch'.seen <= stamp'
    BY <2>1, <2>2 DEF Typed, TypeOK
  <2> QED BY <1>1, <1>2, <2>1, <2>2, <2>3 DEF Owing, BlindPassIsOwed, Holder
<1>4. CASE Raise
  BY <1>4 DEF Raise, Owing, BlindPassIsOwed, Holder, fileVars, passVars,
              checkVars
<1> QED BY <1>3, <1>4 DEF Watching

\* A holder that leaves: blind, or owing nothing, or with a file it could not
\* read, or with no say over the watch.
LEMMA LeavingOwing ==
  ASSUME Typed, Owing, NEW blind \in BOOLEAN, Leave(blind),
         UNCHANGED <<json, stamp>>,
         \/ blind /\ Holder.kind \in Passes
         \/ ~blind /\ (Holder.kind \in Passes => ~owed \/ ~json.readable)
  PROVE  Owing'
<1> USE DEF Leave, Leaves, Passes
<1>1. phase' = "idle"
  OBVIOUS
<1>2. watch'.seen <= stamp'
  BY DEF Owing
<1>3. owed' = (owed \/ blind)
  OBVIOUS
<1>4. CASE blind
  <2>1. watch'.pending \/ raising'
    BY <1>4
  <2> QED BY <1>1, <1>2, <2>1 DEF Owing, BlindPassIsOwed
<1>5. CASE ~blind
  <2>1. CASE Holder.kind \in Passes
    BY <1>1, <1>2, <1>3, <1>5, <2>1 DEF Owing, BlindPassIsOwed
  <2>2. CASE Holder.kind \notin Passes
    <3>1. UNCHANGED <<watch, reloadUnlisted>> /\ raising' = raising
      BY <1>5, <2>2 DEF Typed, TypeOK
    <3> QED BY <1>1, <1>2, <1>3, <1>5, <3>1 DEF Owing, BlindPassIsOwed
  <2> QED BY <2>1, <2>2
<1> QED BY <1>4, <1>5

LEMMA WorkOwing ==
  ASSUME Typed, Owing, Work
  PROVE  Owing'
<1>1. CASE Persist
  BY <1>1 DEF Persist, Holds, Owing, BlindPassIsOwed, passVars, watchVars
<1>2. CASE BeginStop
  BY <1>2 DEF BeginStop, Holds, Owing, BlindPassIsOwed, Holder, Passes, fileVars,
              watchVars
<1>3. CASE Load
  BY <1>3 DEF Load, Owing, BlindPassIsOwed, fileVars, watchVars, checkVars
<1>4. CASE LoadIsAll
  <2>1. Holder.kind \in Passes => ~json.readable
    <3>1. ~Listable
      BY <1>4 DEF LoadIsAll
    <3>2. ASSUME Holder.kind \in {"startup", "tick", "poke"}
          PROVE  Listable = json.readable
      BY <3>2 DEF Listable, Passes
    <3> QED BY <3>1, <3>2 DEF Passes
  <2> QED BY <1>4, <2>1, LeavingOwing DEF LoadIsAll, fileVars
<1>5. CASE List
  <2>1. /\ phase' = "working" /\ unlisted' = FALSE
        /\ UNCHANGED <<json, stamp, queue, watch, raising, reloadUnlisted>>
        /\ owed' = (owed /\ Holder.kind \notin Passes)
    BY <1>5 DEF List, fileVars, watchVars
  <2> QED BY <2>1 DEF Owing, BlindPassIsOwed, Holder
<1>6. CASE ListFails
  <2>1. CASE Holder.kind \in {"startup", "poke", "start"}
    <3>1. /\ unlisted' = (Holder.kind \in {"startup", "poke"})
          /\ UNCHANGED <<json, stamp, queue, watch, raising, reloadUnlisted,
                         owed>>
      BY <1>6, <2>1 DEF ListFails, fileVars, watchVars
    <3> QED BY <2>1, <3>1 DEF Owing, BlindPassIsOwed, Holder, Passes
  <2>2. CASE Holder.kind \notin {"startup", "poke", "start"}
    <3>1. Leave(Holder.kind = "tick") /\ UNCHANGED <<json, stamp>>
      BY <1>6, <2>2 DEF ListFails, fileVars
    <3> QED BY <2>2, <3>1, LeavingOwing DEF Passes
  <2> QED BY <2>1, <2>2
<1>7. CASE Finish
  <2>1. Leave(unlisted) /\ UNCHANGED <<json, stamp>> /\ phase = "working"
    BY <1>7 DEF Finish, fileVars
  <2>2. unlisted \in BOOLEAN
    BY DEF Typed, TypeOK
  <2> QED BY <2>1, <2>2, LeavingOwing DEF Owing
<1>8. CASE Waits \/ \E p \in Plugins : \/ SendStop(p) \/ StopFails(p)
                                      \/ ReadKeys(p) \/ Relaunch(p)
                                      \/ LaunchFails(p)
  <2>1. UNCHANGED <<json, stamp, queue, phase, unlisted, watch, raising,
                    reloadUnlisted, owed>>
    BY <1>8 DEF Waits, PollFails, Poll, WaitRunsOut, SendStop, StopFails,
                ReadKeys, Relaunch, LaunchFails, fileVars, watchVars, checkVars
  <2> QED BY <2>1, OwingKept
<1> QED BY <1>1, <1>2, <1>3, <1>4, <1>5, <1>6, <1>7, <1>8 DEF Work

LEMMA OwingInductive == Spec => []Owing
<1>1. Init => Owing
  BY DEF Init, Owing, BlindPassIsOwed
<1>2. Typed /\ Owing /\ [Next]_vars => Owing'
  <2> SUFFICES ASSUME Typed, Owing, [Next]_vars PROVE Owing'
    OBVIOUS
  <2>1. CASE UNCHANGED vars
    BY <2>1, OwingKept DEF vars, fileVars, passVars, watchVars, checkVars
  <2>2. CASE Next
    BY <2>2, OutsideOwing, WatchingOwing, WorkOwing DEF Next
  <2> QED BY <2>1, <2>2
<1> QED
  BY <1>1, <1>2, TypedInductive, PTL DEF Spec

\* Whoever's pass could not list, the watch comes back for it, however passes,
\* pokes and edits interleave: for any plugins, files and bounds.
THEOREM BlindPassesAreOwed == Spec => []BlindPassIsOwed
<1>1. Owing => BlindPassIsOwed
  BY DEF Owing
<1> QED BY <1>1, OwingInductive, PTL

-----------------------------------------------------------------------------
(* What is on runs from the newest, and what is off does not.  A plugin is *)
(* as it should be, or something under way will see to it: a pass still to *)
(* come, its newest switch, a step of the operation that has the lock; or  *)
(* an error was told.                                                      *)

Places == 1..Len(queue)
Begun(i) == i = 1 /\ phase # "idle"
Listed(i) == i = 1 /\ phase = "working"

\* An operation of these is queued and has not read the declaration, or has
\* not listed the units.
ToCome(ops) == \E i \in Places : queue[i] \in ops /\ ~Begun(i)
Unlisted(ops) == \E i \in Places : queue[i] \in ops /\ ~Listed(i)

PassOps == {o \in Ops : o.kind \in Passes}
SavesOf(p) == {o \in Ops : o.kind = "save" /\ o.plugin = p}
Rotations == {o \in Ops : o.kind = "rotate"}
WatchOps == {o \in Ops : o.kind \in {"startup", "tick"}}
Of(kind, p, n) == {o \in Ops : o.kind = kind /\ o.plugin = p /\ o.flip = n}

\* A pass that reads the declaration later than now.
Later ==
  \/ ~json.readable \/ watch.at = "starting" \/ watch.seen # stamp
  \/ watch.at = "sleeping" /\ watch.pending
  \/ raising \/ reloadUnlisted
  \/ phase = "working" /\ unlisted
  \/ ToCome(PassOps)

\* Or one that has read it and lists the units later than now.
Due == Later \/ (phase = "listing" /\ Holder.kind \in Passes)

\* The newest switch of the plugin has still to take effect.  The first one
\* may be refused with nothing said: it changes nothing then.
Coming(p, n) ==
  \/ flips[p][n].at = "kept"
  \/ Unlisted(Of("start", p, n)) \/ ToCome(Of("stop", p, n))
  \/ n > 1 /\ ToCome(Of("persist", p, n))
FlipToCome(p) == \E n \in Nat \ {0} : n = Len(flips[p]) /\ Coming(p, n)

Working(p, steps) == phase = "working" /\ step[p] \in steps
Launching == {"restart", "down", "wait", "replace", "launch", "relaunch"}

\* What the declaration says of the plugin.
On(p) == Effective(p).enabled
Declared(p) == json.plugin[p].spec

\* The plugin is as its declaration says.
Right(p) ==
  /\ On(p) => Lives(p)
  /\ p \notin Static /\ ~On(p) /\ ~overlooked[p] => ~Lives(p)
  /\ p \notin Static /\ On(p) /\ Lives(p) => unit[p].spec = Declared(p)

RightOrToCome(p) ==
  \/ excused[p] \/ Due \/ FlipToCome(p)
  \/ Working(p, Launching \cup {"stop"}) \/ Right(p)

\* A stop that is under way is one that is wanted.
StopIsMeant(p) ==
  Working(p, {"stop"}) =>
    excused[p] \/ Later \/ FlipToCome(p) \/ ~On(p)

\* What the holder read is of now, or a later pass and a later Save follow.
GotIsFresh(p) ==
  phase = "listing" \/ (phase = "working" /\ Holder.kind # "stop") =>
    /\ Later \/ /\ got[p].enabled = On(p)
                /\ got[p].spec = Declared(p)
    /\ got[p].settings = saved[p] \/ ToCome(SavesOf(p))
KeyIsFresh(p) ==
  Working(p, Launching \ {"launch"}) =>
    got[p].key = keyring \/ Unlisted(Rotations)

LaunchIsMeant(p) ==
  Working(p, Launching) =>
    /\ Holder.kind # "stop"
    /\ got[p].enabled \/ (Holder.kind = "start" /\ Holder.plugin = p)

\* A unit of ours that was told to stop stays down until it is relaunched.
DownIsDown(p) ==
  p \notin Static /\ Working(p, {"down"}) => unit[p].at \in {"stopping", "gone"}

\* A unit has the settings and the key of now, or an operation that will look
\* at it is queued, or it is about to be stopped.
SettingsRun(p) ==
  p \notin Static /\ Lives(p) /\ ~stale[p] =>
    \/ unit[p].settings = saved[p] \/ Unlisted(SavesOf(p))
    \/ Working(p, {"restart", "stop"})
KeyRuns(p) ==
  p \in Readers \ Static /\ Lives(p) /\ ~stale[p] =>
    \/ unit[p].key = keyring \/ Unlisted(Rotations)
    \/ Working(p, {"restart", "stop"})

Seen(p) ==
  /\ RightOrToCome(p) /\ StopIsMeant(p) /\ GotIsFresh(p) /\ KeyIsFresh(p)
  /\ LaunchIsMeant(p) /\ DownIsDown(p) /\ SettingsRun(p) /\ KeyRuns(p)

Resting ==
  /\ phase # "working" => \A p \in Plugins : step[p] = "none"
  /\ phase # "idle" => Holder.kind # "persist"
  /\ phase = "listing" => Holder.kind # "stop"

\* The watch has one pass in the queue at most, and sleeps when it has none.
Watches ==
  \A i, j \in Places :
    queue[i].kind \in {"startup", "tick"} =>
      /\ watch.at = "converging"
      /\ queue[j].kind \in {"startup", "tick"} => i = j

\* The calls of a switch: one at a time for each flip, none for one that is
\* kept, and behind it the choices of all the newer flips.
OfFlip == {"persist", "start", "stop"}
CallIsOf(i, p, n) ==
  queue[i].kind \in OfFlip /\ queue[i].plugin = p /\ queue[i].flip = n
Calls ==
  /\ \A i \in Places :
       /\ queue[i].kind \in OfFlip <=> queue[i].flip # 0
       /\ queue[i].kind \in OfFlip \cup {"save"} => queue[i].plugin \in Plugins
  /\ \A i \in Places : \A p \in Plugins : \A n \in Nat : CallIsOf(i, p, n) =>
       /\ n \in 1..Len(flips[p]) /\ flips[p][n].at # "kept"
       /\ \A j \in Places : CallIsOf(j, p, n) => i = j
       /\ \A m \in Nat : m > n /\ m <= Len(flips[p]) =>
            \E j \in Places : j > i /\ queue[j] \in Of("persist", p, m)

LInv == (\A p \in Plugins : Seen(p)) /\ Resting /\ Watches /\ Calls

-----------------------------------------------------------------------------
(* The queue.                                                              *)

LEMMA QueueFacts ==
  ASSUME Typed
  PROVE  /\ queue \in Seq(Ops) /\ Len(queue) \in Nat
         /\ \A i \in Places : queue[i] \in Ops /\ i \in Nat
         /\ queue # <<>> => 1 \in Places /\ Holder = queue[1]
         /\ phase # "idle" => queue # <<>>
<1>1. queue \in Seq(Ops)
  BY DEF Typed, TypeOK, Ops
<1>2. Len(queue) \in Nat /\ \A i \in Places : queue[i] \in Ops /\ i \in Nat
  BY <1>1, LenProperties, ElementOfSeq DEF Places
<1>3. queue # <<>> => Len(queue) > 0
  BY <1>1, EmptySeq
<1> QED
  BY <1>1, <1>2, <1>3 DEF Places, Holder, Typed, Held

\* Asking adds a place that has not begun.
LEMMA Asked ==
  ASSUME Typed, NEW op \in Ops, Ask(op), phase' = phase
  PROVE  \E k \in Nat \ {0} :
           /\ k \notin Places /\ Places' = Places \cup {k}
           /\ \A i \in Places : i < k
           /\ \A i \in Places : queue'[i] = queue[i]
           /\ queue'[k] = op /\ (k = 1 => phase = "idle")
<1>1. /\ queue' \in Seq(Ops) /\ Len(queue') = Len(queue) + 1
      /\ \A i \in 1..Len(queue) : queue'[i] = queue[i]
      /\ queue'[Len(queue) + 1] = op
  BY QueueFacts, AppendProperties DEF Ask
<1>2. Len(queue) \in Nat
  BY QueueFacts
<1>3. Places' = Places \cup {Len(queue) + 1}
  BY <1>1, <1>2 DEF Places
<1>4. Len(queue) = 0 => phase = "idle"
  BY QueueFacts, EmptySeq
<1> QED
  BY <1>1, <1>2, <1>3, <1>4 DEF Places

LEMMA AskedKeeps ==
  ASSUME Typed, NEW op \in Ops, Ask(op), phase' = phase, NEW ops
  PROVE  /\ ToCome(ops) => ToCome(ops)'
         /\ Unlisted(ops) => Unlisted(ops)'
         /\ op \in ops => ToCome(ops)' /\ Unlisted(ops)'
         /\ phase # "idle" => Holder' = Holder
<1>1. PICK k \in Nat \ {0} :
           /\ k \notin Places /\ Places' = Places \cup {k}
           /\ \A i \in Places : i < k
           /\ \A i \in Places : queue'[i] = queue[i]
           /\ queue'[k] = op /\ (k = 1 => phase = "idle")
  BY Asked
<1>2. phase # "idle" => Holder' = Holder
  BY QueueFacts, HolderStays DEF Holder
<1> QED
  BY <1>1, <1>2 DEF ToCome, Unlisted, Begun, Listed

\* The queue rests, and its holder may go on.
LEMMA RestKeeps ==
  ASSUME Typed, queue' = queue, NEW ops
  PROVE  /\ ToCome(ops) => \/ ToCome(ops)'
                           \/ phase = "idle" /\ phase' # "idle" /\ Holder \in ops
         /\ Unlisted(ops) => \/ Unlisted(ops)'
                             \/ /\ phase # "working" /\ phase' = "working"
                                /\ Holder \in ops
         /\ Holder' = Holder
  BY QueueFacts DEF ToCome, Unlisted, Begun, Listed, Holder, Places

\* Leaving takes the first place away.
LEMMA LeftKeeps ==
  ASSUME Typed, queue # <<>>, queue' = Tail(queue), phase' = "idle", NEW ops
  PROVE  /\ ToCome(ops) => ToCome(ops)' \/ (phase = "idle" /\ Holder \in ops)
         /\ Unlisted(ops) =>
              Unlisted(ops)' \/ (phase # "working" /\ Holder \in ops)
<1>1. /\ \A i \in Places : i # 1 => i - 1 \in Places' /\ queue'[i - 1] = queue[i]
      /\ 1 \in Places /\ Holder = queue[1]
  BY QueueFacts, HeadTailProperties DEF Places
<1> QED
  BY <1>1 DEF ToCome, Unlisted, Begun, Listed

LEMMA ToComeUnlisted ==
  ASSUME NEW ops, ToCome(ops)
  PROVE  Unlisted(ops)
  BY DEF ToCome, Unlisted, Begun, Listed

-----------------------------------------------------------------------------
(* What a step that does not concern a plugin may change.                  *)

LEMMA Unconcerned ==
  ASSUME NEW q \in Plugins, Seen(q),
         phase' = phase, phase # "idle" => Holder' = Holder,
         unit'[q] = unit[q], step'[q] = step[q], got'[q] = got[q],
         overlooked'[q] = overlooked[q],
         excused[q] => excused'[q], stale[q] => stale'[q],
         Later => Later', FlipToCome(q) => FlipToCome(q)' \/ excused'[q],
         Later' \/ (On(q)' = On(q) /\ Declared(q)' = Declared(q)),
         saved'[q] = saved[q] \/ ToCome(SavesOf(q))',
         ToCome(SavesOf(q)) => ToCome(SavesOf(q))',
         Unlisted(SavesOf(q)) => Unlisted(SavesOf(q))',
         keyring' = keyring \/ Unlisted(Rotations)',
         Unlisted(Rotations) => Unlisted(Rotations)'
  PROVE  Seen(q)'
<1>1. Due => Due'
  BY DEF Due
<1>2. Later' => Due'
  BY DEF Due
<1>3. \A steps : Working(q, steps)' <=> Working(q, steps)
  BY DEF Working
<1>4. Lives(q)' <=> Lives(q)
  BY DEF Lives
<1>5. Right(q) => Later' \/ Right(q)'
  BY <1>4 DEF Right
<1>6. RightOrToCome(q)'
  BY <1>1, <1>2, <1>3, <1>5 DEF Seen, RightOrToCome
<1>7. StopIsMeant(q)'
  BY <1>3 DEF Seen, StopIsMeant
<1>8. GotIsFresh(q)'
  BY DEF Seen, GotIsFresh
<1>9. KeyIsFresh(q)'
  BY <1>3 DEF Seen, KeyIsFresh
<1>10. LaunchIsMeant(q)'
  BY <1>3 DEF Seen, LaunchIsMeant, Working
<1>11. DownIsDown(q)'
  BY <1>3 DEF Seen, DownIsDown
<1>12. SettingsRun(q)'
  <2>1. ToCome(SavesOf(q))' => Unlisted(SavesOf(q))'
    BY DEF ToCome, Unlisted, Begun, Listed
  <2> QED
    BY <1>3, <1>4, <2>1 DEF Seen, SettingsRun
<1>13. KeyRuns(q)'
  BY <1>3, <1>4 DEF Seen, KeyRuns
<1> QED
  BY <1>6, <1>7, <1>8, <1>9, <1>10, <1>11, <1>12, <1>13 DEF Seen

-----------------------------------------------------------------------------
(* The variables kept for the properties.                                  *)

Checked ==
  /\ excused \in [Plugins -> BOOLEAN] /\ overlooked \in [Plugins -> BOOLEAN]
  /\ stale \in [Plugins -> BOOLEAN]

LEMMA ExcusedStays ==
  ASSUME Checked, [Next]_vars
  PROVE  excused' \in [Plugins -> BOOLEAN]
<1>1. ASSUME NEW p, NEW err \in BOOLEAN, Answer(p, err)
      PROVE  excused' \in [Plugins -> BOOLEAN]
  BY <1>1 DEF Answer, Checked
<1>2. ASSUME NEW ps, Excuse(ps)
      PROVE  excused' \in [Plugins -> BOOLEAN]
  <2>1. \A p \in Plugins : (excused[p] \/ p \in ps) \in BOOLEAN
    OBVIOUS
  <2> QED
    BY <1>2, <2>1 DEF Excuse
<1>3. CASE UNCHANGED excused
  BY <1>3 DEF Checked
<1>4. CASE Outside
  <2>1. CASE EditJson \/ RotateKey \/ Poke
    BY <1>3, <2>1 DEF EditJson, RotateKey, Poke, checkVars
  <2>2. ASSUME NEW p \in Plugins,
               \/ StopCompletes(p) \/ Crash(p) \/ ComesBack(p)
               \/ SaveSettings(p) \/ \E on \in BOOLEAN : Flip(p, on)
        PROVE  UNCHANGED excused
    BY <2>2 DEF StopCompletes, Crash, ComesBack, SaveSettings, Flip, checkVars
  <2>3. ASSUME NEW p \in Plugins, Exits(p)
        PROVE  excused' \in [Plugins -> BOOLEAN]
    BY <2>3 DEF Exits, Checked
  <2>4. ASSUME NEW p \in Plugins, NEW n, GiveUp(p, n)
        PROVE  excused' \in [Plugins -> BOOLEAN]
    BY <2>4 DEF GiveUp, Checked
  <2> QED
    BY <1>3, <1>4, <2>1, <2>2, <2>3, <2>4 DEF Outside, UnitMoves
<1>5. CASE Turns \/ Watching
  BY <1>3, <1>5 DEF Turns, TakeTurn, Watching, WatchStarts, Tick, Raise, checkVars
<1>6. CASE Persist
  BY <1>2, <1>6 DEF Persist
<1>7. CASE BeginStop
  BY <1>2, <1>7 DEF BeginStop
<1>8. CASE LoadIsAll
  BY <1>2, <1>3, <1>8 DEF LoadIsAll
<1>9. CASE List
  <2>1. PICK pass \in BOOLEAN :
          excused' = [p \in Plugins |-> excused[p] /\ ~pass]
    BY <1>9 DEF List
  <2> QED
    BY <2>1
<1>10. CASE Load \/ ListFails \/ Finish \/ PollFails
  BY <1>3, <1>10 DEF Load, ListFails, Finish, PollFails, checkVars
<1>11. ASSUME NEW p \in Plugins, Poll(p) \/ ReadKeys(p)
       PROVE  UNCHANGED excused
  BY <1>11 DEF Poll, ReadKeys, checkVars
<1>12. ASSUME NEW p \in Plugins, SendStop(p) \/ StopFails(p) \/ LaunchFails(p)
       PROVE  excused' \in [Plugins -> BOOLEAN]
  BY <1>1, <1>3, <1>12 DEF SendStop, StopFails, LaunchFails
<1>13. ASSUME NEW p \in Plugins, WaitRunsOut(p)
       PROVE  excused' \in [Plugins -> BOOLEAN]
  BY <1>1, <1>13 DEF WaitRunsOut
<1>14. ASSUME NEW p \in Plugins, Relaunch(p)
       PROVE  excused' \in [Plugins -> BOOLEAN]
  <2>1. CASE Answer(p, TRUE)
    BY <1>1, <2>1
  <2>2. CASE excused' = [excused EXCEPT ![p] =
                         ~got[p].enabled /\ Holder.flip = Len(flips[p])]
    BY <2>2 DEF Checked
  <2> QED
    BY <1>14, <2>1, <2>2 DEF Relaunch
<1>15. CASE UNCHANGED vars
  BY <1>3, <1>15 DEF vars, checkVars
<1> QED
  BY <1>3, <1>4, <1>5, <1>6, <1>7, <1>8, <1>9, <1>10, <1>11, <1>12, <1>13,
     <1>14, <1>15 DEF Next, Work, Waits

LEMMA StaleStays ==
  ASSUME Checked, [Next]_vars
  PROVE  stale' \in [Plugins -> BOOLEAN]
<1>1. ASSUME NEW ps, Stale(ps)
      PROVE  stale' \in [Plugins -> BOOLEAN]
  <2>1. \A p \in Plugins : (stale[p] \/ p \in ps) \in BOOLEAN
    OBVIOUS
  <2> QED
    BY <1>1, <2>1 DEF Stale
<1>2. CASE UNCHANGED stale
  BY <1>2 DEF Checked
<1>3. CASE Outside \/ Turns \/ Watching
  <2>1. UNCHANGED stale
    BY <1>3 DEF Outside, EditJson, RotateKey, Poke, UnitMoves, StopCompletes,
       Crash, ComesBack, Exits, SaveSettings, Flip, GiveUp, Turns, TakeTurn,
       Watching, WatchStarts, Tick, Raise, checkVars
  <2> QED
    BY <1>2, <2>1
<1>4. CASE Persist \/ BeginStop \/ Load \/ Finish \/ PollFails
  BY <1>2, <1>4 DEF Persist, BeginStop, Load, Finish, PollFails, checkVars
<1>5. CASE LoadIsAll
  BY <1>1, <1>5 DEF LoadIsAll
<1>6. CASE List
  BY <1>1, <1>6 DEF List
<1>7. CASE ListFails
  BY <1>1, <1>2, <1>7 DEF ListFails
<1>8. ASSUME NEW p \in Plugins,
             Poll(p) \/ WaitRunsOut(p) \/ SendStop(p) \/ ReadKeys(p) \/ LaunchFails(p)
      PROVE  UNCHANGED stale
  BY <1>8 DEF Poll, WaitRunsOut, SendStop, ReadKeys, LaunchFails, checkVars
<1>9. ASSUME NEW p \in Plugins, StopFails(p)
      PROVE  stale' \in [Plugins -> BOOLEAN]
  BY <1>1, <1>9 DEF StopFails
<1>10. ASSUME NEW p \in Plugins, Relaunch(p)
       PROVE  stale' \in [Plugins -> BOOLEAN]
  <2>1. UNCHANGED stale \/ stale' = [stale EXCEPT ![p] = FALSE]
    BY <1>10 DEF Relaunch
  <2> QED
    BY <2>1 DEF Checked
<1>11. CASE UNCHANGED vars
  BY <1>2, <1>11 DEF vars, checkVars
<1> QED
  BY <1>2, <1>3, <1>4, <1>5, <1>6, <1>7, <1>8, <1>9, <1>10, <1>11
     DEF Next, Work, Waits

LEMMA OverlookedStays ==
  ASSUME Checked, [Next]_vars
  PROVE  overlooked' \in [Plugins -> BOOLEAN]
<1>1. CASE UNCHANGED overlooked
  BY <1>1 DEF Checked
<1>2. CASE List
  <2>1. overlooked' = [p \in Plugins |->
          IF Holder.kind \in Passes
            THEN ~got[p].enabled /\ unit[p].at = "crashing"
            ELSE overlooked[p]]
    BY <1>2 DEF List
  <2>2. \A p \in Plugins : overlooked[p] \in BOOLEAN
    BY DEF Checked
  <2> QED
    BY <2>1, <2>2
<1>3. UNCHANGED overlooked \/ List
  <2>1. CASE Outside \/ Turns \/ Watching
    BY <2>1 DEF Outside, EditJson, RotateKey, Poke, UnitMoves, StopCompletes,
       Crash, ComesBack, Exits, SaveSettings, Flip, GiveUp, Turns, TakeTurn,
       Watching, WatchStarts, Tick, Raise, checkVars
  <2>2. CASE Work
    BY <2>2 DEF Work, Waits, Persist, BeginStop, Load, LoadIsAll, ListFails,
       Finish, PollFails, Poll, WaitRunsOut, SendStop, StopFails, ReadKeys,
       Relaunch, LaunchFails, checkVars
  <2> QED
    BY <2>1, <2>2 DEF Next, vars, checkVars
<1> QED
  BY <1>1, <1>2, <1>3

LEMMA CheckedInductive == Spec => []Checked
<1>1. Init => Checked
  BY DEF Init, Checked
<1>2. Checked /\ [Next]_vars => Checked'
  BY ExcusedStays, StaleStays, OverlookedStays DEF Checked
<1> QED
  BY <1>1, <1>2, PTL DEF Spec

-----------------------------------------------------------------------------
(* The steps of the holder that concern one plugin, and what a unit does.  *)

Frame ==
  UNCHANGED <<json, stamp, override, saved, keyring, queue, phase, unlisted,
              watch, raising, reloadUnlisted, flips>>

LEMMA Framed ==
  ASSUME Frame
  PROVE  /\ Later' <=> Later
         /\ \A q \in Plugins : FlipToCome(q)' <=> FlipToCome(q)
         /\ \A q \in Plugins : On(q)' = On(q) /\ Declared(q)' = Declared(q)
         /\ \A ops : (ToCome(ops)' <=> ToCome(ops)) /\ (Unlisted(ops)' <=> Unlisted(ops))
         /\ Holder' = Holder /\ (Due' <=> Due)
         /\ (Watches => Watches') /\ (Calls => Calls')
<1>1. \A ops : (ToCome(ops)' <=> ToCome(ops)) /\ (Unlisted(ops)' <=> Unlisted(ops))
  BY DEF Frame, ToCome, Unlisted, Begun, Listed, Places
<1>2. Later' <=> Later
  BY <1>1 DEF Frame, Later
<1>3. Holder' = Holder
  BY DEF Frame, Holder
<1>4. Due' <=> Due
  BY <1>2, <1>3 DEF Frame, Due
<1>5. \A q \in Plugins : FlipToCome(q)' <=> FlipToCome(q)
  BY <1>1 DEF Frame, FlipToCome, Coming
<1>6. \A q \in Plugins : On(q)' = On(q) /\ Declared(q)' = Declared(q)
  BY DEF Frame, On, Declared, Effective
<1>7. Watches => Watches'
  BY DEF Frame, Watches, Places
<1>8. Calls => Calls'
  BY DEF Frame, Calls, CallIsOf, Places
<1> QED
  BY <1>1, <1>2, <1>3, <1>4, <1>5, <1>6, <1>7, <1>8

\* Nothing of the others' is touched.
Apart(p) ==
  \A q \in Plugins : q # p =>
    /\ unit'[q] = unit[q] /\ step'[q] = step[q] /\ got'[q] = got[q]
    /\ overlooked'[q] = overlooked[q] /\ excused'[q] = excused[q]
    /\ stale'[q] = stale[q]

LEMMA OneConcerned ==
  ASSUME Typed, LInv, Frame, NEW p \in Plugins, Apart(p), Seen(p)',
         phase = "working" \/ step' = step
  PROVE  LInv'
<1>1. ASSUME NEW q \in Plugins, q # p
      PROVE  Seen(q)'
  <2>1. /\ Seen(q) /\ phase' = phase /\ saved' = saved /\ keyring' = keyring
        /\ unit'[q] = unit[q] /\ step'[q] = step[q] /\ got'[q] = got[q]
        /\ overlooked'[q] = overlooked[q] /\ excused'[q] = excused[q]
        /\ stale'[q] = stale[q]
    BY <1>1 DEF LInv, Frame, Apart
  <2> QED
    BY <2>1, Framed, Unconcerned
<1>2. Resting'
  BY Framed DEF LInv, Resting, Frame
<1> QED
  BY <1>1, <1>2, Framed DEF LInv

\* The operation goes on with the plugin.
LEMMA GoesOn ==
  ASSUME Frame, NEW p \in Plugins, Seen(p),
         Working(p, Launching), step'[p] \in Launching,
         got'[p] = got[p] \/ got'[p] = [got[p] EXCEPT !.key = keyring],
         step'[p] # "launch" => step[p] # "launch" \/ got'[p].key = keyring,
         \/ unit'[p] = unit[p] /\ step[p] # "restart" /\ step'[p] # "down"
         \/ unit'[p].at = "stopping",
         stale'[p] = stale[p],
         got[p] \in [named : BOOLEAN, enabled : BOOLEAN, spec : Specs,
                     settings : Nat, key : Nat]
  PROVE  Seen(p)'
<1>1. /\ phase' = "working" /\ phase = "working" /\ saved' = saved
      /\ keyring' = keyring /\ Holder' = Holder
      /\ Working(p, Launching)' /\ ~Working(p, {"stop"})'
      /\ ~Working(p, {"restart"}) \/ unit'[p].at = "stopping"
  BY Framed DEF Frame, Working, Launching
<1>2. /\ got'[p].enabled = got[p].enabled /\ got'[p].spec = got[p].spec
      /\ got'[p].settings = got[p].settings
      /\ got'[p].key = got[p].key \/ got'[p].key = keyring
  OBVIOUS
<1>3. RightOrToCome(p)' /\ StopIsMeant(p)'
  BY <1>1 DEF RightOrToCome, StopIsMeant, Working
<1>4. GotIsFresh(p)'
  BY <1>1, <1>2, Framed DEF Seen, GotIsFresh
<1>5. KeyIsFresh(p)'
  BY <1>1, <1>2, Framed DEF Seen, KeyIsFresh, Working, Launching
<1>6. LaunchIsMeant(p)'
  BY <1>1, <1>2, Framed DEF Seen, LaunchIsMeant
<1>7. DownIsDown(p)'
  BY <1>1 DEF Seen, DownIsDown, Working
<1>8. unit'[p].at # "stopping" =>
        unit'[p] = unit[p] /\ ~Working(p, {"restart", "stop"})
  BY DEF Working, Launching
<1>9. SettingsRun(p)' /\ KeyRuns(p)'
  BY <1>1, <1>8, Framed DEF Seen, SettingsRun, KeyRuns, Lives
<1> QED
  BY <1>3, <1>4, <1>5, <1>6, <1>7, <1>9 DEF Seen

\* The operation is done with the plugin, or was never about it.
LEMMA IsDone ==
  ASSUME Frame, NEW p \in Plugins, Seen(p), step'[p] = "none",
         got'[p] = got[p], RightOrToCome(p)', SettingsRun(p)', KeyRuns(p)'
  PROVE  Seen(p)'
<1>1. GotIsFresh(p)'
  BY Framed DEF Seen, GotIsFresh, Frame
<1>2. /\ StopIsMeant(p)' /\ KeyIsFresh(p)' /\ LaunchIsMeant(p)'
      /\ DownIsDown(p)'
  BY DEF StopIsMeant, KeyIsFresh, LaunchIsMeant, DownIsDown, Working, Launching
<1> QED
  BY <1>1, <1>2 DEF Seen

\* What a unit has stays what it has while it lives.
LEMMA SameRuns ==
  ASSUME Frame, NEW p \in Plugins, Seen(p), ~Working(p, {"restart", "stop"}),
         \/ ~Lives(p)' \/ stale'[p]
         \/ /\ Lives(p) /\ unit'[p].settings = unit[p].settings
            /\ unit'[p].key = unit[p].key /\ ~stale[p]
  PROVE  SettingsRun(p)' /\ KeyRuns(p)'
  BY Framed DEF Frame, Seen, SettingsRun, KeyRuns

Told == Typed /\ Checked /\ Stamps /\ Fallbacks /\ Owing /\ LInv

LEMMA ToldTypes ==
  ASSUME Told
  PROVE  /\ unit \in [Plugins -> Unit] /\ step \in [Plugins -> Steps]
         /\ got \in [Plugins -> [named : BOOLEAN, enabled : BOOLEAN,
                                 spec : Specs, settings : Nat, key : Nat]]
         /\ excused \in [Plugins -> BOOLEAN] /\ stale \in [Plugins -> BOOLEAN]
         /\ overlooked \in [Plugins -> BOOLEAN]
         /\ \A p \in Plugins : Seen(p)
         /\ Typed /\ LInv
  BY DEF Told, Typed, TypeOK, Checked, LInv

LEMMA UnitMovesSeen ==
  ASSUME Told, NEW p \in Plugins, UnitMoves(p)
  PROVE  LInv'
<1>1. Frame /\ UNCHANGED <<step, got, overlooked, stale>>
  BY DEF UnitMoves, StopCompletes, Crash, ComesBack, Exits, Frame, fileVars,
     passVars, watchVars, checkVars
<1>2. PICK to \in {"gone", "up", "crashing", "stopping"} :
        unit' = [unit EXCEPT ![p].at = to]
  BY DEF UnitMoves, StopCompletes, Crash, ComesBack, Exits
<1>3. /\ \A q \in Plugins : q # p => unit'[q] = unit[q]
      /\ unit'[p].at = to /\ unit'[p].spec = unit[p].spec
      /\ unit'[p].settings = unit[p].settings /\ unit'[p].key = unit[p].key
  BY <1>2, ToldTypes DEF Unit
<1>4. \/ Exits(p) /\ to = "gone"
      \/ unit[p].at = "stopping" /\ to = "gone" /\ excused' = excused
      \/ Lives(p) /\ unit[p].at # "gone" /\ Lives(p)' /\ excused' = excused
  BY <1>3, ToldTypes DEF UnitMoves, StopCompletes, Crash, ComesBack, Exits, Lives,
     Unit, checkVars
<1>5. /\ \A q \in Plugins : q # p => excused'[q] = excused[q]
      /\ excused[p] => excused'[p]
      /\ Exits(p) => excused'[p]
  BY <1>4, ToldTypes DEF Exits
<1>6. Apart(p)
  BY <1>1, <1>3, <1>5 DEF Apart
<1>7. Exits(p) \/ (Lives(p)' <=> Lives(p))
  BY <1>3, <1>4 DEF Lives
<1>8. \A steps : Working(p, steps)' <=> Working(p, steps)
  BY <1>1 DEF Working, Frame
<1>9. Seen(p)
  BY ToldTypes
<1>10. RightOrToCome(p)'
  <2>1. Right(p) => Exits(p) \/ Right(p)'
    BY <1>1, <1>3, <1>7, Framed DEF Right
  <2> QED
    BY <1>5, <1>8, <1>9, <2>1, Framed, <1>1 DEF Seen, RightOrToCome
<1>11. StopIsMeant(p)' /\ LaunchIsMeant(p)'
  BY <1>1, <1>5, <1>8, <1>9, Framed DEF Seen, StopIsMeant, LaunchIsMeant
<1>12. GotIsFresh(p)' /\ KeyIsFresh(p)'
  BY <1>1, <1>8, <1>9, Framed DEF Seen, GotIsFresh, KeyIsFresh, Frame
<1>13. DownIsDown(p)'
  <2>1. unit[p].at \in {"stopping", "gone"} => to = "gone"
    BY <1>4 DEF Lives
  <2> QED
    BY <1>3, <1>8, <1>9, <2>1 DEF Seen, DownIsDown
<1>14. SettingsRun(p)' /\ KeyRuns(p)'
  <2>1. Lives(p)' => Lives(p)
    BY <1>3, <1>4 DEF Lives
  <2> QED
    BY <1>1, <1>3, <1>8, <1>9, <2>1, Framed DEF Seen, SettingsRun, KeyRuns, Frame
<1>15. Seen(p)'
  BY <1>10, <1>11, <1>12, <1>13, <1>14 DEF Seen
<1> QED
  BY <1>1, <1>6, <1>15, OneConcerned, ToldTypes

LEMMA SendStopSeen ==
  ASSUME Told, NEW p \in Plugins, SendStop(p)
  PROVE  LInv'
<1>1. /\ Frame /\ phase = "working" /\ UNCHANGED <<got, overlooked, stale>>
      /\ step[p] \in {"stop", "restart", "replace"}
  BY DEF SendStop, Frame, fileVars, watchVars
<1>2. /\ \A q \in Plugins : q # p => step'[q] = step[q]
      /\ \A q \in Plugins : q # p => unit'[q] = unit[q]
      /\ \A q \in Plugins : q # p => excused'[q] = excused[q]
  BY ToldTypes DEF SendStop, Goes, Answer
<1>3. Apart(p)
  BY <1>1, <1>2 DEF Apart
<1>4. Seen(p)
  BY ToldTypes
<1>5. CASE step[p] # "stop" /\ unit[p].at # "gone"
  <2>1. step'[p] = "down" /\ unit'[p].at = "stopping"
    BY <1>5, ToldTypes DEF SendStop, Goes, StopUnit, Unit
  <2>2. Working(p, Launching) /\ step'[p] \in Launching
    BY <1>1, <1>5, <2>1 DEF Working, Launching
  <2>3. Seen(p)'
    BY <1>1, <1>4, <2>1, <2>2, GoesOn, ToldTypes
  <2> QED
    BY <1>1, <1>3, <2>3, OneConcerned, ToldTypes
<1>6. CASE step[p] = "stop" \/ unit[p].at = "gone"
  <2>1. /\ step'[p] = "none" /\ unit'[p].at \in {"stopping", "gone"}
        /\ excused[p] => excused'[p]
        /\ step[p] # "stop" => excused'[p]
    <3>1. CASE unit[p].at = "gone"
      BY <1>1, <3>1, ToldTypes DEF SendStop, Goes, Answer
    <3>2. CASE unit[p].at # "gone" /\ step[p] = "stop"
      BY <3>2, ToldTypes DEF SendStop, Goes, StopUnit, Unit
    <3> QED
      BY <1>6, <3>1, <3>2
  <2>2. ~Lives(p)'
    BY <2>1 DEF Lives
  <2>3. RightOrToCome(p)'
    <3>1. CASE step[p] # "stop"
      BY <2>1, <3>1 DEF RightOrToCome
    <3>2. CASE step[p] = "stop"
      <4>1. excused[p] \/ Later \/ FlipToCome(p) \/ ~On(p)
        BY <1>1, <1>4, <3>2 DEF Seen, StopIsMeant, Working
      <4>2. ~On(p) => Right(p)'
        BY <1>1, <2>2, Framed DEF Right
      <4> QED
        BY <1>1, <2>1, <4>1, <4>2, Framed DEF RightOrToCome, Due
    <3> QED
      BY <3>1, <3>2
  <2>4. SettingsRun(p)' /\ KeyRuns(p)'
    BY <2>2 DEF SettingsRun, KeyRuns
  <2>5. Seen(p)'
    BY <1>1, <1>4, <2>1, <2>3, <2>4, IsDone
  <2> QED
    BY <1>1, <1>3, <2>5, OneConcerned, ToldTypes
<1> QED
  BY <1>5, <1>6

LEMMA FailsSeen ==
  ASSUME Told, NEW p \in Plugins, StopFails(p) \/ LaunchFails(p)
  PROVE  LInv'
<1>1. Frame /\ phase = "working" /\ UNCHANGED <<unit, got, overlooked>>
  BY DEF StopFails, LaunchFails, Frame, fileVars, watchVars
<1>2. /\ \A q \in Plugins : q # p => step'[q] = step[q]
      /\ \A q \in Plugins : q # p => excused'[q] = excused[q]
      /\ step'[p] = "none" /\ excused'[p]
  BY ToldTypes DEF StopFails, LaunchFails, Goes, Answer
<1>3. /\ \A q \in Plugins : q # p => stale'[q] = stale[q]
      /\ stale'[p] \/ (step[p] = "relaunch" /\ stale' = stale)
  BY ToldTypes DEF StopFails, LaunchFails, Stale
<1>4. Apart(p)
  BY <1>1, <1>2, <1>3 DEF Apart
<1>5. RightOrToCome(p)'
  BY <1>2 DEF RightOrToCome
<1>6. SettingsRun(p)' /\ KeyRuns(p)'
  <2>1. CASE stale'[p]
    BY <2>1 DEF SettingsRun, KeyRuns
  <2>2. CASE step[p] = "relaunch" /\ stale' = stale
    <3>1. ~Working(p, {"restart", "stop"}) /\ (Lives(p)' <=> Lives(p))
      BY <1>1, <2>2 DEF Working, Lives
    <3> QED
      BY <1>1, <2>2, <3>1, SameRuns, ToldTypes
  <2> QED
    BY <1>3, <2>1, <2>2
<1>7. Seen(p)'
  BY <1>1, <1>2, <1>5, <1>6, IsDone, ToldTypes
<1> QED
  BY <1>1, <1>4, <1>7, OneConcerned, ToldTypes

LEMMA RelaunchesAre == Relaunches \in {"launch", "relaunch"}
  BY DEF Relaunches

LEMMA PollSeen ==
  ASSUME Told, NEW p \in Plugins, Poll(p)
  PROVE  LInv'
<1>1. /\ Frame /\ UNCHANGED <<unit, got, overlooked, excused, stale>>
      /\ phase = "working" /\ step[p] \in {"down", "wait"}
  BY DEF Poll, Waiting, Frame, fileVars, watchVars, checkVars
<1>2. /\ \A q \in Plugins : q # p => step'[q] = step[q]
      /\ step'[p] \in {"launch", "relaunch", "replace"}
  BY RelaunchesAre, ToldTypes DEF Poll, Goes
<1>3. Working(p, Launching) /\ step'[p] \in Launching
  BY <1>1, <1>2 DEF Working, Launching
<1>4. Seen(p)'
  BY <1>1, <1>2, <1>3, GoesOn, ToldTypes
<1> QED
  BY <1>1, <1>2, <1>4, OneConcerned, ToldTypes DEF Apart

LEMMA ReadKeysSeen ==
  ASSUME Told, NEW p \in Plugins, ReadKeys(p)
  PROVE  LInv'
<1>1. /\ Frame /\ UNCHANGED <<unit, overlooked, excused, stale>>
      /\ phase = "working" /\ step[p] = "launch"
  BY DEF ReadKeys, Frame, fileVars, watchVars, checkVars
<1>2. /\ \A q \in Plugins : q # p => step'[q] = step[q]
      /\ \A q \in Plugins : q # p => got'[q] = got[q]
      /\ step'[p] = "relaunch"
      /\ got'[p] = [got[p] EXCEPT !.key = keyring] /\ got'[p].key = keyring
  BY ToldTypes DEF ReadKeys, Goes
<1>3. Working(p, Launching) /\ step'[p] \in Launching
  BY <1>1, <1>2 DEF Working, Launching
<1>4. Seen(p)'
  BY <1>1, <1>2, <1>3, GoesOn, ToldTypes
<1> QED
  BY <1>1, <1>2, <1>4, OneConcerned, ToldTypes DEF Apart

LEMMA PollFailsSeen ==
  ASSUME Told, PollFails
  PROVE  LInv'
<1>1. Frame /\ UNCHANGED <<unit, got, overlooked, excused, stale>>
  BY DEF PollFails, Frame, fileVars, watchVars, checkVars
<1>2. \A p \in Plugins :
        step'[p] = IF Waiting(p) THEN Relaunches ELSE step[p]
  BY DEF PollFails
<1>3. ASSUME NEW p \in Plugins
      PROVE  Seen(p)'
  <2>1. CASE Waiting(p)
    <3>1. phase = "working" /\ step[p] \in {"down", "wait"}
      BY <2>1 DEF Waiting
    <3>2. step'[p] \in {"launch", "relaunch"}
      BY <1>2, <2>1, RelaunchesAre
    <3>3. Working(p, Launching) /\ step'[p] \in Launching
      BY <3>1, <3>2 DEF Working, Launching
    <3> QED
      BY <1>1, <3>1, <3>2, <3>3, GoesOn, ToldTypes
  <2>2. CASE ~Waiting(p)
    <3>1. step'[p] = step[p] /\ Seen(p)
      BY <1>2, <2>2, ToldTypes
    <3>2. phase' = phase /\ saved' = saved /\ keyring' = keyring
      BY <1>1 DEF Frame
    <3> QED
      BY <1>1, <3>1, <3>2, Framed, Unconcerned
  <2> QED
    BY <2>1, <2>2
<1>4. phase = "working"
  BY DEF PollFails, Waiting
<1>5. Resting'
  BY <1>1, <1>4, Framed, ToldTypes DEF LInv, Resting, Frame
<1> QED
  BY <1>1, <1>3, <1>5, Framed, ToldTypes DEF LInv

LEMMA WaitRunsOutSeen ==
  ASSUME Told, NEW p \in Plugins, WaitRunsOut(p)
  PROVE  LInv'
<1>1. /\ Frame /\ UNCHANGED <<unit, got, overlooked, stale>>
      /\ phase = "working" /\ step[p] \in {"down", "wait"}
  BY DEF WaitRunsOut, Waiting, Frame, fileVars, watchVars
<1>2. /\ \A q \in Plugins : q # p => step'[q] = step[q]
      /\ \A q \in Plugins : q # p => excused'[q] = excused[q]
      /\ step'[p] = IF fallback[p] THEN Relaunches ELSE "none"
      /\ ~fallback[p] => excused'[p]
  BY ToldTypes DEF WaitRunsOut, Goes, Answer
<1>3. Apart(p)
  BY <1>1, <1>2 DEF Apart
<1>4. CASE fallback[p]
  <2>1. step'[p] \in {"launch", "relaunch"}
    BY <1>2, <1>4, RelaunchesAre
  <2>2. Working(p, Launching) /\ step'[p] \in Launching
    BY <1>1, <2>1 DEF Working, Launching
  <2>3. Seen(p)'
    BY <1>1, <2>1, <2>2, GoesOn, ToldTypes
  <2> QED
    BY <1>1, <1>3, <2>3, OneConcerned, ToldTypes
<1>5. CASE ~fallback[p]
  <2>1. RightOrToCome(p)'
    BY <1>2, <1>5 DEF RightOrToCome
  <2>2. ~Working(p, {"restart", "stop"}) /\ (Lives(p)' <=> Lives(p))
    BY <1>1 DEF Working, Lives
  <2>3. SettingsRun(p)' /\ KeyRuns(p)'
    BY <1>1, <2>2, SameRuns, ToldTypes
  <2>4. Seen(p)'
    BY <1>1, <1>2, <1>5, <2>1, <2>3, IsDone, ToldTypes
  <2> QED
    BY <1>1, <1>3, <2>4, OneConcerned, ToldTypes
<1> QED
  BY <1>4, <1>5

\* A start whose flip is not the newest has the choices of the newer behind it.
LEMMA NewerIsBehind ==
  ASSUME Told, queue # <<>>, NEW p \in Plugins,
         Holder.kind \in OfFlip, Holder.plugin = p
  PROVE  /\ Holder.flip \in 1..Len(flips[p]) /\ Len(flips[p]) \in Nat
         /\ flips[p][Holder.flip].at # "kept"
         /\ Holder.flip # Len(flips[p]) =>
              /\ Len(flips[p]) > 1 /\ FlipToCome(p)
              /\ \E j \in Places : j > 1 /\ queue[j] \in Of("persist", p, Len(flips[p]))
<1> DEFINE n == Holder.flip
           m == Len(flips[p])
<1>1. 1 \in Places /\ Holder = queue[1] /\ Holder \in Ops /\ n \in Nat
  BY QueueFacts, HolderIsOp, ToldTypes DEF Ops, Typed
<1>2. m \in Nat
  <2>1. flips[p] \in Seq(Flips)
    BY ToldTypes DEF Typed, TypeOK, Flips
  <2> QED
    BY <2>1, LenProperties
<1>3. CallIsOf(1, p, n)
  BY <1>1 DEF CallIsOf
<1>4. n \in 1..m /\ flips[p][n].at # "kept"
  BY <1>1, <1>3, ToldTypes DEF LInv, Calls
<1>5. \A k \in Nat : k > n /\ k <= m =>
        \E j \in Places : j > 1 /\ queue[j] \in Of("persist", p, k)
  BY <1>1, <1>3, ToldTypes DEF LInv, Calls
<1> HIDE DEF n, m
<1>6. CASE n # m
  <2>1. m > n /\ m > 1 /\ m \in Nat \ {0}
    BY <1>2, <1>4, <1>6
  <2>2. PICK j \in Places : j > 1 /\ queue[j] \in Of("persist", p, m)
    BY <1>2, <1>5, <2>1
  <2>3. ToCome(Of("persist", p, m))
    BY <2>2 DEF ToCome, Begun
  <2>4. FlipToCome(p)
    BY <2>1, <2>3 DEF FlipToCome, Coming, m
  <2> QED
    BY <1>2, <1>4, <2>1, <2>2, <2>4 DEF n, m
<1> QED
  BY <1>2, <1>4, <1>6 DEF n, m

LEMMA RelaunchSeen ==
  ASSUME Told, NEW p \in Plugins, Relaunch(p)
  PROVE  LInv'
<1>1. /\ Frame /\ UNCHANGED <<got, overlooked>>
      /\ phase = "working" /\ step[p] = "relaunch"
  BY DEF Relaunch, Frame, fileVars, watchVars
<1>2. /\ \A q \in Plugins : q # p => step'[q] = step[q]
      /\ step'[p] = "none"
  BY ToldTypes DEF Relaunch, Goes
<1>3. \A q \in Plugins : q # p => unit'[q] = unit[q]
  BY ToldTypes DEF Relaunch
<1>4. \A q \in Plugins : q # p => excused'[q] = excused[q] /\ stale'[q] = stale[q]
  BY ToldTypes DEF Relaunch, Answer
<1>5. Apart(p)
  BY <1>1, <1>2, <1>3, <1>4 DEF Apart
<1>6. Seen(p) /\ queue # <<>>
  BY <1>1, ToldTypes, QueueFacts
<1>7. CASE unit[p].at = "gone" /\ p \notin Static
  <2>1. /\ unit'[p] = Launched(p)
        /\ ~got[p].enabled /\ Holder.flip = Len(flips[p]) => excused'[p]
    BY <1>7, ToldTypes DEF Relaunch
  <2>2. /\ Lives(p)' /\ unit'[p].spec = got[p].spec
        /\ unit'[p].settings = got[p].settings /\ unit'[p].key = got[p].key
    BY <2>1 DEF Launched, Lives
  <2>3. /\ Working(p, Launching) /\ Working(p, Launching \ {"launch"})
        /\ phase = "working"
    BY <1>1 DEF Working, Launching
  <2>4. /\ Holder.kind # "stop"
        /\ got[p].enabled \/ (Holder.kind = "start" /\ Holder.plugin = p)
    BY <1>6, <2>3 DEF Seen, LaunchIsMeant
  <2>5. /\ Later \/ (got[p].enabled = On(p) /\ got[p].spec = Declared(p))
        /\ got[p].settings = saved[p] \/ ToCome(SavesOf(p))
        /\ got[p].key = keyring \/ Unlisted(Rotations)
    BY <1>6, <2>3, <2>4 DEF Seen, GotIsFresh, KeyIsFresh
  <2>6. RightOrToCome(p)'
    <3>1. CASE Later
      BY <1>1, <3>1, Framed DEF RightOrToCome, Due
    <3>2. CASE ~Later /\ On(p)
      <4>1. Right(p)'
        BY <1>1, <2>2, <2>5, <3>2, Framed DEF Right
      <4> QED
        BY <4>1 DEF RightOrToCome
    <3>3. CASE ~Later /\ ~On(p)
      <4>1. ~got[p].enabled /\ Holder.kind = "start" /\ Holder.plugin = p
        BY <2>4, <2>5, <3>3
      <4>2. CASE Holder.flip = Len(flips[p])
        BY <2>1, <4>1, <4>2 DEF RightOrToCome
      <4>3. CASE Holder.flip # Len(flips[p])
        <5>1. FlipToCome(p)
          BY <1>6, <4>1, <4>3, NewerIsBehind DEF OfFlip
        <5> QED
          BY <1>1, <5>1, Framed DEF RightOrToCome
      <4> QED
        BY <4>2, <4>3
    <3> QED
      BY <3>1, <3>2, <3>3
  <2>7. SettingsRun(p)' /\ KeyRuns(p)'
    <3>1. ToCome(SavesOf(p)) => Unlisted(SavesOf(p))
      BY ToComeUnlisted
    <3> QED
      BY <1>1, <2>2, <2>5, <3>1, Framed DEF SettingsRun, KeyRuns, Frame
  <2>8. Seen(p)'
    BY <1>1, <1>2, <1>6, <2>6, <2>7, IsDone
  <2> QED
    BY <1>1, <1>5, <2>8, OneConcerned, ToldTypes
<1>8. CASE ~(unit[p].at = "gone" /\ p \notin Static)
  <2>1. /\ excused'[p] /\ stale' = stale
        /\ unit' = IF fallback[p] THEN [unit EXCEPT ![p] = StartUnit(p)] ELSE unit
    BY <1>8, ToldTypes DEF Relaunch, Answer
  <2>2. RightOrToCome(p)'
    BY <2>1 DEF RightOrToCome
  <2>3. SettingsRun(p)' /\ KeyRuns(p)'
    <3>1. CASE p \in Static
      BY <3>1 DEF SettingsRun, KeyRuns
    <3>2. CASE p \notin Static
      <4>1. unit' = unit
        BY <2>1, <3>2 DEF Told, Fallbacks
      <4>2. ~Working(p, {"restart", "stop"}) /\ (Lives(p)' <=> Lives(p))
        BY <1>1, <4>1 DEF Working, Lives
      <4> QED
        BY <1>1, <1>6, <2>1, <4>1, <4>2, SameRuns
    <3> QED
      BY <3>1, <3>2
  <2>4. Seen(p)'
    BY <1>1, <1>2, <1>6, <2>2, <2>3, IsDone
  <2> QED
    BY <1>1, <1>5, <2>4, OneConcerned, ToldTypes
<1> QED
  BY <1>7, <1>8

-----------------------------------------------------------------------------
(* Asking for the lock.                                                    *)

\* A call that is not of a switch goes behind the others.
LEMMA AskedCalls ==
  ASSUME Told, NEW op \in Ops, Ask(op), phase' = phase, flips' = flips,
         op.kind \notin OfFlip, op.flip = 0,
         op.kind = "save" => op.plugin \in Plugins
  PROVE  Calls'
<1>1. PICK k \in Nat \ {0} :
           /\ k \notin Places /\ Places' = Places \cup {k}
           /\ \A i \in Places : i < k
           /\ \A i \in Places : queue'[i] = queue[i]
           /\ queue'[k] = op /\ (k = 1 => phase = "idle")
  BY Asked, ToldTypes
<1>2. Calls
  BY ToldTypes DEF LInv
<1>3. \A i \in Places' : \A p \in Plugins : \A n \in Nat :
        CallIsOf(i, p, n)' => i \in Places /\ CallIsOf(i, p, n)
  BY <1>1 DEF CallIsOf
<1>4. \A i \in Places' :
       /\ queue'[i].kind \in OfFlip <=> queue'[i].flip # 0
       /\ queue'[i].kind \in OfFlip \cup {"save"} => queue'[i].plugin \in Plugins
  BY <1>1, <1>2 DEF Calls
<1>5. ASSUME NEW i \in Places', NEW p \in Plugins, NEW n \in Nat, CallIsOf(i, p, n)'
      PROVE  /\ n \in 1..Len(flips'[p]) /\ flips'[p][n].at # "kept"
             /\ \A j \in Places' : CallIsOf(j, p, n)' => i = j
             /\ \A m \in Nat : m > n /\ m <= Len(flips'[p]) =>
                  \E j \in Places' : j > i /\ queue'[j] \in Of("persist", p, m)
  <2>1. i \in Places /\ CallIsOf(i, p, n)
    BY <1>3, <1>5
  <2>2. /\ n \in 1..Len(flips[p]) /\ flips[p][n].at # "kept"
        /\ \A j \in Places : CallIsOf(j, p, n) => i = j
        /\ \A m \in Nat : m > n /\ m <= Len(flips[p]) =>
             \E j \in Places : j > i /\ queue[j] \in Of("persist", p, m)
    BY <1>2, <2>1 DEF Calls
  <2>3. \A j \in Places' : CallIsOf(j, p, n)' => i = j
    BY <1>3, <2>2
  <2> QED
    BY <1>1, <2>2, <2>3
<1> QED
  BY <1>4, <1>5 DEF Calls

LEMMA AskedWatches ==
  ASSUME Told, NEW op \in Ops, Ask(op), phase' = phase, watch' = watch,
         op.kind \notin {"startup", "tick"}
  PROVE  Watches'
<1>1. PICK k \in Nat \ {0} :
           /\ Places' = Places \cup {k}
           /\ \A i \in Places : queue'[i] = queue[i]
           /\ queue'[k] = op
  BY Asked, ToldTypes
<1> QED
  BY <1>1, ToldTypes DEF LInv, Watches

LEMMA FlipRests ==
  ASSUME NEW q \in Plugins, flips'[q] = flips[q],
         \A ops : ToCome(ops) => ToCome(ops)',
         \A ops : Unlisted(ops) => Unlisted(ops)'
  PROVE  FlipToCome(q) => FlipToCome(q)'
  BY DEF FlipToCome, Coming

LEMMA AskedFlips ==
  ASSUME Told, NEW op \in Ops, Ask(op), phase' = phase,
         UNCHANGED <<json, override, unit, step, got, overlooked, stale,
                     excused>>,
         Later => Later',
         \A q \in Plugins : saved'[q] = saved[q] \/ op \in SavesOf(q),
         \A q \in Plugins : FlipToCome(q) => FlipToCome(q)',
         keyring' = keyring \/ op \in Rotations
  PROVE  (\A q \in Plugins : Seen(q)') /\ Resting'
<1>1. /\ \A ops : ToCome(ops) => ToCome(ops)'
      /\ \A ops : Unlisted(ops) => Unlisted(ops)'
      /\ \A ops : op \in ops => ToCome(ops)' /\ Unlisted(ops)'
      /\ phase # "idle" => Holder' = Holder
  BY AskedKeeps, ToldTypes
<1>2. ASSUME NEW q \in Plugins
      PROVE  Seen(q)'
  <2>1. On(q)' = On(q) /\ Declared(q)' = Declared(q)
    BY DEF On, Declared, Effective
  <2>2. Seen(q)
    BY ToldTypes
  <2> QED
    BY <1>1, <2>1, <2>2, Unconcerned
<1>3. Resting'
  BY <1>1, ToldTypes DEF LInv, Resting
<1> QED
  BY <1>2, <1>3

LEMMA AskedSeen ==
  ASSUME Told, NEW op \in Ops, Ask(op), phase' = phase,
         UNCHANGED <<json, override, unit, step, got, overlooked, stale,
                     excused, flips>>,
         Later => Later',
         \A q \in Plugins : saved'[q] = saved[q] \/ op \in SavesOf(q),
         keyring' = keyring \/ op \in Rotations
  PROVE  (\A q \in Plugins : Seen(q)') /\ Resting'
<1>1. /\ \A ops : ToCome(ops) => ToCome(ops)'
      /\ \A ops : Unlisted(ops) => Unlisted(ops)'
  BY AskedKeeps, ToldTypes
<1>2. \A q \in Plugins : FlipToCome(q) => FlipToCome(q)'
  BY <1>1, FlipRests
<1> QED
  BY <1>2, AskedFlips

LEMMA LaterStays ==
  ASSUME UNCHANGED <<json, stamp, watch, raising, reloadUnlisted, phase, unlisted>>,
         ToCome(PassOps) => ToCome(PassOps)'
  PROVE  Later => Later'
  BY DEF Later

LEMMA CallersSeen ==
  ASSUME Told, RotateKey \/ Poke \/ \E p \in Plugins : SaveSettings(p)
  PROVE  LInv'
<1>1. /\ UNCHANGED <<json, stamp, override, unit, step, got, overlooked, stale,
                     excused, flips, watch, raising, reloadUnlisted, phase,
                     unlisted>>
  BY DEF RotateKey, Poke, SaveSettings, fileVars, passVars, watchVars, checkVars
<1>2. PICK op \in Ops :
        /\ Ask(op) /\ op.kind \in {"rotate", "poke", "save"} /\ op.flip = 0
        /\ op.kind = "save" => op.plugin \in Plugins
        /\ \A q \in Plugins : saved'[q] = saved[q] \/ op \in SavesOf(q)
        /\ keyring' = keyring \/ op \in Rotations
  <2>1. CASE RotateKey
    <3>1. Op("rotate", "none", 0) \in Ops /\ Op("rotate", "none", 0) \in Rotations
      BY DEF Op, Ops, Rotations, Kinds
    <3> QED
      BY <2>1, <3>1 DEF RotateKey, Op
  <2>2. CASE Poke
    <3>1. Op("poke", "none", 0) \in Ops
      BY DEF Op, Ops, Kinds
    <3> QED
      BY <2>2, <3>1 DEF Poke, Op, fileVars
  <2>3. ASSUME NEW p \in Plugins, SaveSettings(p)
        PROVE  \E op \in Ops :
          /\ Ask(op) /\ op.kind \in {"rotate", "poke", "save"} /\ op.flip = 0
          /\ op.kind = "save" => op.plugin \in Plugins
          /\ \A q \in Plugins : saved'[q] = saved[q] \/ op \in SavesOf(q)
          /\ keyring' = keyring \/ op \in Rotations
    <3>1. Op("save", p, 0) \in Ops /\ Op("save", p, 0) \in SavesOf(p)
      BY DEF Op, Ops, SavesOf, Kinds
    <3>2. \A q \in Plugins : q # p => saved'[q] = saved[q]
      BY <2>3, ToldTypes DEF SaveSettings, Typed, TypeOK
    <3>3. Ask(Op("save", p, 0)) /\ keyring' = keyring
      BY <2>3 DEF SaveSettings
    <3> QED
      BY <3>1, <3>2, <3>3 DEF Op
  <2> QED
    BY <2>1, <2>2, <2>3
<1>3. Later => Later'
  BY <1>1, <1>2, AskedKeeps, LaterStays, ToldTypes
<1>4. (\A q \in Plugins : Seen(q)') /\ Resting'
  BY <1>1, <1>2, <1>3, AskedSeen
<1>5. Watches' /\ Calls'
  <2>1. op.kind \notin OfFlip /\ op.kind \notin {"startup", "tick"}
    BY <1>2 DEF OfFlip
  <2> QED
    BY <1>1, <1>2, <2>1, AskedWatches, AskedCalls
<1> QED
  BY <1>4, <1>5 DEF LInv

\* A step after which another pass is to come, and that touches no unit.
LEMMA LaterSeen ==
  ASSUME Told, Later', Watches',
         UNCHANGED <<saved, keyring, unit, step, got, overlooked, stale,
                     excused, flips, queue, phase>>
  PROVE  LInv'
<1>1. /\ \A ops : (ToCome(ops)' <=> ToCome(ops)) /\ (Unlisted(ops)' <=> Unlisted(ops))
      /\ Holder' = Holder
  BY DEF ToCome, Unlisted, Begun, Listed, Places, Holder
<1>2. ASSUME NEW q \in Plugins
      PROVE  Seen(q)'
  <2>1. FlipToCome(q) => FlipToCome(q)'
    BY <1>1, FlipRests
  <2>2. Seen(q)
    BY ToldTypes
  <2> QED
    BY <1>1, <2>1, <2>2, Unconcerned
<1>3. Resting' /\ Calls'
  BY <1>1, ToldTypes DEF LInv, Resting, Calls, CallIsOf, Places
<1> QED
  BY <1>2, <1>3 DEF LInv

LEMMA EditSeen ==
  ASSUME Told, EditJson
  PROVE  LInv'
<1>1. /\ UNCHANGED <<saved, keyring, unit, step, got, overlooked, stale,
                     excused, flips, queue, phase, watch>>
      /\ stamp' = stamp + 1
  BY DEF EditJson, passVars, watchVars, checkVars
<1>2. watch.seen \in Nat /\ stamp \in Nat /\ watch.seen <= stamp
  BY DEF Told, Owing, Typed, TypeOK
<1>3. Later'
  BY <1>1, <1>2 DEF Later
<1>4. Watches'
  BY <1>1, ToldTypes DEF LInv, Watches, Places
<1> QED
  BY <1>1, <1>3, <1>4, LaterSeen

\* The watch asks for a pass of its own.
LEMMA WatchingSeen ==
  ASSUME Told, Watching
  PROVE  LInv'
<1>1. CASE Raise
  <2>1. /\ UNCHANGED <<saved, keyring, unit, step, got, overlooked, stale,
                       excused, flips, watch, queue, phase>>
        /\ Later'
    BY <1>1 DEF Raise, fileVars, passVars, checkVars, Later
  <2>2. Watches'
    BY <2>1, ToldTypes DEF LInv, Watches, Places
  <2> QED
    BY <2>1, <2>2, LaterSeen
<1>2. CASE WatchStarts \/ Tick
  <2>a. UNCHANGED <<json, override, saved, keyring, unit, step, got,
                    overlooked, stale, excused, flips, phase>>
    BY <1>2 DEF WatchStarts, Tick, fileVars, passVars, checkVars
  <2>b. watch.at # "converging" /\ watch'.at = "converging"
    <3>1. CASE WatchStarts
      <4>1. watch' = [watch EXCEPT !.at = "converging", !.seen = stamp]
        BY <3>1 DEF WatchStarts
      <4>2. watch \in [at : {"starting", "sleeping", "converging"},
                       seen : Nat, pending : BOOLEAN]
        BY ToldTypes DEF Typed, TypeOK
      <4>3. watch.at = "starting"
        BY <3>1 DEF WatchStarts
      <4> QED
        BY <4>1, <4>2, <4>3
    <3>2. CASE Tick
      BY <3>2 DEF Tick
    <3> QED
      BY <1>2, <3>1, <3>2
  <2>1. /\ UNCHANGED <<json, override, saved, keyring, unit, step, got,
                       overlooked, stale, excused, flips, phase>>
        /\ watch.at # "converging" /\ watch'.at = "converging"
    BY <2>a, <2>b
  <2>2. PICK op \in Ops : /\ Ask(op) /\ op.kind \in {"startup", "tick"}
                          /\ op.flip = 0 /\ op \in PassOps
    <3>1. /\ Op("startup", "none", 0) \in Ops /\ Op("startup", "none", 0) \in PassOps
          /\ Op("tick", "none", 0) \in Ops /\ Op("tick", "none", 0) \in PassOps
      BY DEF Op, Ops, PassOps, Passes, Kinds
    <3> QED
      BY <1>2, <3>1 DEF WatchStarts, Tick, Op
  <2>3. Later'
    BY <2>1, <2>2, AskedKeeps, ToldTypes DEF Later
  <2>4. (\A q \in Plugins : Seen(q)') /\ Resting'
    BY <2>1, <2>2, <2>3, AskedSeen
  <2>5. Calls'
    BY <2>1, <2>2, AskedCalls DEF OfFlip
  <2>6. Watches'
    <3>1. PICK k \in Nat \ {0} :
             /\ Places' = Places \cup {k}
             /\ \A i \in Places : queue'[i] = queue[i]
             /\ queue'[k] = op
      BY <2>1, <2>2, Asked, ToldTypes
    <3>2. \A i \in Places : queue[i].kind \notin {"startup", "tick"}
      BY <2>1, ToldTypes DEF LInv, Watches
    <3>3. \A i \in Places' : queue'[i].kind \in {"startup", "tick"} => i = k
      BY <3>1, <3>2
    <3> QED
      BY <2>1, <3>3 DEF Watches
  <2> QED
    BY <2>4, <2>5, <2>6 DEF LInv
<1> QED
  BY <1>1, <1>2 DEF Watching

-----------------------------------------------------------------------------
(* The switch.                                                             *)

\* One toggle of one switch moves on.
Moved(p, n, to) == flips' = [flips EXCEPT ![p][n].at = to]

LEMMA FlipMoves ==
  ASSUME Typed, NEW p \in Plugins, NEW n,
         NEW to \in {"kept", "applying", "over"},
         Moved(p, n, to)
  PROVE  /\ \A q \in Plugins : Len(flips'[q]) = Len(flips[q])
         /\ \A q \in Plugins : \A m \in 1..Len(flips[q]) :
              flips'[q][m].at = IF q = p /\ m = n THEN to ELSE flips[q][m].at
         /\ \A q \in Plugins : q # p => flips'[q] = flips[q]
<1>1. flips \in [Plugins -> Seq(Flips)]
  BY DEF Typed, TypeOK, Flips
<1>2. \A q \in Plugins : q # p => flips'[q] = flips[q]
  BY <1>1 DEF Moved
<1>3. flips'[p] = [flips[p] EXCEPT ![n].at = to]
  BY <1>1 DEF Moved
<1>4. flips[p] \in Seq(Flips)
  BY <1>1
<1>5. /\ DOMAIN flips'[p] = DOMAIN flips[p]
      /\ \A m \in 1..Len(flips[p]) :
           flips'[p][m].at = IF m = n THEN to ELSE flips[p][m].at
  <2>1. DOMAIN flips[p] = 1..Len(flips[p])
    BY <1>4
  <2>2. \A m \in 1..Len(flips[p]) : flips[p][m] \in Flips
    BY <1>4, ElementOfSeq
  <2> QED
    BY <1>3, <2>1, <2>2 DEF Flips
<1>6. Len(flips'[p]) = Len(flips[p])
  <2>1. Len(flips[p]) \in Nat /\ DOMAIN flips[p] = 1..Len(flips[p])
    BY <1>4
  <2>2. CASE n \in 1..Len(flips[p])
    <3>1. flips'[p] = [flips[p] EXCEPT ![n] = [flips[p][n] EXCEPT !.at = to]]
      BY <1>3
    <3>2. Len([flips[p] EXCEPT ![n] = [flips[p][n] EXCEPT !.at = to]]) = Len(flips[p])
      BY <1>4
    <3> QED
      BY <3>1, <3>2
  <2>3. CASE n \notin 1..Len(flips[p])
    BY <1>3, <2>1, <2>3
  <2> QED
    BY <2>2, <2>3
<1> QED
  BY <1>2, <1>5, <1>6

LEMMA FlipLens ==
  ASSUME Typed, NEW p \in Plugins
  PROVE  Len(flips[p]) \in Nat /\ DOMAIN flips[p] = 1..Len(flips[p])
<1>1. flips[p] \in Seq(Flips)
  BY DEF Typed, TypeOK, Flips
<1> QED
  BY <1>1

\* The queue rests, and no toggle with a call in it is kept.
LEMMA CallsRest ==
  ASSUME Told, queue' = queue,
         \A q \in Plugins : Len(flips'[q]) = Len(flips[q]),
         \A q \in Plugins : \A m \in 1..Len(flips[q]) :
           flips[q][m].at # "kept" => flips'[q][m].at # "kept"
  PROVE  Calls'
<1>1. Calls
  BY ToldTypes DEF LInv
<1>2. Places' = Places
  BY DEF Places
<1> QED
  BY <1>1, <1>2 DEF Calls, CallIsOf

\* A call of the newest toggle of a switch goes behind the others.
LEMMA AskedCall ==
  ASSUME Told, NEW op \in Ops, Ask(op), phase' = phase,
         NEW p \in Plugins, NEW n \in Nat, op \in Of(op.kind, p, n),
         op.kind \in OfFlip, n # 0, n = Len(flips'[p]), flips'[p][n].at # "kept",
         \A i \in Places : ~CallIsOf(i, p, n),
         \A q \in Plugins : \A m \in 1..Len(flips[q]) :
           /\ m <= Len(flips'[q])
           /\ flips[q][m].at # "kept" => flips'[q][m].at # "kept",
         \A q \in Plugins : \A m \in Nat : m <= Len(flips'[q]) =>
           m <= Len(flips[q]) \/ (q = p /\ m = n /\ op.kind = "persist")
  PROVE  Calls'
<1>1. PICK k \in Nat \ {0} :
           /\ k \notin Places /\ Places' = Places \cup {k}
           /\ \A i \in Places : i < k
           /\ \A i \in Places : queue'[i] = queue[i]
           /\ queue'[k] = op /\ (k = 1 => phase = "idle")
  BY Asked, ToldTypes
<1>2. Calls /\ op.plugin = p /\ op.flip = n /\ op \in Of(op.kind, p, n)
  BY ToldTypes DEF LInv, Of
<1>3. \A i \in Places : \A q \in Plugins : \A m \in Nat :
        CallIsOf(i, q, m)' <=> CallIsOf(i, q, m)
  BY <1>1 DEF CallIsOf
<1>4. \A q \in Plugins : \A m \in Nat : CallIsOf(k, q, m)' <=> q = p /\ m = n
  BY <1>1, <1>2 DEF CallIsOf
<1>5. \A i \in Places' :
       /\ queue'[i].kind \in OfFlip <=> queue'[i].flip # 0
       /\ queue'[i].kind \in OfFlip \cup {"save"} => queue'[i].plugin \in Plugins
  BY <1>1, <1>2 DEF Calls
<1>6. ASSUME NEW i \in Places, NEW q \in Plugins, NEW m \in Nat, CallIsOf(i, q, m)
      PROVE  /\ m \in 1..Len(flips'[q]) /\ flips'[q][m].at # "kept"
             /\ \A j \in Places' : CallIsOf(j, q, m)' => i = j
             /\ \A l \in Nat : l > m /\ l <= Len(flips'[q]) =>
                  \E j \in Places' : j > i /\ queue'[j] \in Of("persist", q, l)
  <2>1. /\ m \in 1..Len(flips[q]) /\ flips[q][m].at # "kept"
        /\ \A j \in Places : CallIsOf(j, q, m) => i = j
        /\ \A l \in Nat : l > m /\ l <= Len(flips[q]) =>
             \E j \in Places : j > i /\ queue[j] \in Of("persist", q, l)
    BY <1>2, <1>6 DEF Calls
  <2>2. m \in 1..Len(flips'[q]) /\ flips'[q][m].at # "kept"
    <3>1. m <= Len(flips'[q]) /\ m \in Nat /\ m >= 1
      BY <2>1
    <3> QED
      BY <2>1, <3>1
  <2>3. \A j \in Places' : CallIsOf(j, q, m)' => i = j
    BY <1>1, <1>3, <1>4, <1>6, <2>1
  <2>4. ASSUME NEW l \in Nat, l > m, l <= Len(flips'[q])
        PROVE  \E j \in Places' : j > i /\ queue'[j] \in Of("persist", q, l)
    <3>1. CASE l <= Len(flips[q])
      BY <1>1, <2>1, <2>4, <3>1
    <3>2. CASE q = p /\ l = n /\ op.kind = "persist"
      BY <1>1, <1>2, <3>2
    <3> QED
      BY <2>4, <3>1, <3>2
  <2> QED
    BY <2>2, <2>3, <2>4
<1>7. /\ n \in 1..Len(flips'[p]) /\ flips'[p][n].at # "kept"
      /\ \A j \in Places' : CallIsOf(j, p, n)' => k = j
      /\ \A l \in Nat : ~(l > n /\ l <= Len(flips'[p]))
  BY <1>1, <1>3
<1>8. ASSUME NEW i \in Places', NEW q \in Plugins, NEW m \in Nat, CallIsOf(i, q, m)'
      PROVE  /\ m \in 1..Len(flips'[q]) /\ flips'[q][m].at # "kept"
             /\ \A j \in Places' : CallIsOf(j, q, m)' => i = j
             /\ \A l \in Nat : l > m /\ l <= Len(flips'[q]) =>
                  \E j \in Places' : j > i /\ queue'[j] \in Of("persist", q, l)
  <2>1. CASE i \in Places
    BY <1>3, <1>6, <1>8, <2>1
  <2>2. CASE i = k
    BY <1>4, <1>7, <1>8, <2>2
  <2> QED
    BY <1>1, <2>1, <2>2
<1> QED
  BY <1>5, <1>8 DEF Calls
LEMMA FlipSeen ==
  ASSUME Told, NEW p \in Plugins, NEW on \in BOOLEAN, Flip(p, on)
  PROVE  LInv'
<1>a. Len(flips[p]) \in Nat
  BY FlipLens, ToldTypes
<1>b. PICK n \in Nat : n = Len(flips[p]) + 1
  BY <1>a
<1>1. n \in Nat /\ n # 0 /\ Len(flips[p]) \in Nat /\ n = Len(flips[p]) + 1
  BY <1>a, <1>b
<1> DEFINE op == Op("persist", p, n)
<1>2. op \in Ops /\ op.kind = "persist" /\ op \in Of("persist", p, n)
  BY <1>1 DEF Op, Ops, Kinds, Of
<1>3. /\ UNCHANGED <<json, stamp, override, saved, keyring, unit, step, got,
                     overlooked, stale, excused, phase, unlisted, watch,
                     raising, reloadUnlisted>>
      /\ Ask(op)
  BY <1>1 DEF Flip, fileVars, passVars, watchVars, checkVars
<1>4. /\ \A q \in Plugins : q # p => flips'[q] = flips[q]
      /\ flips'[p] = Append(flips[p], [on |-> on, at |-> "persisting"])
  BY ToldTypes DEF Flip, Typed, TypeOK
<1>5. /\ Len(flips'[p]) = n /\ flips'[p][n].at = "persisting"
      /\ \A m \in 1..Len(flips[p]) : flips'[p][m] = flips[p][m]
  <2>1. flips[p] \in Seq(Flips) /\ [on |-> on, at |-> "persisting"] \in Flips
    BY ToldTypes DEF Typed, TypeOK, Flips
  <2> QED
    BY <1>1, <1>4, <2>1, AppendProperties
<1>6. \A i \in Places : ~CallIsOf(i, p, n)
  <2>1. n \notin 1..Len(flips[p])
    BY <1>1
  <2> QED
    BY <1>1, <2>1, ToldTypes DEF LInv, Calls
<1> HIDE DEF op
<1>7. Later => Later'
  BY <1>2, <1>3, AskedKeeps, LaterStays, ToldTypes
<1>8. \A q \in Plugins : FlipToCome(q) => FlipToCome(q)'
  <2>1. /\ \A ops : ToCome(ops) => ToCome(ops)'
        /\ \A ops : Unlisted(ops) => Unlisted(ops)'
        /\ \A ops : op \in ops => ToCome(ops)'
    BY <1>2, <1>3, AskedKeeps, ToldTypes
  <2>2. FlipToCome(p) => FlipToCome(p)'
    <3>1. FlipToCome(p) => n > 1
      BY <1>1 DEF FlipToCome
    <3>2. ToCome(Of("persist", p, n))'
      BY <1>2, <2>1
    <3>3. n > 1 => Coming(p, n)'
      BY <3>2 DEF Coming
    <3> QED
      BY <1>1, <1>5, <3>1, <3>3 DEF FlipToCome
  <2>3. \A q \in Plugins : q # p => (FlipToCome(q) => FlipToCome(q)')
    BY <1>4, <2>1, FlipRests
  <2> QED
    BY <2>2, <2>3
<1>9. (\A q \in Plugins : Seen(q)') /\ Resting'
  BY <1>2, <1>3, <1>7, <1>8, AskedFlips
<1>10. Watches'
  BY <1>2, <1>3, AskedWatches
<1>11. Calls'
  <2>1. \A q \in Plugins : \A m \in 1..Len(flips[q]) :
           /\ m <= Len(flips'[q])
           /\ flips[q][m].at # "kept" => flips'[q][m].at # "kept"
    <3>1. \A m \in 1..Len(flips[p]) : m <= Len(flips'[p])
      BY <1>1, <1>5
    <3>2. \A q \in Plugins : Len(flips[q]) \in Nat
      BY FlipLens, ToldTypes
    <3> QED
      BY <1>4, <1>5, <3>1, <3>2
  <2>2. \A q \in Plugins : \A m \in Nat : m <= Len(flips'[q]) =>
           m <= Len(flips[q]) \/ (q = p /\ m = n /\ op.kind = "persist")
    BY <1>1, <1>2, <1>4, <1>5
  <2> QED
    BY <1>1, <1>2, <1>3, <1>5, <1>6, <2>1, <2>2, AskedCall DEF OfFlip
<1> QED
  BY <1>9, <1>10, <1>11 DEF LInv

\* A toggle that is not the newest, or has no start or stop to send: the
\* queue rests.
LEMMA FlipMovesSeen ==
  ASSUME Told, NEW p \in Plugins, NEW n \in Nat, NEW to \in {"applying", "over"},
         \A q \in Plugins : Len(flips'[q]) = Len(flips[q]),
         \A q \in Plugins : \A m \in 1..Len(flips[q]) :
           flips'[q][m].at = IF q = p /\ m = n THEN to ELSE flips[q][m].at,
         flips[p][n].at # "kept" \/ n # Len(flips[p]) \/ excused'[p],
         \A q \in Plugins : excused[q] => excused'[q],
         UNCHANGED <<json, stamp, override, saved, keyring, unit, step, got,
                     overlooked, stale, queue, phase, unlisted, watch,
                     raising, reloadUnlisted>>
  PROVE  LInv'
<1>2. /\ \A ops : (ToCome(ops)' <=> ToCome(ops)) /\ (Unlisted(ops)' <=> Unlisted(ops))
      /\ Holder' = Holder /\ Places' = Places
  BY DEF ToCome, Unlisted, Begun, Listed, Places, Holder
<1>3. Later => Later'
  BY <1>2, LaterStays
<1>4. ASSUME NEW q \in Plugins, FlipToCome(q)
      PROVE  FlipToCome(q)' \/ excused'[q]
  <2>1. PICK m \in Nat \ {0} : m = Len(flips[q]) /\ Coming(q, m)
    BY <1>4 DEF FlipToCome
  <2>2. m \in 1..Len(flips[q]) /\ m = Len(flips'[q])
    BY <2>1
  <2>3. CASE q = p /\ m = n
    <3>1. Coming(q, m) => Coming(q, m)' \/ excused'[q]
      BY <1>2, <2>1, <2>3 DEF Coming
    <3> QED
      BY <2>1, <2>2, <3>1 DEF FlipToCome
  <2>4. CASE ~(q = p /\ m = n)
    <3>1. flips'[q][m].at = flips[q][m].at
      BY <2>2, <2>4
    <3>2. Coming(q, m)'
      BY <1>2, <2>1, <3>1 DEF Coming
    <3> QED
      BY <2>1, <2>2, <3>2 DEF FlipToCome
  <2> QED
    BY <2>3, <2>4
<1>5. ASSUME NEW q \in Plugins
      PROVE  Seen(q)'
  <2>1. On(q)' = On(q) /\ Declared(q)' = Declared(q) /\ Seen(q)
    BY ToldTypes DEF On, Declared, Effective
  <2> QED
    BY <1>2, <1>3, <1>4, <2>1, Unconcerned
<1>6. Resting' /\ Watches'
  BY <1>2, ToldTypes DEF LInv, Resting, Watches
<1>7. Calls'
  BY CallsRest
<1> QED
  BY <1>5, <1>6, <1>7 DEF LInv

LEMMA GiveUpSeen ==
  ASSUME Told, NEW p \in Plugins, NEW n \in DOMAIN flips[p], GiveUp(p, n)
  PROVE  LInv'
<1>1. n \in Nat
  BY FlipLens, ToldTypes
<1>2. /\ UNCHANGED <<json, stamp, override, saved, keyring, unit, step, got,
                     overlooked, stale, queue, phase, unlisted, watch,
                     raising, reloadUnlisted>>
      /\ Moved(p, n, "over")
  BY DEF Moved, GiveUp, fileVars, passVars, watchVars
<1>3. /\ \A q \in Plugins : excused[q] => excused'[q]
      /\ flips[p][n].at = "kept" => excused'[p]
  BY ToldTypes DEF GiveUp
<1>4. /\ \A q \in Plugins : Len(flips'[q]) = Len(flips[q])
      /\ \A q \in Plugins : \A m \in 1..Len(flips[q]) :
           flips'[q][m].at = IF q = p /\ m = n THEN "over" ELSE flips[q][m].at
      /\ \A q \in Plugins : q # p => flips'[q] = flips[q]
  BY <1>2, FlipMoves, ToldTypes
<1> QED
  BY <1>1, <1>2, <1>3, <1>4, FlipMovesSeen

LEMMA TurnsSeen ==
  ASSUME Told, Turns
  PROVE  LInv'
<1>1. PICK p \in Plugins : \E n \in DOMAIN flips[p] : TakeTurn(p, n)
  BY DEF Turns
<1>2. PICK n \in DOMAIN flips[p] : TakeTurn(p, n)
  BY <1>1
<1>3. n \in Nat \ {0} /\ n \in 1..Len(flips[p])
  BY FlipLens, ToldTypes
<1>4. /\ UNCHANGED <<json, stamp, override, saved, keyring, unit, step, got,
                     overlooked, stale, excused, phase, unlisted, watch,
                     raising, reloadUnlisted>>
      /\ flips[p][n].at = "kept"
  BY <1>2 DEF TakeTurn, fileVars, passVars, watchVars, checkVars
<1>5. CASE n # Len(flips[p])
  <2>1. Moved(p, n, "over") /\ queue' = queue
    BY <1>2, <1>5 DEF TakeTurn, Moved
  <2>2. /\ \A q \in Plugins : Len(flips'[q]) = Len(flips[q])
        /\ \A q \in Plugins : \A m \in 1..Len(flips[q]) :
             flips'[q][m].at = IF q = p /\ m = n THEN "over" ELSE flips[q][m].at
        /\ \A q \in Plugins : q # p => flips'[q] = flips[q]
    BY <2>1, FlipMoves, ToldTypes
  <2>3. \A q \in Plugins : excused[q] => excused'[q]
    BY <1>4
  <2> QED
    BY <1>3, <1>4, <1>5, <2>1, <2>2, <2>3, FlipMovesSeen
<1>6. CASE n = Len(flips[p])
  <2>1. PICK kind \in {"start", "stop"} : Ask(Op(kind, p, n))
    BY <1>2, <1>6 DEF TakeTurn
  <2>2. Moved(p, n, "applying")
    BY <1>2, <1>6 DEF TakeTurn, Moved
  <2> DEFINE op == Op(kind, p, n)
  <2>3. op \in Ops /\ op \in Of(op.kind, p, n) /\ op \in Of(kind, p, n)
        /\ op.kind = kind
    BY <1>3 DEF Op, Ops, Kinds, Of
  <2>4. Ask(op)
    BY <2>1
  <2> HIDE DEF op
  <2>5. /\ \A q \in Plugins : Len(flips'[q]) = Len(flips[q])
        /\ \A q \in Plugins : \A m \in 1..Len(flips[q]) :
             flips'[q][m].at = IF q = p /\ m = n THEN "applying" ELSE flips[q][m].at
        /\ \A q \in Plugins : q # p => flips'[q] = flips[q]
    BY <2>2, FlipMoves, ToldTypes
  <2>6. \A i \in Places : ~CallIsOf(i, p, n)
    BY <1>3, <1>4, ToldTypes DEF LInv, Calls
  <2>7. /\ \A ops : ToCome(ops) => ToCome(ops)'
        /\ \A ops : Unlisted(ops) => Unlisted(ops)'
        /\ \A ops : op \in ops => ToCome(ops)' /\ Unlisted(ops)'
    BY <1>4, <2>3, <2>4, AskedKeeps, ToldTypes
  <2>8. Later => Later'
    BY <1>4, <2>7, LaterStays
  <2>9. \A q \in Plugins : FlipToCome(q) => FlipToCome(q)'
    <3>1. Coming(p, n)'
      BY <2>1, <2>3, <2>7 DEF Coming
    <3>2. FlipToCome(p)'
      BY <1>3, <1>6, <2>5, <3>1 DEF FlipToCome
    <3>3. \A q \in Plugins : q # p => (FlipToCome(q) => FlipToCome(q)')
      BY <2>5, <2>7, FlipRests
    <3> QED
      BY <3>2, <3>3
  <2>10. (\A q \in Plugins : Seen(q)') /\ Resting'
    BY <1>4, <2>3, <2>4, <2>8, <2>9, AskedFlips
  <2>11. Watches'
    <3>1. op.kind \notin {"startup", "tick"}
      BY <2>3
    <3> QED
      BY <1>4, <2>3, <2>4, <3>1, AskedWatches
  <2>12. Calls'
    <3>1. /\ op.kind \in OfFlip /\ n = Len(flips'[p]) /\ n \in Nat /\ n # 0
          /\ flips'[p][n].at # "kept"
      BY <1>3, <1>6, <2>3, <2>5 DEF OfFlip
    <3>2. \A q \in Plugins : Len(flips[q]) \in Nat
      BY FlipLens, ToldTypes
    <3>3. \A q \in Plugins : \A m \in 1..Len(flips[q]) :
           /\ m <= Len(flips'[q])
           /\ flips[q][m].at # "kept" => flips'[q][m].at # "kept"
      BY <2>5, <3>2
    <3>4. \A q \in Plugins : \A m \in Nat : m <= Len(flips'[q]) =>
           m <= Len(flips[q]) \/ (q = p /\ m = n /\ op.kind = "persist")
      BY <2>5
    <3> QED
      BY <1>4, <2>3, <2>4, <2>6, <3>1, <3>3, <3>4, AskedCall
  <2> QED
    BY <2>10, <2>11, <2>12 DEF LInv
<1> QED
  BY <1>5, <1>6

-----------------------------------------------------------------------------
(* Leaving the lock.                                                       *)

\* Everyone moves up.
LEMMA MoveUp ==
  ASSUME Typed, queue # <<>>, queue' = Tail(queue)
  PROVE  /\ \A i \in Places' : i \in Nat \ {0} /\ i + 1 \in Places
                               /\ queue'[i] = queue[i + 1]
         /\ \A i \in Places : i # 1 =>
              i \in Nat /\ i > 1 /\ i - 1 \in Places' /\ queue'[i - 1] = queue[i]
         /\ 1 \in Places /\ Holder = queue[1]
<1>1. queue \in Seq(Ops) /\ Len(queue) \in Nat /\ 1 \in Places /\ Holder = queue[1]
  BY QueueFacts
<1>2. /\ Len(queue') = Len(queue) - 1
      /\ \A i \in 1..Len(queue') : queue'[i] = queue[i + 1]
  BY <1>1, HeadTailProperties
<1>3. \A i \in Places' : i \in Nat \ {0} /\ i + 1 \in Places /\ queue'[i] = queue[i + 1]
  BY <1>1, <1>2 DEF Places
<1>4. ASSUME NEW i \in Places, i # 1
      PROVE  i \in Nat /\ i > 1 /\ i - 1 \in Places' /\ queue'[i - 1] = queue[i]
  <2>1. i \in Nat /\ i > 1 /\ i - 1 \in 1..Len(queue') /\ (i - 1) + 1 = i
    BY <1>1, <1>2, <1>4 DEF Places
  <2>2. queue'[i - 1] = queue[(i - 1) + 1]
    BY <1>2, <2>1
  <2> QED
    BY <2>1, <2>2 DEF Places
<1> QED
  BY <1>1, <1>3, <1>4

LEMMA LeftWatches ==
  ASSUME Told, queue # <<>>, queue' = Tail(queue),
         watch' = watch \/ Holder.kind \in {"startup", "tick"}
  PROVE  Watches'
<1>1. Watches
  BY ToldTypes DEF LInv
<1>2. ASSUME NEW i \in Places', queue'[i].kind \in {"startup", "tick"}
      PROVE  /\ watch'.at = "converging"
             /\ \A j \in Places' : queue'[j].kind \in {"startup", "tick"} => i = j
  <2>a. /\ i \in Nat \ {0} /\ i + 1 \in Places /\ queue'[i] = queue[i + 1]
        /\ 1 \in Places /\ Holder = queue[1]
    BY MoveUp, ToldTypes
  <2>1. /\ i + 1 \in Places /\ i + 1 # 1 /\ queue[i + 1] = queue'[i]
        /\ 1 \in Places /\ Holder = queue[1]
    <3>1. i \in Nat \ {0}
      BY <2>a
    <3>2. i + 1 # 1
      BY <3>1
    <3>3. queue[i + 1] = queue'[i]
      BY <2>a
    <3> QED
      BY <2>a, <3>2, <3>3
  <2>2. Holder.kind \notin {"startup", "tick"} /\ watch.at = "converging"
    BY <1>1, <1>2, <2>1 DEF Watches
  <2>3. ASSUME NEW j \in Places', queue'[j].kind \in {"startup", "tick"}
        PROVE  i = j
    <3>1. j + 1 \in Places /\ queue[j + 1] = queue'[j] /\ i \in Nat /\ j \in Nat
      BY MoveUp, ToldTypes
    <3>2. i + 1 = j + 1
      BY <1>1, <1>2, <2>1, <2>3, <3>1 DEF Watches
    <3> QED
      BY <3>1, <3>2
  <2> QED
    BY <2>2, <2>3
<1> QED
  BY <1>2 DEF Watches

LEMMA LeftCalls ==
  ASSUME Told, queue # <<>>, queue' = Tail(queue),
         \A q \in Plugins : Len(flips'[q]) = Len(flips[q]),
         \A q \in Plugins : \A m \in 1..Len(flips[q]) :
           flips[q][m].at # "kept" =>
             flips'[q][m].at # "kept" \/ CallIsOf(1, q, m)
  PROVE  Calls'
<1>1. Calls /\ 1 \in Places
  BY MoveUp, ToldTypes DEF LInv
<1>2. \A i \in Places' : /\ i \in Nat \ {0} /\ i + 1 \in Places
                         /\ queue'[i] = queue[i + 1]
  BY MoveUp, ToldTypes
<1>3. \A i \in Places' :
       /\ queue'[i].kind \in OfFlip <=> queue'[i].flip # 0
       /\ queue'[i].kind \in OfFlip \cup {"save"} => queue'[i].plugin \in Plugins
  <2> SUFFICES ASSUME NEW i \in Places'
               PROVE  /\ queue'[i].kind \in OfFlip <=> queue'[i].flip # 0
                      /\ queue'[i].kind \in OfFlip \cup {"save"} =>
                           queue'[i].plugin \in Plugins
    OBVIOUS
  <2>1. i + 1 \in Places /\ queue'[i] = queue[i + 1]
    BY <1>2
  <2> QED
    BY <1>1, <2>1 DEF Calls
<1>4. ASSUME NEW i \in Places', NEW q \in Plugins, NEW m \in Nat, CallIsOf(i, q, m)'
      PROVE  /\ m \in 1..Len(flips'[q]) /\ flips'[q][m].at # "kept"
             /\ \A j \in Places' : CallIsOf(j, q, m)' => i = j
             /\ \A l \in Nat : l > m /\ l <= Len(flips'[q]) =>
                  \E j \in Places' : j > i /\ queue'[j] \in Of("persist", q, l)
  <2>1. i \in Nat \ {0} /\ i + 1 \in Places /\ CallIsOf(i + 1, q, m)
    BY <1>2, <1>4 DEF CallIsOf
  <2>2. /\ m \in 1..Len(flips[q]) /\ flips[q][m].at # "kept"
        /\ \A j \in Places : CallIsOf(j, q, m) => i + 1 = j
        /\ \A l \in Nat : l > m /\ l <= Len(flips[q]) =>
             \E j \in Places : j > i + 1 /\ queue[j] \in Of("persist", q, l)
    BY <1>1, <2>1 DEF Calls
  <2>3. ~CallIsOf(1, q, m)
    BY <1>1, <2>1, <2>2
  <2>4. m \in 1..Len(flips'[q]) /\ flips'[q][m].at # "kept"
    BY <2>2, <2>3
  <2>5. ASSUME NEW j \in Places', CallIsOf(j, q, m)'
        PROVE  i = j
    <3>1. j \in Nat /\ j + 1 \in Places /\ CallIsOf(j + 1, q, m)
      BY <1>2, <2>5 DEF CallIsOf
    <3>2. i + 1 = j + 1
      BY <2>2, <3>1
    <3> QED
      BY <2>1, <3>1, <3>2
  <2>6. ASSUME NEW l \in Nat, l > m, l <= Len(flips'[q])
        PROVE  \E j \in Places' : j > i /\ queue'[j] \in Of("persist", q, l)
    <3>1. l <= Len(flips[q])
      BY <2>6
    <3>2. PICK j \in Places : j > i + 1 /\ queue[j] \in Of("persist", q, l)
      BY <2>2, <2>6, <3>1
    <3>a. j \in Nat /\ j # 1
      BY <2>1, <3>2, QueueFacts, ToldTypes
    <3>3. /\ j \in Nat /\ j # 1 /\ j - 1 \in Places' /\ queue'[j - 1] = queue[j]
      BY <3>a, MoveUp, ToldTypes
    <3>4. j - 1 > i
      BY <2>1, <3>2, <3>3
    <3> QED
      BY <3>2, <3>3, <3>4
  <2> QED
    BY <2>4, <2>5, <2>6
<1> QED
  BY <1>3, <1>4 DEF Calls

\* An idle lock: only the units, and what is to come, matter.
LEMMA IdleSeen ==
  ASSUME NEW q \in Plugins, phase' = "idle",
         RightOrToCome(q)', SettingsRun(q)', KeyRuns(q)'
  PROVE  Seen(q)'
BY DEF Seen, StopIsMeant, GotIsFresh, KeyIsFresh, LaunchIsMeant, DownIsDown,
       Working

\* What a write of plugins.toml leaves as it was: every other plugin.
LEMMA PersistOthers ==
  ASSUME Told, Persist, NEW q \in Plugins, q # Holder.plugin
  PROVE  On(q)' = On(q) /\ Declared(q)' = Declared(q)
<1> DEFINE p == Holder.plugin
           on == flips[p][Holder.flip].on
           d == json.plugin[p]
           Redundant(r) ==
             LET e == json.plugin[r] IN
             e.named /\ ~e.pinned /\ e.enabled = (override[r] = "on")
           After(r) ==
             IF r = p THEN IF on = d.enabled THEN "none"
                           ELSE IF on THEN "on" ELSE "off"
             ELSE IF Redundant(r) \/ ~json.plugin[r].named THEN "none"
             ELSE override[r]
<1>1. override' = override \/ override' = [r \in Plugins |-> After(r)]
  BY Zenon DEF Persist
<1>2. json' = json
  BY DEF Persist
<1>3. /\ override'[q] = override[q] \/ (Redundant(q) /\ override'[q] = "none")
         \/ ~json.plugin[q].named
  <2>1. CASE override' = override
    BY <2>1
  <2>2. CASE override' = [r \in Plugins |-> After(r)]
    <3>1. override'[q] = After(q)
      BY <2>2
    <3> QED
      BY <3>1
  <2> QED
    BY <1>1, <2>1, <2>2
<1>4. json.plugin[q] \in Declaration
  BY ToldTypes, PluginLauncherAssumption DEF Typed, TypeOK
<1>5. Declared(q)' = Declared(q)
  BY <1>2 DEF Declared
<1>6. On(q)' = On(q)
  <2>1. CASE override'[q] = override[q]
    BY <1>2, <2>1 DEF On, Effective
  <2>2. CASE ~json.plugin[q].named
    BY <1>2, <2>2 DEF On, Effective
  <2>3. CASE Redundant(q) /\ override'[q] = "none"
    BY <1>2, <1>4, <2>3 DEF On, Effective, Declaration
  <2> QED
    BY <1>3, <2>1, <2>2, <2>3
<1> QED
  BY <1>5, <1>6

LEMMA PersistSeen ==
  ASSUME Told, Persist
  PROVE  LInv'
<1>1. /\ queue # <<>> /\ phase = "idle" /\ Holder.kind = "persist"
      /\ queue' = Tail(queue)
      /\ UNCHANGED <<json, stamp, saved, keyring, unit, step, got, overlooked,
                     stale, phase, unlisted, watch, raising, reloadUnlisted>>
  BY DEF Persist, Holds, passVars, watchVars
<1>a. Holder.plugin \in Plugins /\ Holder.flip \in Nat \ {0} /\ Holder \in Ops
  BY <1>1, HolderIsOp, MoveUp, ToldTypes DEF LInv, Calls, OfFlip, Typed, Ops
<1>b. PICK p \in Plugins : p = Holder.plugin
  BY <1>a
<1>c. PICK n \in Nat \ {0} : n = Holder.flip
  BY <1>a
<1>2. /\ p \in Plugins /\ n \in Nat \ {0} /\ Holder \in Ops
      /\ p = Holder.plugin /\ n = Holder.flip
  BY <1>a, <1>b, <1>c
<1>3. /\ n \in 1..Len(flips[p]) /\ Len(flips[p]) \in Nat /\ flips[p][n].at # "kept"
      /\ n # Len(flips[p]) =>
           \E j \in Places : j > 1 /\ queue[j] \in Of("persist", p, Len(flips[p]))
  BY <1>1, <1>2, NewerIsBehind DEF OfFlip
<1>4. /\ ToCome(PassOps) => ToCome(PassOps)'
      /\ \A q \in Plugins : ToCome(SavesOf(q)) => ToCome(SavesOf(q))'
      /\ \A q \in Plugins : Unlisted(SavesOf(q)) => Unlisted(SavesOf(q))'
      /\ Unlisted(Rotations) => Unlisted(Rotations)'
      /\ \A q \in Plugins, m \in Nat : \A kind \in {"start", "stop"} :
           /\ ToCome(Of(kind, q, m)) => ToCome(Of(kind, q, m))'
           /\ Unlisted(Of(kind, q, m)) => Unlisted(Of(kind, q, m))'
      /\ \A q \in Plugins, m \in Nat : q # p \/ m # n =>
           (ToCome(Of("persist", q, m)) => ToCome(Of("persist", q, m))')
  <2>1. \A ops : Holder \in ops \/ (/\ ToCome(ops) => ToCome(ops)'
                                    /\ Unlisted(ops) => Unlisted(ops)')
    BY <1>1, LeftKeeps, ToldTypes
  <2>2. /\ Holder \notin PassOps /\ Holder \notin Rotations
        /\ \A q \in Plugins : Holder \notin SavesOf(q)
        /\ \A q \in Plugins, m \in Nat : \A kind \in {"start", "stop"} :
             Holder \notin Of(kind, q, m)
        /\ \A q \in Plugins, m \in Nat : q # p \/ m # n =>
             Holder \notin Of("persist", q, m)
    BY <1>1, <1>2 DEF PassOps, Passes, Rotations, SavesOf, Of
  <2> QED
    BY <2>1, <2>2
<1>5. Later => Later'
  BY <1>1, <1>4, LaterStays
<1>6. PICK to \in {"over", "kept"} : Moved(p, n, to)
  <2>1. Moved(p, n, "over") \/ Moved(p, n, "kept")
    BY <1>2 DEF Persist, Moved
  <2> QED
    BY <2>1
<1>7. /\ \A q \in Plugins : Len(flips'[q]) = Len(flips[q])
      /\ \A q \in Plugins : \A m \in 1..Len(flips[q]) :
           flips'[q][m].at = IF q = p /\ m = n THEN to ELSE flips[q][m].at
      /\ \A q \in Plugins : q # p => flips'[q] = flips[q]
  <2>1. Typed /\ to \in {"kept", "applying", "over"} /\ Moved(p, n, to)
    BY <1>6, ToldTypes
  <2> QED
    BY <2>1, FlipMoves
<1>8. /\ \A q \in Plugins : excused[q] => excused'[q]
      /\ to = "over" => excused'[p] \/ (n = 1 /\ override' = override)
  <2> DEFINE refused == ~json.readable \/ (json.plugin[p].named /\ json.plugin[p].pinned)
                        \/ (~json.plugin[p].named /\ p \notin Static)
             over == flips[p][n].at = "over"
  <2>1. PICK fails \in BOOLEAN :
          /\ refused \/ fails \/ ~json.plugin[p].named => override' = override
          /\ flips' = [flips EXCEPT ![p][n].at =
                         IF over \/ refused \/ fails THEN "over" ELSE "kept"]
          /\ Excuse(IF over \/ fails \/ (refused /\ n > 1) THEN {p} ELSE {})
    BY <1>2 DEF Persist, WriteFails
  <2>2. \A q \in Plugins : excused[q] => excused'[q]
    BY <2>1 DEF Excuse
  <2>3. over \/ fails \/ (refused /\ n > 1) => excused'[p]
    BY <1>2, <2>1 DEF Excuse
  <2>4. to = "over" => over \/ refused \/ fails
    <3>1. CASE ~(over \/ refused \/ fails)
      <4>1. Moved(p, n, "kept")
        BY <2>1, <3>1 DEF Moved
      <4>2. flips'[p][n].at = "kept"
        BY <1>2, <1>3, <4>1, FlipMoves, ToldTypes
      <4>3. flips'[p][n].at = to
        BY <1>2, <1>3, <1>7
      <4> QED
        BY <4>2, <4>3
    <3> QED
      BY <3>1
  <2>5. refused => n > 1 \/ (n = 1 /\ override' = override)
    BY <1>2, <2>1
  <2> QED
    BY <2>2, <2>3, <2>4, <2>5
<1>9. ASSUME NEW q \in Plugins, q # p \/ (n = 1 /\ to = "over" /\ override' = override)
      PROVE  Seen(q)'
  <2>1. On(q)' = On(q) /\ Declared(q)' = Declared(q)
    BY <1>1, <1>2, <1>9, PersistOthers DEF On, Declared, Effective
  <2>2. FlipToCome(q) => FlipToCome(q)'
    <3>1. SUFFICES ASSUME FlipToCome(q) PROVE FlipToCome(q)'
      OBVIOUS
    <3>2. PICK m \in Nat \ {0} : m = Len(flips[q]) /\ Coming(q, m)
      BY <3>1 DEF FlipToCome
    <3>3. m \in 1..Len(flips[q]) /\ m = Len(flips'[q])
      BY <1>7, <3>2
    <3>4. q # p \/ m # n \/ (m = 1 /\ flips[q][m].at # "kept")
      BY <1>3, <1>9
    <3>5. flips[q][m].at = "kept" => flips'[q][m].at = "kept"
      BY <1>7, <3>3, <3>4
    <3>6. Coming(q, m)'
      BY <1>4, <3>2, <3>4, <3>5 DEF Coming
    <3> QED
      BY <3>2, <3>3, <3>6 DEF FlipToCome
  <2>3. Seen(q)
    BY ToldTypes
  <2> QED
    BY <1>1, <1>4, <1>5, <1>8, <2>1, <2>2, <2>3, Unconcerned
<1>10. ASSUME excused'[p] \/ to = "kept"
       PROVE  Seen(p)'
  <2>1. SettingsRun(p)' /\ KeyRuns(p)'
    <3>1. Seen(p) /\ ~Working(p, {"restart", "stop"})
      BY <1>1, <1>2, ToldTypes DEF Working
    <3> QED
      BY <1>1, <1>2, <1>4, <3>1 DEF Seen, SettingsRun, KeyRuns, Lives
  <2>2. to = "kept" => FlipToCome(p)'
    <3>1. PICK m \in Nat : m = Len(flips[p])
      BY <1>3
    <3>2. m = Len(flips'[p]) /\ m # 0
      BY <1>2, <1>3, <1>7, <3>1
    <3>3. CASE n = m
      <4>1. to = "kept" => flips'[p][m].at = "kept"
        BY <1>2, <1>3, <1>7, <3>1, <3>3
      <4> QED
        BY <3>2, <4>1 DEF FlipToCome, Coming
    <3>4. CASE n # m
      <4>1. PICK j \in Places : j > 1 /\ queue[j] \in Of("persist", p, m)
        BY <1>3, <3>1, <3>4
      <4>2. m > 1
        BY <1>2, <1>3, <3>1, <3>4
      <4>3. ToCome(Of("persist", p, m))
        BY <4>1 DEF ToCome, Begun
      <4>4. ToCome(Of("persist", p, m))'
        BY <1>2, <1>4, <3>4, <4>3
      <4> QED
        BY <3>2, <4>2, <4>4 DEF FlipToCome, Coming
    <3> QED
      BY <3>3, <3>4
  <2>3. RightOrToCome(p)'
    BY <1>10, <2>2 DEF RightOrToCome
  <2> QED
    BY <1>1, <1>2, <2>1, <2>3, IdleSeen
<1>11. \A q \in Plugins : Seen(q)'
  BY <1>6, <1>8, <1>9, <1>10
<1>12. Resting'
  BY <1>1, ToldTypes DEF LInv, Resting
<1>13. Watches'
  BY <1>1, LeftWatches
<1>14. Calls'
  <2>1. CallIsOf(1, p, n)
    BY <1>1, <1>2, MoveUp, ToldTypes DEF CallIsOf, OfFlip
  <2>2. \A q \in Plugins : \A m \in 1..Len(flips[q]) :
           flips[q][m].at # "kept" =>
             flips'[q][m].at # "kept" \/ CallIsOf(1, q, m)
    BY <1>7, <2>1
  <2> QED
    BY <1>1, <1>7, <2>2, LeftCalls
<1> QED
  BY <1>11, <1>12, <1>13, <1>14 DEF LInv

-----------------------------------------------------------------------------
(* The holder reads, and lists.                                            *)

\* The holder goes on: the passes to come, and the operations behind it.
LEMMA Advances ==
  ASSUME Told, queue' = queue, queue # <<>>,
         UNCHANGED <<json, stamp, override, saved, keyring, watch, raising,
                     reloadUnlisted, flips>>
  PROVE  /\ Holder' = Holder /\ Places' = Places /\ Watches' /\ Calls'
         /\ Holder \in Ops
         /\ \A ops : Holder \notin ops \/ phase # "idle" \/ phase' = "idle" =>
              (ToCome(ops) => ToCome(ops)')
         /\ \A ops : Holder \notin ops \/ phase = "working" \/ phase' # "working" =>
              (Unlisted(ops) => Unlisted(ops)')
         /\ \A q \in Plugins : On(q)' = On(q) /\ Declared(q)' = Declared(q)
         /\ \A q \in Plugins :
              Holder.kind \notin OfFlip \/ Holder.plugin # q =>
                (FlipToCome(q) => FlipToCome(q)')
<1>1. /\ \A ops : Holder \notin ops \/ phase # "idle" \/ phase' = "idle" =>
           (ToCome(ops) => ToCome(ops)')
      /\ \A ops : Holder \notin ops \/ phase = "working" \/ phase' # "working" =>
           (Unlisted(ops) => Unlisted(ops)')
      /\ Holder' = Holder
  BY RestKeeps, ToldTypes
<1>2. Watches' /\ Calls' /\ Places' = Places
  BY ToldTypes DEF LInv, Watches, Calls, CallIsOf, Places
<1>3. \A q \in Plugins : On(q)' = On(q) /\ Declared(q)' = Declared(q)
  BY DEF On, Declared, Effective
<1>4. ASSUME NEW q \in Plugins, Holder.kind \notin OfFlip \/ Holder.plugin # q,
             FlipToCome(q)
      PROVE  FlipToCome(q)'
  <2>1. PICK m \in Nat \ {0} : m = Len(flips[q]) /\ Coming(q, m)
    BY <1>4 DEF FlipToCome
  <2>2. \A kind \in OfFlip : Holder \notin Of(kind, q, m)
    BY <1>4 DEF Of
  <2>3. Coming(q, m)'
    BY <1>1, <2>1, <2>2 DEF Coming, OfFlip
  <2> QED
    BY <2>1, <2>3 DEF FlipToCome
<1>5. Holder \in Ops
  BY HolderIsOp, ToldTypes DEF Typed
<1> QED
  BY <1>1, <1>2, <1>3, <1>4, <1>5

LEMMA BeginStopSeen ==
  ASSUME Told, BeginStop
  PROVE  LInv'
<1>1. /\ queue # <<>> /\ phase = "idle" /\ Holder.kind = "stop"
      /\ phase' = "working" /\ unlisted' = FALSE
      /\ step' = [step EXCEPT ![Holder.plugin] = "stop"]
      /\ UNCHANGED <<json, stamp, override, saved, keyring, unit, queue, got,
                     overlooked, stale, watch, raising, reloadUnlisted, flips>>
  BY DEF BeginStop, Holds, fileVars, watchVars
<1>a. Holder.plugin \in Plugins
  BY <1>1, MoveUp, QueueFacts, ToldTypes DEF LInv, Calls, OfFlip
<1>b. PICK p \in Plugins : p = Holder.plugin
  BY <1>a
<1>2. /\ \A q \in Plugins : q # p => step'[q] = "none"
      /\ step'[p] = "stop"
  BY <1>1, <1>b, ToldTypes DEF LInv, Resting
<1>3. /\ \A q \in Plugins : excused[q] => excused'[q]
      /\ On(p) /\ Holder.flip = Len(flips[p]) => excused'[p]
  BY <1>b DEF BeginStop, Excuse, On
<1>4. /\ Holder' = Holder /\ Places' = Places /\ Watches' /\ Calls' /\ Holder \in Ops
      /\ \A ops : Holder \notin ops => (ToCome(ops) => ToCome(ops)')
      /\ \A ops : Holder \notin ops => (Unlisted(ops) => Unlisted(ops)')
      /\ \A q \in Plugins : On(q)' = On(q) /\ Declared(q)' = Declared(q)
      /\ \A q \in Plugins : p # q => (FlipToCome(q) => FlipToCome(q)')
  BY <1>1, <1>b, Advances
<1>5. Later => Later'
  <2>1. Holder \notin PassOps
    BY <1>1 DEF PassOps, Passes
  <2> QED
    BY <1>1, <1>4, <2>1 DEF Later
<1>6. \A q \in Plugins : /\ Unlisted(SavesOf(q)) => Unlisted(SavesOf(q))'
                         /\ Unlisted(Rotations) => Unlisted(Rotations)'
  BY <1>1, <1>4 DEF SavesOf, Rotations
<1>7. ASSUME NEW q \in Plugins
      PROVE  /\ RightOrToCome(q)' /\ StopIsMeant(q)'
             /\ SettingsRun(q)' /\ KeyRuns(q)'
  <2>1. Seen(q) /\ (Due => Later) /\ \A steps : ~Working(q, steps)
    BY <1>1, ToldTypes DEF Due, Working
  <2>2. SettingsRun(q)' /\ KeyRuns(q)'
    BY <1>1, <1>6, <2>1 DEF Seen, SettingsRun, KeyRuns, Lives
  <2>3. CASE q # p
    <3>1. Right(q) => Right(q)'
      BY <1>1, <1>4 DEF Right, Lives
    <3>2. RightOrToCome(q)'
      BY <1>3, <1>4, <1>5, <2>1, <2>3, <3>1 DEF Seen, RightOrToCome, Due
    <3>3. StopIsMeant(q)'
      BY <1>2, <2>3 DEF StopIsMeant, Working
    <3> QED
      BY <2>2, <3>2, <3>3
  <2>4. CASE q = p
    <3>1. RightOrToCome(q)'
      BY <1>1, <1>2, <2>4 DEF RightOrToCome, Working
    <3>2. On(p) => excused'[p] \/ FlipToCome(p)'
      <4>1. PICK m \in Nat : m = Len(flips[p])
        BY FlipLens, ToldTypes
      <4>2. Holder.flip # m =>
              m > 1 /\ \E j \in Places : j > 1 /\ queue[j] \in Of("persist", p, m)
        BY <1>1, <1>b, <4>1, NewerIsBehind DEF OfFlip
      <4>3. (\E j \in Places : j > 1 /\ queue[j] \in Of("persist", p, m)) =>
              ToCome(Of("persist", p, m))'
        BY <1>1, <1>4 DEF ToCome, Begun
      <4>4. Holder.flip # m => Coming(p, m)'
        BY <4>2, <4>3 DEF Coming
      <4>5. Holder.flip # m => FlipToCome(p)'
        BY <1>1, <4>1, <4>2, <4>4 DEF FlipToCome
      <4> QED
        BY <1>3, <4>1, <4>5
    <3>3. StopIsMeant(q)'
      BY <1>4, <2>4, <3>2 DEF StopIsMeant
    <3> QED
      BY <2>2, <3>1, <3>3
  <2> QED
    BY <2>3, <2>4
<1>8. \A q \in Plugins :
        /\ GotIsFresh(q)' /\ KeyIsFresh(q)' /\ LaunchIsMeant(q)'
        /\ DownIsDown(q)'
  BY <1>1, <1>2, <1>4
  DEF GotIsFresh, KeyIsFresh, LaunchIsMeant, DownIsDown, Working, Launching
<1>9. \A q \in Plugins : Seen(q)'
  BY <1>7, <1>8 DEF Seen
<1>10. Resting'
  BY <1>1, <1>4 DEF Resting
<1> QED
  BY <1>4, <1>9, <1>10 DEF LInv

LEMMA LoadSeen ==
  ASSUME Told, Load
  PROVE  LInv'
<1>1. /\ queue # <<>> /\ phase = "idle" /\ Holder.kind \in Kinds \ {"stop", "persist"}
      /\ phase' = "listing" /\ got' = [p \in Plugins |-> Effective(p)]
      /\ UNCHANGED <<json, stamp, override, saved, keyring, unit, queue, step,
                     unlisted, overlooked, stale, excused, watch, raising,
                     reloadUnlisted, flips>>
  BY DEF Load, Holds, fileVars, watchVars, checkVars
<1>2. /\ Holder' = Holder /\ Places' = Places /\ Watches' /\ Calls' /\ Holder \in Ops
      /\ \A ops : Holder \notin ops => (ToCome(ops) => ToCome(ops)')
      /\ \A ops : Unlisted(ops) => Unlisted(ops)'
      /\ \A q \in Plugins : On(q)' = On(q) /\ Declared(q)' = Declared(q)
  BY <1>1, Advances
<1>3. Later => Later' \/ Holder.kind \in Passes
  <2>1. Holder \in PassOps => Holder.kind \in Passes
    BY DEF PassOps
  <2> QED
    BY <1>1, <1>2, <2>1 DEF Later
<1>4. Due => Due'
  BY <1>1, <1>2, <1>3 DEF Due
<1>5. ASSUME NEW q \in Plugins, FlipToCome(q)
      PROVE  FlipToCome(q)'
  <2>1. PICK m \in Nat \ {0} : m = Len(flips[q]) /\ Coming(q, m)
    BY <1>5 DEF FlipToCome
  <2>2. \A kind \in {"stop", "persist"} : Holder \notin Of(kind, q, m)
    BY <1>1 DEF Of
  <2>3. Coming(q, m)'
    BY <1>1, <1>2, <2>1, <2>2 DEF Coming
  <2> QED
    BY <1>1, <2>1, <2>3 DEF FlipToCome
<1>6. ASSUME NEW q \in Plugins
      PROVE  Seen(q)'
  <2>1. Seen(q) /\ \A steps : ~Working(q, steps)
    BY <1>1, ToldTypes DEF Working
  <2>2. Right(q) => Right(q)'
    BY <1>1, <1>2 DEF Right, Lives
  <2>3. RightOrToCome(q)'
    BY <1>1, <1>4, <1>5, <2>1, <2>2 DEF Seen, RightOrToCome
  <2>4. SettingsRun(q)' /\ KeyRuns(q)'
    BY <1>1, <1>2, <2>1 DEF Seen, SettingsRun, KeyRuns, Lives
  <2>5. /\ StopIsMeant(q)' /\ KeyIsFresh(q)' /\ LaunchIsMeant(q)'
        /\ DownIsDown(q)'
    BY <1>1 DEF StopIsMeant, KeyIsFresh, LaunchIsMeant, DownIsDown, Working
  <2>6. GotIsFresh(q)'
    <3>1. /\ got'[q] = Effective(q) /\ got'[q].enabled = On(q)
          /\ got'[q].spec = Declared(q) /\ got'[q].settings = saved[q]
      BY <1>1 DEF On, Declared, Effective
    <3> QED
      BY <1>1, <1>2, <3>1 DEF GotIsFresh
  <2> QED
    BY <2>3, <2>4, <2>5, <2>6 DEF Seen
<1>7. Resting'
  BY <1>1, <1>2, ToldTypes DEF LInv, Resting
<1> QED
  BY <1>2, <1>6, <1>7 DEF LInv

\* What a listing decides about a plugin that it may launch, stop or leave.
LEMMA Decided ==
  ASSUME Told, NEW q \in Plugins
  PROVE  /\ Decide(q) \in {"none", "stop", "restart", "wait", "launch"}
         /\ Holder.kind \in Passes => Decide(q) = Plan(q)
         /\ Decide(q) \in {"restart", "wait", "launch"} =>
              \/ got[q].enabled
              \/ Holder.kind = "start" /\ Holder.plugin = q
         /\ Decide(q) = "stop" => ~got[q].enabled
         /\ Holder.kind = "start" /\ Holder.plugin = q =>
              Decide(q) \in {"wait", "launch"}
         /\ Holder.kind = "save" /\ Holder.plugin = q => Decide(q) = Reapply(q)
         /\ Holder.kind = "rotate" /\ q \in Readers /\ got[q].named =>
              Decide(q) = Reapply(q)
<1>1. Holder.kind \in Passes => Holder.kind \notin {"start", "save", "rotate"}
  BY DEF Passes
<1>2. Decide(q) \in {"none", Begin(q), Plan(q), Reapply(q)}
  BY DEF Decide
<1>3. /\ Begin(q) \in {"wait", "launch"}
      /\ Plan(q) \in {"none", "stop", "restart", "wait", "launch"}
      /\ Reapply(q) \in {"none", "stop", "restart"}
  BY DEF Begin, Plan, Reapply
<1>4. /\ Plan(q) \in {"restart", "wait", "launch"} => got[q].enabled
      /\ Reapply(q) = "restart" => got[q].enabled
      /\ Plan(q) = "stop" => ~got[q].enabled
      /\ Reapply(q) = "stop" => ~got[q].enabled
  BY DEF Plan, Reapply
<1>5. Decide(q) = Begin(q) \/ Decide(q) \in {"none", Plan(q), Reapply(q)}
  BY <1>2
<1>6. /\ Holder.kind \in Passes => Decide(q) = Plan(q)
      /\ Holder.kind = "start" /\ Holder.plugin = q => Decide(q) = Begin(q)
      /\ Holder.kind = "save" /\ Holder.plugin = q => Decide(q) = Reapply(q)
      /\ Holder.kind = "rotate" /\ q \in Readers /\ got[q].named =>
           Decide(q) = Reapply(q)
      /\ ~(Holder.kind = "start" /\ Holder.plugin = q) =>
           Decide(q) \in {"none", Plan(q), Reapply(q)}
  <2>1. CASE Holder.kind \in Passes
    <3>1. Holder.kind # "start" /\ Holder.kind # "save" /\ Holder.kind # "rotate"
      BY <1>1, <2>1
    <3>2. Decide(q) = Plan(q)
      BY <2>1, <3>1 DEF Decide
    <3> QED
      BY <3>1, <3>2, Zenon
  <2>2. CASE Holder.kind = "start"
    <3>1. Holder.kind \notin Passes /\ Holder.kind # "save" /\ Holder.kind # "rotate"
      BY <1>1, <2>2
    <3>2. Holder.plugin = q => Decide(q) = Begin(q)
      BY <2>2, <3>1 DEF Decide
    <3>3. Holder.plugin # q => Decide(q) = "none"
      BY <2>2, <3>1 DEF Decide
    <3> QED
      BY <2>2, <3>1, <3>2, <3>3
  <2>3. CASE Holder.kind = "save"
    BY <1>1, <2>3 DEF Decide
  <2>4. CASE Holder.kind = "rotate"
    BY <1>1, <2>4 DEF Decide
  <2>5. CASE Holder.kind \notin Passes \cup {"start", "save", "rotate"}
    BY <2>5 DEF Decide
  <2> QED
    BY <2>1, <2>2, <2>3, <2>4, <2>5
<1>7. Decide(q) \in {"none", "stop", "restart", "wait", "launch"}
  BY <1>2, <1>3
<1>8. Decide(q) \in {"restart", "wait", "launch"} =>
        \/ got[q].enabled
        \/ Holder.kind = "start" /\ Holder.plugin = q
  BY <1>3, <1>4, <1>6
<1>9. Decide(q) = "stop" => ~got[q].enabled
  BY <1>3, <1>4, <1>5
<1> QED
  BY <1>3, <1>6, <1>7, <1>8, <1>9

\* What a pass leaves alone is as it should be.
LEMMA PlannedIsRight ==
  ASSUME Told, NEW q \in Plugins, Plan(q) = "none",
         got[q].enabled = On(q), got[q].spec = Declared(q)
  PROVE  /\ On(q) => Lives(q)
         /\ q \notin Static /\ ~On(q) /\ unit[q].at # "crashing" => ~Lives(q)
         /\ q \notin Static /\ On(q) /\ Lives(q) => unit[q].spec = Declared(q)
<1>1. /\ unit[q].at \in {"gone", "up", "crashing", "stopping"}
      /\ got[q].enabled \in BOOLEAN /\ unit[q].stamped \in BOOLEAN
      /\ q \notin Static => unit[q].stamped
  BY ToldTypes DEF Unit, Told, Stamps
<1>2. CASE got[q].enabled
  <2>1. unit[q].at = "up" /\ unit[q].stamped /\ unit[q].spec = got[q].spec
    BY <1>1, <1>2 DEF Plan, Stopping
  <2> QED
    BY <1>2, <2>1 DEF Lives
<1>3. CASE ~got[q].enabled
  <2>1. unit[q].at = "up" => ~unit[q].stamped
    BY <1>1, <1>3 DEF Plan, Stopping
  <2> QED
    BY <1>1, <1>3, <2>1 DEF Lives
<1> QED
  BY <1>2, <1>3

LEMMA ListSeen ==
  ASSUME Told, List
  PROVE  LInv'
<1>1. /\ queue # <<>> /\ phase = "listing" /\ phase' = "working" /\ unlisted' = FALSE
      /\ UNCHANGED <<json, stamp, override, saved, keyring, unit, queue, watch,
                     raising, reloadUnlisted, flips>>
      /\ Holder.kind \notin {"stop", "persist"}
  BY QueueFacts, ToldTypes DEF List, fileVars, watchVars, LInv, Resting
<1>2. /\ Holder' = Holder /\ Places' = Places /\ Watches' /\ Calls' /\ Holder \in Ops
      /\ \A ops : ToCome(ops) => ToCome(ops)'
      /\ \A ops : Holder \notin ops => (Unlisted(ops) => Unlisted(ops)')
      /\ \A q \in Plugins : On(q)' = On(q) /\ Declared(q)' = Declared(q)
  BY <1>1, Advances
<1>3. Later => Later'
  BY <1>1, <1>2 DEF Later
<1>4. ASSUME NEW q \in Plugins, FlipToCome(q)
      PROVE  FlipToCome(q)' \/ (Holder.kind = "start" /\ Holder.plugin = q)
  <2>1. PICK m \in Nat \ {0} : m = Len(flips[q]) /\ Coming(q, m)
    BY <1>4 DEF FlipToCome
  <2>2. Holder \notin Of("start", q, m) \/ (Holder.kind = "start" /\ Holder.plugin = q)
    BY DEF Of
  <2>3. Holder \notin Of("start", q, m) => Coming(q, m)'
    BY <1>1, <1>2, <2>1 DEF Coming
  <2> QED
    BY <1>1, <2>1, <2>2, <2>3 DEF FlipToCome
<1>5. ASSUME NEW q \in Plugins
      PROVE  Seen(q)'
  <2> DEFINE pass == Holder.kind \in Passes
  <2>1. /\ step'[q] = Decide(q)
        /\ got'[q] = [got[q] EXCEPT !.key = keyring]
        /\ excused'[q] = (excused[q] /\ ~pass)
    BY DEF List
  <2>2. /\ pass => overlooked'[q] = (~got[q].enabled /\ unit[q].at = "crashing")
        /\ ~pass => overlooked'[q] = overlooked[q]
    BY DEF List
  <2>3. /\ stale[q] => stale'[q]
        /\ Holder.kind = "save" /\ q = Holder.plugin /\ unit[q].at = "crashing" =>
             stale'[q]
        /\ Holder.kind = "rotate" /\ q \in Readers
           /\ (unit[q].at = "crashing" \/ ~got[q].named) => stale'[q]
    BY DEF List, Stale
  <2>4. /\ got'[q].enabled = got[q].enabled /\ got'[q].spec = got[q].spec
        /\ got'[q].settings = got[q].settings /\ got'[q].key = keyring
        /\ got[q].enabled \in BOOLEAN
    BY <2>1, ToldTypes
  <2>5. /\ Later \/ (got[q].enabled = On(q) /\ got[q].spec = Declared(q))
        /\ got[q].settings = saved[q] \/ ToCome(SavesOf(q))
        /\ Seen(q) /\ \A steps : ~Working(q, steps)
    BY <1>1, ToldTypes DEF Seen, GotIsFresh, Working
  <2>6. GotIsFresh(q)' /\ KeyIsFresh(q)'
    BY <1>1, <1>2, <1>3, <2>4, <2>5 DEF GotIsFresh, KeyIsFresh
  <2>7. LaunchIsMeant(q)' /\ DownIsDown(q)'
    BY <1>1, <1>2, <2>1, <2>4, Decided
    DEF LaunchIsMeant, DownIsDown, Working, Launching
  <2>8. StopIsMeant(q)'
    BY <1>2, <1>3, <2>1, <2>5, Decided DEF StopIsMeant, Working
  <2>9. step'[q] # "none" => Working(q, Launching \cup {"stop"})'
    BY <1>1, <2>1, Decided DEF Working, Launching
  <2>10. RightOrToCome(q)'
    <3>1. CASE Later
      BY <1>3, <3>1 DEF RightOrToCome, Due
    <3>2. CASE step'[q] # "none"
      BY <2>9, <3>2 DEF RightOrToCome
    <3>3. CASE ~Later /\ step'[q] = "none" /\ pass
      <4>1. Plan(q) = "none"
        BY <2>1, <3>3, Decided
      <4>2. /\ On(q) => Lives(q)
            /\ q \notin Static /\ ~On(q) /\ unit[q].at # "crashing" => ~Lives(q)
            /\ q \notin Static /\ On(q) /\ Lives(q) => unit[q].spec = Declared(q)
        BY <2>5, <3>3, <4>1, PlannedIsRight
      <4>3. ~On(q) /\ unit[q].at = "crashing" => overlooked'[q]
        BY <2>2, <2>5, <3>3
      <4>4. Right(q)'
        BY <1>1, <1>2, <4>2, <4>3 DEF Right, Lives
      <4> QED
        BY <4>4 DEF RightOrToCome
    <3>4. CASE ~Later /\ step'[q] = "none" /\ ~pass
      <4>1. ~(Holder.kind = "start" /\ Holder.plugin = q)
        BY <2>1, <3>4, Decided
      <4>2. excused[q] \/ FlipToCome(q) \/ Right(q)
        BY <2>5, <3>4 DEF Seen, RightOrToCome, Due
      <4>3. Right(q) => Right(q)'
        BY <1>1, <1>2, <2>2, <3>4 DEF Right, Lives
      <4> QED
        BY <1>4, <2>1, <3>4, <4>1, <4>2, <4>3 DEF RightOrToCome
    <3> QED
      BY <3>1, <3>2, <3>3, <3>4
  <2>11. /\ unit[q].at \in {"gone", "up", "crashing", "stopping"}
         /\ q \notin Static => unit[q].stamped
    BY ToldTypes DEF Unit, Told, Stamps
  <2>12. q \notin Static /\ unit[q].at = "up" /\ Decide(q) = Reapply(q) =>
           Working(q, {"restart", "stop"})'
    <3>1. q \notin Static /\ unit[q].at = "up" => Reapply(q) \in {"restart", "stop"}
      BY <2>4, <2>11 DEF Reapply
    <3> QED
      BY <1>1, <2>1, <3>1 DEF Working
  <2>13. SettingsRun(q)'
    <3>1. CASE Holder \notin SavesOf(q)
      BY <1>1, <1>2, <2>3, <2>5, <3>1 DEF Seen, SettingsRun, Lives
    <3>2. CASE Holder \in SavesOf(q)
      <4>1. Holder.kind = "save" /\ Holder.plugin = q
        BY <3>2 DEF SavesOf
      <4>2. Decide(q) = Reapply(q) /\ (unit[q].at = "crashing" => stale'[q])
        BY <2>3, <4>1, Decided
      <4> QED
        BY <1>1, <2>12, <4>2 DEF SettingsRun, Lives
    <3> QED
      BY <3>1, <3>2
  <2>14. KeyRuns(q)'
    <3>1. CASE Holder \notin Rotations
      BY <1>1, <1>2, <2>3, <2>5, <3>1 DEF Seen, KeyRuns, Lives
    <3>2. CASE Holder \in Rotations /\ q \in Readers
      <4>1. Holder.kind = "rotate"
        BY <3>2 DEF Rotations
      <4>2. \/ stale'[q]
            \/ Decide(q) = Reapply(q) /\ unit[q].at # "crashing"
        BY <2>3, <3>2, <4>1, Decided
      <4> QED
        BY <1>1, <2>12, <4>2 DEF KeyRuns, Lives
    <3>3. CASE q \notin Readers
      BY <3>3 DEF KeyRuns
    <3> QED
      BY <3>1, <3>2, <3>3
  <2> QED
    BY <2>6, <2>7, <2>8, <2>10, <2>13, <2>14 DEF Seen
<1>6. Resting'
  BY <1>1, <1>2 DEF Resting
<1> QED
  BY <1>2, <1>5, <1>6 DEF LInv

\* A listing that fails, and a holder that launches without one.
LEMMA LaunchesUnlistedSeen ==
  ASSUME Told, ListFails, Holder.kind \in {"startup", "poke", "start"}
  PROVE  LInv'
<1> DEFINE blind == Holder.kind \in {"startup", "poke"}
<1>1. /\ queue # <<>> /\ phase = "listing" /\ phase' = "working"
      /\ unlisted' = blind
      /\ UNCHANGED <<json, stamp, override, saved, keyring, unit, queue, got,
                     overlooked, stale, excused, watch, raising,
                     reloadUnlisted, flips>>
  BY QueueFacts, ToldTypes DEF ListFails, fileVars, watchVars
<1>2. /\ Holder' = Holder /\ Places' = Places /\ Watches' /\ Calls' /\ Holder \in Ops
      /\ \A ops : ToCome(ops) => ToCome(ops)'
      /\ \A ops : Holder \notin ops => (Unlisted(ops) => Unlisted(ops)')
      /\ \A q \in Plugins : On(q)' = On(q) /\ Declared(q)' = Declared(q)
  BY <1>1, Advances
<1>3. Later => Later'
  BY <1>1, <1>2 DEF Later
<1>4. blind => Later'
  BY <1>1 DEF Later
<1>5. ASSUME NEW q \in Plugins, FlipToCome(q)
      PROVE  FlipToCome(q)' \/ (Holder.kind = "start" /\ Holder.plugin = q)
  <2>1. PICK m \in Nat \ {0} : m = Len(flips[q]) /\ Coming(q, m)
    BY <1>5 DEF FlipToCome
  <2>2. Holder \notin Of("start", q, m) \/ (Holder.kind = "start" /\ Holder.plugin = q)
    BY DEF Of
  <2>3. Holder \notin Of("start", q, m) => Coming(q, m)'
    BY <1>1, <1>2, <2>1 DEF Coming
  <2> QED
    BY <1>1, <2>1, <2>2, <2>3 DEF FlipToCome
<1>6. ASSUME NEW q \in Plugins
      PROVE  Seen(q)'
  <2>1. /\ step'[q] \in {"none", "launch"}
        /\ step'[q] = "launch" =>
             got[q].enabled \/ (Holder.kind = "start" /\ Holder.plugin = q)
        /\ Holder.kind = "start" /\ Holder.plugin = q => step'[q] = "launch"
    BY DEF ListFails
  <2>2. /\ Later \/ (got[q].enabled = On(q) /\ got[q].spec = Declared(q))
        /\ got[q].settings = saved[q] \/ ToCome(SavesOf(q))
        /\ Seen(q) /\ \A steps : ~Working(q, steps)
    BY <1>1, ToldTypes DEF Seen, GotIsFresh, Working
  <2>3. GotIsFresh(q)'
    BY <1>1, <1>2, <1>3, <2>2 DEF GotIsFresh
  <2>4. /\ KeyIsFresh(q)' /\ LaunchIsMeant(q)' /\ DownIsDown(q)'
        /\ StopIsMeant(q)'
    BY <1>1, <1>2, <2>1
    DEF KeyIsFresh, LaunchIsMeant, DownIsDown, StopIsMeant, Working, Launching
  <2>5. SettingsRun(q)' /\ KeyRuns(q)'
    <3>1. Holder \notin SavesOf(q) /\ Holder \notin Rotations
      BY DEF SavesOf, Rotations
    <3> QED
      BY <1>1, <1>2, <2>2, <3>1 DEF Seen, SettingsRun, KeyRuns, Lives
  <2>6. RightOrToCome(q)'
    <3>1. CASE blind
      BY <1>4, <3>1 DEF RightOrToCome, Due
    <3>2. CASE ~blind
      <4>1. Holder.kind \notin Passes
        BY <3>2 DEF Passes
      <4>2. Right(q) => Right(q)'
        BY <1>1, <1>2 DEF Right, Lives
      <4>3. Holder.kind = "start" /\ Holder.plugin = q =>
              Working(q, Launching \cup {"stop"})'
        BY <1>1, <2>1 DEF Working, Launching
      <4> QED
        BY <1>1, <1>3, <1>5, <2>2, <4>1, <4>2, <4>3 DEF Seen, RightOrToCome, Due
    <3> QED
      BY <3>1, <3>2
  <2> QED
    BY <2>2, <2>3, <2>4, <2>5, <2>6 DEF Seen
<1>7. Resting'
  BY <1>1, <1>2 DEF Resting
<1> QED
  BY <1>2, <1>6, <1>7 DEF LInv

\* Whoever leaves takes its own operation along, and no other.
LEMMA LeaveFacts ==
  ASSUME Told, queue # <<>>, NEW blind \in BOOLEAN, Leave(blind)
  PROVE  /\ queue' = Tail(queue) /\ phase' = "idle" /\ Calls' /\ Watches'
         /\ Holder \in Ops
         /\ \A ops : Holder \notin ops \/ phase # "idle" =>
              (ToCome(ops) => ToCome(ops)')
         /\ \A ops : Holder \notin ops \/ phase = "working" =>
              (Unlisted(ops) => Unlisted(ops)')
         /\ \A q \in Plugins : FlipToCome(q) =>
              \/ FlipToCome(q)' \/ (phase = "idle" /\ Holder.kind \in {"stop", "persist"})
              \/ phase # "working" /\ Holder.kind = "start" /\ Holder.plugin = q
<1>1. queue' = Tail(queue) /\ phase' = "idle"
  BY DEF Leave, Leaves
<1>2. /\ \A ops : Holder \notin ops \/ phase # "idle" =>
           (ToCome(ops) => ToCome(ops)')
      /\ \A ops : Holder \notin ops \/ phase = "working" =>
           (Unlisted(ops) => Unlisted(ops)')
  BY <1>1, LeftKeeps, ToldTypes
<1>3. Watches'
  <2>1. watch' = watch \/ Holder.kind \in {"startup", "tick"}
    BY DEF Leave, Leaves
  <2> QED
    BY <1>1, <2>1, LeftWatches
<1>4. /\ 1 \in Places /\ Holder = queue[1] /\ Holder \in Ops /\ Calls
      /\ Holder.flip \in Nat
  <2>1. 1 \in Places /\ Holder = queue[1]
    BY QueueFacts, ToldTypes
  <2>2. Holder \in Ops
    BY HolderIsOp, ToldTypes DEF Typed
  <2> QED
    BY <2>1, <2>2, ToldTypes DEF LInv, Ops
<1>5. /\ \A q \in Plugins : Len(flips'[q]) = Len(flips[q])
      /\ \A q \in Plugins : \A m \in 1..Len(flips[q]) :
           /\ flips[q][m].at = "kept" => flips'[q][m].at = "kept"
           /\ flips[q][m].at # "kept" => flips'[q][m].at # "kept"
  <2>1. CASE Holder.flip = 0
    <3>1. flips' = flips
      BY <2>1 DEF Leave, Leaves
    <3> QED
      BY <3>1
  <2>2. CASE Holder.flip # 0
    <3>1. Holder.kind \in OfFlip /\ Holder.plugin \in Plugins
      BY <1>4, <2>2 DEF Calls
    <3>2. PICK p \in Plugins : p = Holder.plugin
      BY <3>1
    <3>3. PICK n \in Nat : n = Holder.flip
      BY <1>4
    <3>4. Moved(p, n, "over")
      BY <2>2, <3>2, <3>3 DEF Leave, Leaves, Moved
    <3>5. flips[p][n].at # "kept"
      BY <3>1, <3>2, <3>3, NewerIsBehind
    <3>6. /\ \A q \in Plugins : Len(flips'[q]) = Len(flips[q])
          /\ \A q \in Plugins : \A m \in 1..Len(flips[q]) :
               flips'[q][m].at = IF q = p /\ m = n THEN "over" ELSE flips[q][m].at
          /\ \A q \in Plugins : q # p => flips'[q] = flips[q]
      BY <3>4, FlipMoves, ToldTypes
    <3> QED
      BY <3>5, <3>6
  <2> QED
    BY <2>1, <2>2
<1>6. Calls'
  BY <1>1, <1>5, LeftCalls
<1>7. ASSUME NEW q \in Plugins, FlipToCome(q),
             ~(phase = "idle" /\ Holder.kind \in {"stop", "persist"}),
             ~(phase # "working" /\ Holder.kind = "start" /\ Holder.plugin = q)
      PROVE  FlipToCome(q)'
  <2>1. PICK m \in Nat \ {0} : m = Len(flips[q]) /\ Coming(q, m)
    BY <1>7 DEF FlipToCome
  <2>2. m \in 1..Len(flips[q]) /\ m = Len(flips'[q])
    BY <1>5, <2>1
  <2>3. /\ Holder \notin Of("start", q, m) \/ phase = "working"
        /\ \A kind \in {"stop", "persist"} :
             Holder \notin Of(kind, q, m) \/ phase # "idle"
    BY <1>7 DEF Of, OfFlip
  <2>4. Coming(q, m)'
    BY <1>2, <1>5, <2>1, <2>2, <2>3 DEF Coming
  <2> QED
    BY <2>1, <2>2, <2>4 DEF FlipToCome
<1> QED
  BY <1>1, <1>2, <1>3, <1>4, <1>6, <1>7

\* What is to come later still is, when the holder leaves.
LEMMA LeaveLater ==
  ASSUME Told, queue # <<>>, NEW blind \in BOOLEAN, Leave(blind),
         UNCHANGED <<json, stamp, unlisted>>, Later,
         ~blind => ~(phase = "working" /\ unlisted),
         phase = "idle" => Holder.kind \notin Passes
  PROVE  Later'
<1>1. ToCome(PassOps) => ToCome(PassOps)'
  <2>1. Holder \in PassOps => Holder.kind \in Passes
    BY DEF PassOps
  <2> QED
    BY <2>1, LeaveFacts
<1>2. /\ raising => raising'
      /\ reloadUnlisted' = reloadUnlisted
      /\ Holder.kind \notin {"startup", "tick"} => watch' = watch
      /\ Holder.kind \in {"startup", "tick"} =>
           /\ watch' = [at |-> "sleeping", seen |-> watch.seen, pending |-> blind]
           /\ watch.at = "converging"
  <2>1. 1 \in Places /\ Holder = queue[1]
    BY QueueFacts, ToldTypes
  <2>2. Holder.kind \in {"startup", "tick"} => watch.at = "converging"
    BY <2>1, ToldTypes DEF LInv, Watches
  <2> QED
    BY <2>2 DEF Leave, Leaves
<1>3. phase = "working" /\ unlisted => Later'
  <2>1. phase = "working" /\ unlisted => blind /\ Holder.kind \in Passes
    BY DEF Told, Owing
  <2>2. blind /\ Holder.kind = "poke" => raising'
    BY DEF Leave, Leaves
  <2>3. blind /\ Holder.kind \in {"startup", "tick"} =>
          watch'.at = "sleeping" /\ watch'.pending
    BY <1>2
  <2> QED
    BY <2>1, <2>2, <2>3 DEF Later, Passes
<1>4. CASE Holder.kind \in {"startup", "tick"}
  <2>1. watch'.seen = watch.seen /\ watch.at = "converging"
    BY <1>2, <1>4
  <2> QED
    BY <1>1, <1>2, <1>3, <2>1 DEF Later
<1>5. CASE Holder.kind \notin {"startup", "tick"}
  BY <1>1, <1>2, <1>3, <1>5 DEF Later
<1> QED
  BY <1>4, <1>5

\* A plugin the leaving operation does not concern.
LEMMA LeftAlone ==
  ASSUME Told, queue # <<>>, NEW blind \in BOOLEAN, Leave(blind),
         NEW q \in Plugins, UNCHANGED <<json, override, saved, keyring>>,
         unit'[q] = unit[q], overlooked'[q] = overlooked[q],
         excused[q] => excused'[q], stale[q] => stale'[q],
         step[q] = "none" \/ phase # "working",
         Due => Later' \/ excused'[q],
         phase = "working" \/ Holder \notin SavesOf(q) \/ stale'[q],
         phase = "working" \/ Holder \notin Rotations \/ stale'[q] \/ q \notin Readers,
         FlipToCome(q) => FlipToCome(q)' \/ excused'[q] \/ Later'
  PROVE  Seen(q)'
<1>1. /\ phase' = "idle" /\ On(q)' = On(q) /\ Declared(q)' = Declared(q)
      /\ Seen(q) /\ (Lives(q)' <=> Lives(q))
      /\ ~Working(q, Launching \cup {"stop"}) /\ ~Working(q, {"restart", "stop"})
  BY LeaveFacts, ToldTypes
  DEF On, Declared, Effective, Lives, Working, Launching
<1>2. /\ \A ops : Holder \notin ops \/ phase = "working" =>
           (Unlisted(ops) => Unlisted(ops)')
  BY LeaveFacts
<1>3. SettingsRun(q)' /\ KeyRuns(q)'
  BY <1>1, <1>2 DEF Seen, SettingsRun, KeyRuns
<1>4. Later' => RightOrToCome(q)'
  BY DEF RightOrToCome, Due
<1>5. Right(q) => Right(q)'
  BY <1>1 DEF Right
<1>6. RightOrToCome(q)'
  <2>1. excused[q] \/ Due \/ FlipToCome(q) \/ Right(q)
    BY <1>1 DEF Seen, RightOrToCome
  <2> QED
    BY <1>4, <1>5, <2>1 DEF RightOrToCome
<1> QED
  BY <1>1, <1>3, <1>6, IdleSeen

\* A listing that fails, and a holder that leaves it at that.
LEMMA GivesUpSeen ==
  ASSUME Told, ListFails, Holder.kind \notin {"startup", "poke", "start"}
  PROVE  LInv'
<1>1. /\ queue # <<>> /\ phase = "listing" /\ Leave(Holder.kind = "tick")
      /\ UNCHANGED <<json, stamp, override, saved, keyring, unit, step, got,
                     unlisted, overlooked, excused>>
      /\ Holder.kind \notin {"stop", "persist"}
  BY QueueFacts, ToldTypes DEF ListFails, fileVars, LInv, Resting
<1>2. /\ Calls' /\ Watches' /\ phase' = "idle"
      /\ \A q \in Plugins : FlipToCome(q) => FlipToCome(q)'
  BY <1>1, LeaveFacts
<1>3. \A q \in Plugins : step[q] = "none"
  BY <1>1, ToldTypes DEF LInv, Resting
<1>4. \A q \in Plugins :
        /\ stale[q] => stale'[q]
        /\ Holder \in SavesOf(q) => stale'[q]
        /\ Holder \in Rotations /\ q \in Readers => stale'[q]
  <2>1. Stale(CASE Holder.kind = "save" -> {Holder.plugin}
                [] Holder.kind = "rotate" -> Readers
                [] OTHER -> {})
    BY DEF ListFails
  <2>2. CASE Holder.kind = "save"
    BY <2>1, <2>2 DEF Stale, SavesOf, Rotations
  <2>3. CASE Holder.kind = "rotate"
    BY <2>1, <2>3 DEF Stale, SavesOf, Rotations
  <2>4. CASE Holder.kind \notin {"save", "rotate"}
    BY <2>1, <2>4 DEF Stale, SavesOf, Rotations
  <2> QED
    BY <2>2, <2>3, <2>4
<1>5. Due => Later'
  <2>1. CASE Holder.kind = "tick"
    <3>1. watch'.at = "sleeping" /\ watch'.pending
      BY <1>1, <2>1 DEF Leave, Leaves
    <3> QED
      BY <3>1 DEF Later
  <2>2. CASE Holder.kind # "tick"
    <3>1. Holder.kind \notin Passes
      BY <2>2 DEF Passes
    <3>2. Due => Later
      BY <3>1 DEF Due
    <3>3. Later => Later'
      BY <1>1, LeaveLater
    <3> QED
      BY <3>2, <3>3
  <2> QED
    BY <2>1, <2>2
<1>6. ASSUME NEW q \in Plugins
      PROVE  Seen(q)'
  <2>1. (Holder.kind = "tick") \in BOOLEAN
    OBVIOUS
  <2> QED
    BY <1>1, <1>2, <1>3, <1>4, <1>5, <2>1, LeftAlone
<1>7. Resting'
  BY <1>1, <1>2, <1>3 DEF Resting
<1> QED
  BY <1>2, <1>6, <1>7 DEF LInv

LEMMA LoadIsAllSeen ==
  ASSUME Told, LoadIsAll
  PROVE  LInv'
<1>1. /\ queue # <<>> /\ phase = "idle" /\ Leave(FALSE)
      /\ Holder.kind \in Kinds \ {"stop", "persist"} /\ ~Listable
      /\ UNCHANGED <<json, stamp, override, saved, keyring, step, got,
                     unlisted, overlooked>>
  BY DEF LoadIsAll, Holds, fileVars
<1>2. /\ Calls' /\ Watches' /\ phase' = "idle"
  BY <1>1, LeaveFacts
<1>3. \A q \in Plugins : step[q] = "none"
  BY <1>1, ToldTypes DEF LInv, Resting
<1>4. \A q \in Plugins :
        /\ stale[q] => stale'[q]
        /\ Holder \in SavesOf(q) => stale'[q]
        /\ Holder.kind = "start" /\ Holder.plugin = q => stale'[q]
        /\ Holder \in Rotations /\ q \in Readers => stale'[q]
  <2>1. Stale(CASE Holder.kind \in {"save", "start"} -> {Holder.plugin}
                [] Holder.kind = "rotate" -> Readers
                [] OTHER -> {})
    BY DEF LoadIsAll
  <2>2. CASE Holder.kind \in {"save", "start"}
    BY <2>1, <2>2 DEF Stale, SavesOf, Rotations
  <2>3. CASE Holder.kind = "rotate"
    BY <2>1, <2>3 DEF Stale, SavesOf, Rotations
  <2>4. CASE Holder.kind \notin {"save", "start", "rotate"}
    BY <2>1, <2>4 DEF Stale, SavesOf, Rotations
  <2> QED
    BY <2>2, <2>3, <2>4
<1>5. \A q \in Plugins :
        /\ excused[q] => excused'[q]
        /\ Holder.kind = "start" /\ Holder.plugin = q => excused'[q]
        /\ ~(Holder.kind = "start" /\ Holder.plugin = q) => unit'[q] = unit[q]
  <2>1. CASE Holder.kind = "start"
    <3>1. /\ unit' = [unit EXCEPT ![Holder.plugin] = StartUnit(Holder.plugin)]
          /\ Excuse({Holder.plugin})
      BY <2>1 DEF LoadIsAll
    <3>2. \A q \in Plugins : Holder.plugin # q => unit'[q] = unit[q]
      BY <3>1, ToldTypes
    <3>3. \A q \in Plugins : /\ excused[q] => excused'[q]
                             /\ Holder.plugin = q => excused'[q]
      BY <3>1 DEF Excuse
    <3> QED
      BY <2>1, <3>2, <3>3
  <2>2. CASE Holder.kind # "start"
    BY <2>2 DEF LoadIsAll
  <2> QED
    BY <2>1, <2>2
<1>6. Due => Later'
  <2>1. Due => Later
    BY <1>1 DEF Due
  <2>2. CASE Holder.kind \in Passes
    <3>1. ~json.readable
      <4>1. Holder.kind \in Passes => (Listable <=> json.readable)
        <5>1. Holder.kind \in Passes => Holder.kind \notin {"save", "start"}
          BY DEF Passes
        <5> QED
          BY <5>1 DEF Listable
      <4> QED
        BY <1>1, <2>2, <4>1
    <3> QED
      BY <1>1, <3>1 DEF Later
  <2>3. CASE Holder.kind \notin Passes
    BY <1>1, <2>1, <2>3, LeaveLater
  <2> QED
    BY <2>2, <2>3
<1>7. ASSUME NEW q \in Plugins, ~(Holder.kind = "start" /\ Holder.plugin = q)
      PROVE  Seen(q)'
  <2>1. FlipToCome(q) => FlipToCome(q)'
    BY <1>1, <1>7, LeaveFacts
  <2> QED
    BY <1>1, <1>3, <1>4, <1>5, <1>6, <1>7, <2>1, LeftAlone
<1>8. ASSUME NEW q \in Plugins, Holder.kind = "start", Holder.plugin = q
      PROVE  Seen(q)'
  <2>1. excused'[q] /\ stale'[q]
    BY <1>4, <1>5, <1>8
  <2>2. RightOrToCome(q)' /\ SettingsRun(q)' /\ KeyRuns(q)'
    BY <2>1 DEF RightOrToCome, SettingsRun, KeyRuns
  <2> QED
    BY <1>2, <2>2, IdleSeen
<1>9. Resting'
  BY <1>1, <1>2, <1>3 DEF Resting
<1> QED
  BY <1>2, <1>7, <1>8, <1>9 DEF LInv

LEMMA FinishSeen ==
  ASSUME Told, Finish
  PROVE  LInv'
<1>1. /\ queue # <<>> /\ phase = "working" /\ Leave(unlisted)
      /\ unlisted \in BOOLEAN
      /\ UNCHANGED <<json, stamp, override, saved, keyring, unit, step, got,
                     unlisted, overlooked, excused, stale>>
  BY QueueFacts, ToldTypes DEF Finish, fileVars, Typed, TypeOK
<1>2. \A q \in Plugins : step[q] = "none"
  <2>1. \A q \in Plugins : step[q] \in Steps /\ q \notin At(Steps \ {"none"})
    BY ToldTypes DEF Finish
  <2> QED
    BY <2>1 DEF At
<1>3. /\ Calls' /\ Watches' /\ phase' = "idle"
      /\ \A q \in Plugins : FlipToCome(q) => FlipToCome(q)'
  BY <1>1, LeaveFacts
<1>4. Due => Later'
  <2>1. Due => Later
    BY <1>1 DEF Due
  <2> QED
    BY <1>1, <2>1, LeaveLater
<1>5. ASSUME NEW q \in Plugins
      PROVE  Seen(q)'
  BY <1>1, <1>2, <1>3, <1>4, LeftAlone
<1>6. Resting'
  BY <1>1, <1>2, <1>3 DEF Resting
<1> QED
  BY <1>3, <1>5, <1>6 DEF LInv

-----------------------------------------------------------------------------
(* The invariant, and what it comes to when all is quiet.                  *)

LEMMA InitSeen ==
  ASSUME Init
  PROVE  LInv
<1>1. /\ queue = <<>> /\ phase = "idle" /\ watch.at = "starting"
      /\ saved = [p \in Plugins |-> 0] /\ keyring = 0
      /\ step = [p \in Plugins |-> "none"]
  BY DEF Init
<1>2. Len(queue) = 0 /\ Places = {}
  <2>1. Len(queue) = 0
    BY <1>1
  <2> QED
    BY <2>1 DEF Places
<1>3. ASSUME NEW p \in Plugins
      PROVE  Seen(p)
  <2>1. stale[p] = (unit[p].settings # 0 \/ unit[p].key # 0)
    BY DEF Init
  <2>2. RightOrToCome(p)
    BY <1>1 DEF RightOrToCome, Due, Later
  <2>3. SettingsRun(p) /\ KeyRuns(p)
    BY <1>1, <2>1 DEF SettingsRun, KeyRuns
  <2>4. /\ StopIsMeant(p) /\ GotIsFresh(p) /\ KeyIsFresh(p)
        /\ LaunchIsMeant(p) /\ DownIsDown(p)
    BY <1>1 DEF StopIsMeant, GotIsFresh, KeyIsFresh, LaunchIsMeant, DownIsDown,
                Working
  <2> QED
    BY <2>2, <2>3, <2>4 DEF Seen
<1>4. Resting
  BY <1>1 DEF Resting
<1>5. Watches /\ Calls
  BY <1>2 DEF Watches, Calls
<1> QED
  BY <1>3, <1>4, <1>5 DEF LInv

LEMMA OutsideSeen ==
  ASSUME Told, Outside
  PROVE  LInv'
<1>1. ASSUME NEW p \in Plugins,
             \/ UnitMoves(p) \/ \E on \in BOOLEAN : Flip(p, on)
             \/ \E n \in DOMAIN flips[p] : GiveUp(p, n)
      PROVE  LInv'
  BY <1>1, UnitMovesSeen, FlipSeen, GiveUpSeen
<1> QED
  BY <1>1, EditSeen, CallersSeen DEF Outside

LEMMA WorkSeen ==
  ASSUME Told, Work
  PROVE  LInv'
<1>1. ASSUME ListFails PROVE LInv'
  BY <1>1, LaunchesUnlistedSeen, GivesUpSeen
<1>2. ASSUME Waits PROVE LInv'
  BY <1>2, PollSeen, PollFailsSeen, WaitRunsOutSeen DEF Waits
<1>3. ASSUME NEW p \in Plugins,
             \/ SendStop(p) \/ StopFails(p) \/ ReadKeys(p) \/ Relaunch(p)
             \/ LaunchFails(p)
      PROVE  LInv'
  BY <1>3, SendStopSeen, FailsSeen, ReadKeysSeen, RelaunchSeen
<1> QED
  BY <1>1, <1>2, <1>3, PersistSeen, BeginStopSeen, LoadSeen, LoadIsAllSeen,
     ListSeen, FinishSeen DEF Work

LEMMA StutterSeen ==
  ASSUME LInv, UNCHANGED vars
  PROVE  LInv'
<1> USE DEF vars, fileVars, passVars, watchVars, checkVars
<1>1. Frame /\ UNCHANGED <<unit, step, got, overlooked, excused, stale>>
  BY DEF Frame
<1>2. ASSUME NEW q \in Plugins
      PROVE  Seen(q)'
  <2>1. Seen(q)
    BY DEF LInv
  <2> QED
    BY <1>1, <2>1, Framed, Unconcerned DEF Frame
<1>3. Resting'
  BY <1>1, Framed DEF LInv, Resting, Frame
<1> QED
  BY <1>1, <1>2, <1>3, Framed DEF LInv

LEMMA SeenInductive == Spec => [](Typed /\ LInv)
<1>1. Told /\ [Next]_vars => LInv'
  <2> SUFFICES ASSUME Told, [Next]_vars PROVE LInv'
    OBVIOUS
  <2>1. CASE Next
    BY <2>1, OutsideSeen, TurnsSeen, WatchingSeen, WorkSeen DEF Next
  <2>2. CASE UNCHANGED vars
    BY <2>2, StutterSeen, ToldTypes
  <2> QED
    BY <2>1, <2>2
<1>2. Typed /\ Checked /\ Stamps /\ Fallbacks /\ Owing /\ LInv => Told
  BY DEF Told
<1> QED
  BY <1>1, <1>2, InitSeen, OwnUnits, CheckedInductive, OwingInductive, PTL DEF Spec

\* Nothing under way is left to put a plugin right.
LEMMA QuietIsRight ==
  ASSUME Typed, LInv, Quiet, NEW p \in Plugins
  PROVE  /\ excused[p] \/ Right(p)
         /\ SettingsRun(p) /\ KeyRuns(p)
         /\ \A ops : ~Unlisted(ops)
         /\ phase = "idle"
<1>1. /\ queue = <<>> /\ json.readable
      /\ watch.at = "sleeping" /\ watch.seen = stamp /\ ~watch.pending
      /\ ~raising /\ ~reloadUnlisted
      /\ \A n \in DOMAIN flips[p] : flips[p][n].at = "over"
  BY DEF Quiet
<1>2. phase = "idle" /\ Places = {}
  <2>1. phase = "idle"
    BY <1>1 DEF Typed, Held
  <2>2. Len(queue) = 0
    BY <1>1
  <2> QED
    BY <2>1, <2>2 DEF Places
<1>3. \A ops : ~Unlisted(ops) /\ ~ToCome(ops)
  BY <1>2 DEF Unlisted, ToCome
<1>4. ~Due
  BY <1>1, <1>2, <1>3 DEF Due, Later
<1>5. ~FlipToCome(p)
  <2>1. ASSUME NEW n \in Nat \ {0}, n = Len(flips[p]), Coming(p, n)
        PROVE  FALSE
    <3>1. n \in DOMAIN flips[p]
      BY <2>1, FlipLens
    <3> QED
      BY <1>1, <1>3, <2>1, <3>1 DEF Coming
  <2> QED
    BY <2>1 DEF FlipToCome
<1>6. Seen(p)
  BY DEF LInv
<1> QED
  BY <1>2, <1>3, <1>4, <1>5, <1>6 DEF Seen, RightOrToCome, Working

\* What is on runs in the end: no order of flips, Saves, rotations, edits,
\* pokes and crashes loses a start with nothing said, for any plugins, files
\* and bounds.
THEOREM OnIsAlwaysUp == Spec => []OnIsUp
<1>1. Typed /\ LInv => OnIsUp
  BY QuietIsRight DEF OnIsUp, Right, On
<1> QED
  BY <1>1, SeenInductive, PTL

\* And what is off does not: no relaunch, late start or restart of systemd's
\* brings it back behind the last pass.
THEOREM OffIsAlwaysDown == Spec => []OffIsDown
<1>1. Typed /\ LInv => OffIsDown
  BY QuietIsRight DEF OffIsDown, Right, On
<1> QED
  BY <1>1, SeenInductive, PTL

\* What runs then, runs from the newest declaration, settings and key, however
\* edits, Saves and rotations met the passes, waits and relaunches under way.
THEOREM TheNewestRuns == Spec => []RunsTheNewest
<1>1. ASSUME Typed, LInv, Quiet, NEW p \in Plugins \ Static,
             Effective(p).enabled, Lives(p)
      PROVE  /\ ~excused[p] => unit[p].spec = json.plugin[p].spec
             /\ ~stale[p] => /\ unit[p].settings = saved[p]
                             /\ p \in Readers => unit[p].key = keyring
  <2>1. /\ excused[p] \/ Right(p)
        /\ SettingsRun(p) /\ KeyRuns(p)
        /\ \A ops : ~Unlisted(ops)
        /\ phase = "idle"
    BY <1>1, QuietIsRight
  <2>2. ~excused[p] => unit[p].spec = json.plugin[p].spec
    BY <1>1, <2>1 DEF Right, On, Declared
  <2>3. ~stale[p] => /\ unit[p].settings = saved[p]
                     /\ p \in Readers => unit[p].key = keyring
    BY <1>1, <2>1 DEF SettingsRun, KeyRuns, Working
  <2> QED
    BY <2>2, <2>3
<1>2. Typed /\ LInv => RunsTheNewest
  BY <1>1 DEF RunsTheNewest
<1> QED
  BY <1>2, SeenInductive, PTL
=============================================================================
