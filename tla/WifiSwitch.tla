----------------------------- MODULE WifiSwitch -----------------------------
(***************************************************************************)
(* The Wi-Fi service's backends (hytte-services/src/wifi/mod.rs) and the   *)
(* registration of NetworkManager's secret agent (wifi/nm_registrar.rs).   *)
(*                                                                         *)
(* One supervised task asks the bus which daemon is there, commits to a    *)
(* backend and then watches NameOwnerChanged, switching when the answer    *)
(* names another daemon.  A switch stops the watcher, stops the registrar, *)
(* unregisters the agent, unmounts it, clears what was shown, and starts   *)
(* the next backend.  Each start is a life of its own: life[i] is the i-th *)
(* backend started, its watcher and, with NetworkManager, its registrar,   *)
(* which outlive the switch for as long as an abort takes to land.         *)
(***************************************************************************)
EXTENDS Integers, Sequences

CONSTANTS
  Installed, \* daemons that may be bus-activatable
  Capacity,  \* items the subscription keeps for its reader
  Scenarios  \* bounds: how often each thing outside the service may happen

Daemons == {"nm", "iwd"}
Kinds == Daemons \cup {"none"}
Bounds == {"daemons", "reconnects", "panics", "overruns", "deaf", "timeouts"}

ASSUME WifiSwitchAssumption ==
  /\ Installed \subseteq Daemons
  /\ Capacity \in Nat \ {0}
  /\ Scenarios \subseteq [Bounds -> Nat]

VARIABLES
  running, activatable, \* what ListNames and ListActivatableNames answer
  epoch,     \* our system connection, which NM knows by its unique name
  agent,     \* the connection whose agent NM has registered, 0 for none
  wire,      \* calls to NM's AgentManager on their way
  sub,       \* the NameOwnerChanged subscription
  items, lagged, \* what its reader has still to take, and that it lost some
  life,      \* the backends started, oldest first
  live,      \* the LiveSlot: 0 or a life
  outgoing,  \* the life being torn down
  pc, choice, renews, \* the task: where it is, and what it has in hand
  published, \* what commands dispatch against
  shown,     \* the life whose station, networks... the panel shows, or 0
  mounted,   \* the life whose agent object is exported, or 0
  left       \* how often each bounded thing may still happen

\* Kept for the properties alone.
VARIABLES
  loose,     \* lives whose switch did not see everything of them stop
  missed     \* what the subscription, or a probe's queries, did not tell

worldVars == <<running, activatable, epoch>>
nmVars == <<agent, wire>>
subVars == <<sub, items, lagged>>
slotVars == <<live, outgoing, published, mounted>>
taskVars == <<pc, choice, renews>>
vars == <<worldVars, nmVars, subVars, life, slotVars, taskVars, shown, left,
          loose, missed>>

Spend(b) == left[b] > 0 /\ left' = [left EXCEPT ![b] = @ - 1]

\* start_iwd, start_network_manager, start_backend.
Started(kind) ==
  [kind |-> kind, watcher |-> IF kind = "none" THEN "none" ELSE "runs",
   registrar |-> IF kind = "nm" THEN "settle" ELSE "none",
   wake |-> FALSE, halt |-> FALSE]

Init ==
  /\ running \in SUBSET Daemons /\ activatable \in SUBSET Installed
  /\ epoch = 1 /\ agent = 0 /\ wire = <<>>
  /\ sub = "none" /\ items = <<>> /\ lagged = FALSE
  /\ life = <<>> /\ live = 0 /\ outgoing = 0
  /\ pc = "probing" /\ choice = "none" /\ renews = FALSE
  /\ published = "none" /\ shown = 0 /\ mounted = 0
  /\ left \in Scenarios /\ loose = {} /\ missed = {}

-----------------------------------------------------------------------------
(* The bus.                                                                *)

\* A change of owner reaches the subscription once its match rule is there;
\* the buffer drops its oldest item and remembers that it did.
Emit(item) ==
  /\ items' = IF sub # "up" THEN items
              ELSE IF Len(items) < Capacity THEN Append(items, item)
              ELSE Append(Tail(items), item)
  /\ lagged' = (lagged \/ (sub = "up" /\ Len(items) = Capacity))
  /\ UNCHANGED sub
Unheard(what) == missed' = IF sub \in {"none", "starting"} THEN missed \cup what
                           ELSE missed

\* What an error does to the registrar that waits for a call: that of the
\* Unregister between two registrations is only logged.
Err(at) ==
  CASE at \in {"first", "second"} -> "retry"
    [] at = "withdraw" -> "again"
    [] OTHER -> at

\* The calls on their way are lost and whoever waits for one gets an error.
\* CallBuilder's one retry is left out: on the new connection an Unregister
\* finds nothing of ours, and a Register is the registrar's own next attempt.
Cut ==
  /\ wire' = <<>>
  /\ life' = [i \in DOMAIN life |-> [life[i] EXCEPT !.registrar = Err(@)]]
  /\ pc' = IF pc = "unregister" THEN "start" ELSE pc
  /\ UNCHANGED <<choice, renews>>

DaemonStarts(d) ==
  /\ d \notin running /\ Spend("daemons")
  /\ running' = running \cup {d}
  /\ Emit(IF d = "nm" THEN "renew" ELSE "look")
  /\ Unheard({"change"} \cup IF d = "nm" THEN {"renewal"} ELSE {})
  /\ UNCHANGED <<activatable, epoch, nmVars, life, slotVars, taskVars, shown,
                 loose>>

\* NetworkManager's registrations go with it.
DaemonStops(d) ==
  /\ d \in running /\ Spend("daemons")
  /\ running' = running \ {d}
  /\ Emit("look") /\ Unheard({"change"})
  /\ IF d = "nm" THEN agent' = 0 /\ Cut
     ELSE UNCHANGED <<nmVars, life, taskVars>>
  /\ UNCHANGED <<activatable, epoch, slotVars, shown, loose>>

\* The pooled connection is replaced: a new unique name, the export mounted
\* on it again, and a subscription to be made again.
Reconnect ==
  /\ Spend("reconnects")
  /\ epoch' = epoch + 1
  /\ Cut /\ Unheard({"renewal"})
  /\ sub' = IF sub = "up" THEN "down" ELSE sub
  /\ UNCHANGED <<running, activatable, agent, items, lagged, slotVars, shown,
                 loose>>

\* Mutant: nobody is told that the subscription is a new one.
SubscribesSilently ==
  /\ sub \in {"starting", "down"}
  /\ sub' = "up"
  /\ UNCHANGED <<items, lagged, worldVars, nmVars, life, slotVars, taskVars,
                 shown, left, loose, missed>>

\* run_subscription: only a renewed subscription says that it is one.
Subscribes ==
  /\ sub \in {"starting", "down"}
  /\ sub' = "up"
  /\ IF sub = "starting" THEN UNCHANGED <<items, lagged>>
     ELSE /\ items' = Append(IF Len(items) < Capacity THEN items
                             ELSE Tail(items), "renew")
          /\ lagged' = (lagged \/ Len(items) = Capacity)
  /\ UNCHANGED <<worldVars, nmVars, life, slotVars, taskVars, shown, left,
                 loose, missed>>

-----------------------------------------------------------------------------
(* NetworkManager's AgentManager: one agent per identifier, known by the   *)
(* connection that registered it; an Unregister removes only the caller's. *)

Call(op, i) == [op |-> op, life |-> i, by |-> epoch]

NmForgets ==
  /\ agent \notin {0, epoch}
  /\ agent' = 0
  /\ UNCHANGED <<worldVars, wire, subVars, life, slotVars, taskVars, shown,
                 left, loose, missed>>

\* Mutant: whoever holds the identifier is taken for us.
ReplyTrusts(op, ok, at) == "parked"

\* ensure_nm_agent_registered: a refused registration is withdrawn, ours or
\* not, and made once more.
Reply(op, ok, at) ==
  CASE op = "register" /\ ok -> "parked"
    [] op = "withdraw" -> "again"
    [] at = "second" -> "retry"
    [] OTHER -> "withdraw"

\* A call is carried out and answered; a caller that was aborted, or that
\* gave the call up and may have sent another since, is not there to hear it.
Answer ==
  /\ wire # <<>>
  /\ LET m == Head(wire)
         ok == agent = IF m.op = "register" THEN 0 ELSE m.by
         at == life[m.life].registrar
         told == Reply(m.op, ok, at)
         heard == /\ m.op # "unregister" /\ at \in {"first", "withdraw", "second"}
                  /\ \A k \in 2..Len(wire) :
                       wire[k].life = m.life => wire[k].op = "unregister"
         more == heard /\ told = "withdraw"
     IN  /\ agent' = CASE ~ok -> agent
                       [] m.op = "register" -> m.by
                       [] OTHER -> 0
         /\ wire' = Tail(wire) \o IF more THEN <<Call("withdraw", m.life)>>
                                  ELSE <<>>
         /\ life' = IF heard THEN [life EXCEPT ![m.life].registrar = told]
                    ELSE life
         /\ pc' = IF m.op = "unregister" /\ pc = "unregister"
                     /\ m.life = outgoing THEN "start" ELSE pc
  /\ UNCHANGED <<worldVars, subVars, slotVars, choice, renews, shown, left,
                 loose, missed>>

\* CallBuilder::send waits for an answer as long as its timeout.  The call
\* stays on its way: NetworkManager may carry it out when nobody waits for it.
CallExpires(i) ==
  /\ life[i].registrar \in {"first", "withdraw", "second"}
  /\ Spend("timeouts")
  /\ life' = [life EXCEPT ![i].registrar = Err(@)]
  /\ UNCHANGED <<worldVars, nmVars, subVars, slotVars, taskVars, shown, loose,
                 missed>>

\* tear_down only logs that its Unregister failed.
UnregisterExpires ==
  /\ pc = "unregister" /\ pc' = "start"
  /\ Spend("timeouts")
  /\ UNCHANGED <<worldVars, nmVars, subVars, life, slotVars, choice, renews,
                 shown, loose, missed>>

-----------------------------------------------------------------------------
(* What a life runs: its watcher, and run_registrar.                       *)

\* The watcher publishes what its daemon told it.
Write(i) ==
  /\ life[i].watcher \in {"runs", "stopping"} /\ shown # i
  /\ shown' = i
  /\ UNCHANGED <<worldVars, nmVars, subVars, life, slotVars, taskVars, left,
                 loose, missed>>

\* An abort lands at the next await.
WatcherStops(i) ==
  /\ life[i].watcher = "stopping"
  /\ life' = [life EXCEPT ![i].watcher = "stopped"]
  /\ UNCHANGED <<worldVars, nmVars, subVars, slotVars, taskVars, shown, left,
                 loose, missed>>
RegistrarStops(i) ==
  /\ life[i].halt /\ life[i].registrar \notin {"none", "stopped"}
  /\ life' = [life EXCEPT ![i].registrar = "stopped"]
  /\ UNCHANGED <<worldVars, nmVars, subVars, slotVars, taskVars, shown, left,
                 loose, missed>>

\* A registration, or the second one of an attempt, is sent, and fails at
\* once without a NetworkManager.
Register(i) ==
  /\ life[i].registrar \in {"settle", "again"}
  /\ LET to == IF life[i].registrar = "settle" THEN "first" ELSE "second"
     IN  IF "nm" \in running
         THEN /\ wire' = Append(wire, Call("register", i))
              /\ life' = [life EXCEPT ![i].registrar = to]
         ELSE /\ life' = [life EXCEPT ![i].registrar = "retry"]
              /\ UNCHANGED wire
  /\ UNCHANGED <<worldVars, agent, subVars, slotVars, taskVars, shown, left,
                 loose, missed>>

\* The park ends with a wake, or after a failure with its delay.
Unpark(i) ==
  /\ \/ life[i].registrar \in {"parked", "retry"} /\ life[i].wake
        /\ life' = [life EXCEPT ![i].registrar = "settle", ![i].wake = FALSE]
     \/ life[i].registrar = "retry"
        /\ life' = [life EXCEPT ![i].registrar = "settle"]
  /\ UNCHANGED <<worldVars, nmVars, subVars, slotVars, taskVars, shown, left,
                 loose, missed>>

-----------------------------------------------------------------------------
(* The supervised task.                                                    *)

Queries == {"ListNames", "ListActivatableNames"}

\* The daemons that a probe hears of when the queries in deaf fail.
Heard(deaf) ==
  (IF "ListNames" \in deaf THEN {} ELSE running)
    \cup (IF "ListActivatableNames" \in deaf THEN {} ELSE activatable)

\* decide: NetworkManager wins where both are heard of.  A daemon in the one
\* answer that came is believed; that there is none takes both answers.
Verdict(deaf) ==
  IF "nm" \in Heard(deaf) THEN "nm"
  ELSE IF "iwd" \in Heard(deaf) THEN "iwd" ELSE "none"
Conclusive(deaf) == deaf = {} \/ Verdict(deaf) # "none"
Ask(deaf) == IF deaf = {} THEN UNCHANGED left ELSE Spend("deaf")

\* Half an answer can name iwd where NetworkManager is there too.
Misled(deaf) == IF Verdict(deaf) # Verdict({}) THEN {"change"} ELSE {}

\* A verdict that no daemon is there replaces none that is committed.
SwitchNeeded(verdict) ==
  live = 0 \/ verdict \notin {life[live].kind, "none"}

\* The committed backend starts.
Commit(kind) ==
  /\ life' = Append(life, Started(kind)) /\ live' = Len(life) + 1
  /\ published' = kind
  /\ mounted' = IF kind = "nm" THEN Len(life) + 1 ELSE 0

\* No more commands for it, and its watcher is cancelled.
Retire(kind) ==
  /\ outgoing' = live /\ live' = 0 /\ published' = "none"
  /\ life' = [life EXCEPT ![live].watcher = IF @ = "runs" THEN "stopping" ELSE @]
  /\ pc' = "watcher" /\ choice' = kind
  /\ UNCHANGED mounted

\* probe_until_conclusive and the first apply; a probe that could not ask is
\* asked again and changes nothing.  A restart finds the slot as it was.
Probe(deaf) ==
  /\ pc = "probing" /\ Conclusive(deaf) /\ Ask(deaf)
  /\ CASE live = 0 -> /\ Commit(Verdict(deaf)) /\ pc' = "subscribe"
                      /\ UNCHANGED <<outgoing, choice>>
       [] live # 0 /\ SwitchNeeded(Verdict(deaf)) -> Retire(Verdict(deaf))
       [] OTHER -> /\ pc' = "subscribe"
                   /\ UNCHANGED <<life, slotVars, choice>>
  /\ missed' = (IF live = 0 THEN {} ELSE missed \ {"change"}) \cup Misled(deaf)
  /\ UNCHANGED <<worldVars, nmVars, subVars, renews, shown, loose>>

\* watch_for_daemon_changes begins: its match rule is still to be added.
Watch ==
  /\ pc = "subscribe"
  /\ pc' = "watching" /\ sub' = "starting"
  /\ UNCHANGED <<worldVars, nmVars, items, lagged, life, slotVars, choice,
                 renews, shown, left, loose, missed>>

\* An item of either daemon, or the marker of what was lost.
Take ==
  /\ pc = "watching" /\ items # <<>>
  /\ pc' = "settling"
  /\ IF lagged
     THEN /\ lagged' = FALSE /\ renews' = TRUE /\ UNCHANGED items
     ELSE /\ items' = Tail(items) /\ renews' = (Head(items) = "renew")
          /\ UNCHANGED lagged
  /\ UNCHANGED <<worldVars, nmVars, sub, life, slotVars, choice, shown, left,
                 loose, missed>>

\* renew_nm_registration, after a recheck that kept the backend.
Renew ==
  /\ life' = IF renews /\ live # 0 /\ life[live].kind = "nm"
             THEN [life EXCEPT ![live].wake = TRUE] ELSE life
  /\ pc' = "watching"

Recheck(deaf) ==
  /\ pc = "settling" /\ Conclusive(deaf) /\ Ask(deaf)
  /\ IF SwitchNeeded(Verdict(deaf))
     THEN /\ Retire(Verdict(deaf))
          /\ missed' = (missed \ {"change"}) \cup Misled(deaf)
     ELSE /\ Renew
          /\ missed' = (missed \ ({"change"}
                                  \cup IF renews THEN {"renewal"} ELSE {}))
                      \cup Misled(deaf)
          /\ UNCHANGED <<slotVars, choice>>
  /\ UNCHANGED <<worldVars, nmVars, subVars, renews, shown, loose>>

\* The probe found nothing and did not hear both answers: the committed
\* backend stays until the next event.
RecheckFails(deaf) ==
  /\ pc = "settling" /\ ~Conclusive(deaf) /\ Ask(deaf)
  /\ Renew
  /\ missed' = (missed \ IF renews THEN {"renewal"} ELSE {})
               \cup IF SwitchNeeded(Verdict({})) THEN {"change"} ELSE {}
  /\ UNCHANGED <<worldVars, nmVars, subVars, slotVars, choice, renews, shown,
                 loose>>

\* Mutant: the outgoing watcher is cancelled and not waited for.
WatcherCancelled ==
  /\ pc = "watcher"
  /\ life' = [life EXCEPT ![outgoing].halt = TRUE]
  /\ pc' = IF life[outgoing].kind = "nm" THEN "registrar" ELSE "start"
  /\ UNCHANGED <<worldVars, nmVars, subVars, slotVars, choice, renews, shown,
                 left, loose, missed>>

\* Or the grace period is over, and the switch goes on without it.
GoesOn(stopped) ==
  IF stopped THEN UNCHANGED <<left, loose>>
  ELSE Spend("overruns") /\ loose' = loose \cup {outgoing}

\* tear_down waits for the watcher, then cancels the registrar.
WatcherDown ==
  /\ pc = "watcher" /\ GoesOn(life[outgoing].watcher # "stopping")
  /\ life' = [life EXCEPT ![outgoing].halt = TRUE]
  /\ pc' = IF life[outgoing].kind = "nm" THEN "registrar" ELSE "start"
  /\ UNCHANGED <<worldVars, nmVars, subVars, slotVars, choice, renews, shown,
                 missed>>

\* unregister_nm_agent: without a NetworkManager it fails at once.
Unregister ==
  IF "nm" \in running
  THEN pc' = "unregister" /\ wire' = Append(wire, Call("unregister", outgoing))
  ELSE pc' = "start" /\ UNCHANGED wire

\* Mutant: the registrar is cancelled and not waited for.
RegistrarCancelled ==
  /\ pc = "registrar"
  /\ Unregister
  /\ UNCHANGED <<worldVars, agent, subVars, life, slotVars, choice, renews,
                 shown, left, loose, missed>>

\* It waits for the registrar, then unregisters.
RegistrarDown ==
  /\ pc = "registrar" /\ GoesOn(life[outgoing].registrar = "stopped")
  /\ Unregister
  /\ UNCHANGED <<worldVars, agent, subVars, life, slotVars, choice, renews,
                 shown, missed>>

\* The export goes, what was shown is cleared, and the next backend starts.
Start ==
  /\ pc = "start"
  /\ shown' = 0 /\ outgoing' = 0
  /\ Commit(choice)
  /\ pc' = IF sub = "none" THEN "subscribe" ELSE "watching"
  /\ missed' = missed \ {"renewal"}
  /\ UNCHANGED <<worldVars, nmVars, subVars, choice, renews, left, loose>>

\* Mutant: LiveBackend has no Drop.
PanicDropsNothing ==
  /\ Spend("panics")
  /\ pc' = "probing" /\ sub' = "none" /\ items' = <<>> /\ lagged' = FALSE
  /\ outgoing' = 0
  /\ loose' = IF outgoing = 0 THEN loose ELSE loose \cup {outgoing}
  /\ mounted' = IF mounted = outgoing THEN 0 ELSE mounted
  /\ UNCHANGED <<worldVars, nmVars, life, live, published, choice, renews,
                 shown, missed>>

\* The task panics and is started again: the subscription is dropped, and
\* LiveBackend's Drop cancels what a switch had in hand, waiting for nothing.
Panic ==
  /\ Spend("panics")
  /\ pc' = "probing" /\ sub' = "none" /\ items' = <<>> /\ lagged' = FALSE
  /\ outgoing' = 0
  /\ IF outgoing = 0 THEN UNCHANGED <<life, loose, mounted>>
     ELSE /\ life' = [life EXCEPT ![outgoing].halt = TRUE]
          /\ loose' = loose \cup {outgoing}
          /\ mounted' = IF mounted = outgoing THEN 0 ELSE mounted
  /\ missed' = IF \/ renews /\ pc = "settling"
                  \/ lagged \/ sub = "down"
                  \/ \E k \in DOMAIN items : items[k] = "renew"
               THEN missed \cup {"renewal"} ELSE missed
  /\ UNCHANGED <<worldVars, nmVars, live, published, choice, renews, shown>>

-----------------------------------------------------------------------------

Outside ==
  Reconnect \/ Panic \/ \E d \in Daemons : DaemonStarts(d) \/ DaemonStops(d)
Stops == \E i \in DOMAIN life : WatcherStops(i) \/ RegistrarStops(i)
Registering == \E i \in DOMAIN life : Register(i) \/ Unpark(i)
Expires == UnregisterExpires \/ \E i \in DOMAIN life : CallExpires(i)
Asking == \E deaf \in SUBSET Queries :
            Probe(deaf) \/ Recheck(deaf) \/ RecheckFails(deaf)
Task == Asking \/ Watch \/ Take \/ WatcherDown \/ RegistrarDown \/ Start

Next ==
  \/ Outside \/ Answer \/ NmForgets \/ Expires \/ Subscribes \/ Stops
  \/ Registering \/ Task
  \/ \E i \in DOMAIN life : Write(i)

Spec == Init /\ [][Next]_vars

\* The bus makes a subscription in the end, NetworkManager answers and sees a
\* name go, an abort lands, and the runtime runs the registrar and the task.
\* Nothing is assumed of the daemons, of a query that fails or a call that is
\* given up, nor of what a watcher publishes.
FairSpec ==
  /\ Spec
  /\ WF_vars(Answer) /\ WF_vars(NmForgets) /\ WF_vars(Subscribes)
  /\ WF_vars(Stops) /\ WF_vars(Registering) /\ WF_vars(Task)

-----------------------------------------------------------------------------
(* Properties.                                                             *)

Calls == [op : {"register", "withdraw", "unregister"}, life : Nat, by : Nat]
Lives ==
  [kind : Kinds, watcher : {"none", "runs", "stopping", "stopped"},
   registrar : {"none", "settle", "first", "withdraw", "again", "second",
                "parked", "retry", "stopped"},
   wake : BOOLEAN, halt : BOOLEAN]

\* The types of the variables.
TypeOK ==
  /\ running \subseteq Daemons /\ activatable \subseteq Daemons
  /\ epoch \in Nat \ {0} /\ agent \in Nat
  /\ wire \in Seq(Calls) /\ \A k \in DOMAIN wire : wire[k].life \in DOMAIN life
  /\ sub \in {"none", "starting", "up", "down"}
  /\ items \in Seq({"renew", "look"}) /\ lagged \in BOOLEAN
  /\ life \in Seq(Lives)
  /\ live \in {0} \cup DOMAIN life /\ outgoing \in {0} \cup DOMAIN life
  /\ pc \in {"probing", "subscribe", "watching", "settling", "watcher",
             "registrar", "unregister", "start"}
  /\ choice \in Kinds /\ renews \in BOOLEAN /\ published \in Kinds
  /\ shown \in {0} \cup DOMAIN life /\ mounted \in {0} \cup DOMAIN life
  /\ loose \subseteq DOMAIN life /\ left \in [Bounds -> Nat]

\* The panel shows what the committed backend published, or the one a switch
\* is tearing down: no watcher races its successor (#633), unless its switch
\* could not wait for it.
ShownIsTheBackends == shown \in {0, live, outgoing} \cup loose

\* Every backend but the committed one has been told to stop, whatever became
\* of the switch that retired it, and commands go to none that has.
OneBackendRuns ==
  /\ \A i \in DOMAIN life \ {live} :
       /\ life[i].watcher # "runs"
       /\ \/ life[i].registrar \in {"none", "stopped"} \/ life[i].halt
          \/ i = outgoing /\ pc = "watcher"
  /\ published # "none" => live # 0 /\ life[live].kind = published

\* NetworkManager holds our connection's agent with no object behind it only
\* until it carries out an Unregister that its switch gave up waiting for, and
\* nothing of ours follows that Unregister on its way: no registration, not
\* one in flight nor one given up, outlasts the switch that withdrew it,
\* unless that switch could not wait for its registrar.
AgentIsServed ==
  agent = epoch =>
    \/ mounted # 0
    \/ wire # <<>> /\ wire[Len(wire)].op = "unregister"
    \/ \E i \in loose : life[i].kind = "nm"

Present(d) == d \in running \cup activatable
Committed(kind) == live # 0 /\ life[live].kind = kind
FollowsTheDaemons ==
  /\ Present("nm") => Committed("nm")
  /\ ~Present("nm") /\ Present("iwd") => Committed("iwd")

\* The service ends up on the daemon that is there, whatever started, stopped
\* or was reconnected while it was busy, if it was there to be told and its
\* last probe was not misled by a query that failed.
SettlesOnTheDaemon == <>[]("change" \notin missed => FollowsTheDaemons)

\* And with NetworkManager its agent ends up registered: a restart, a
\* reconnect and a refusal are each followed by a registration that holds.
AgentIsRegistered ==
  <>[](/\ Committed("nm") /\ "nm" \in running /\ "renewal" \notin missed
       /\ \A i \in loose : life[i].kind # "nm"
       => agent = epoch /\ mounted = live)
=============================================================================
