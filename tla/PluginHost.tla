----------------------------- MODULE PluginHost -----------------------------
(***************************************************************************)
(* The plugin host's connections (trollshell/src/plugins): the accept loop *)
(* and its gate of unregistered connections (listener.rs), and the life of *)
(* every connection from its handshake to its teardown (session.rs), with  *)
(* the state the connections share: the claimed ids, the cards of the  *)
(* mounts (region.rs), the runtime mirror (mod.rs) and   *)
(* the line of providers of one datasource (datasource.rs).                *)
(*                                                                         *)
(* A connection is a task of its own on a multi-threaded runtime: each     *)
(* action is what one of them does under one lock or in one step that no   *)
(* other can see half of.  How a connection paces its frames, and the      *)
(* panel a frame may carry, is RenderPacer; here a frame is parked at some *)
(* moment while it serves.                                                 *)
(***************************************************************************)
EXTENDS ProviderLine, Integers, FiniteSets

CONSTANTS
  Conns,            \* dials to the host socket
  Plugins,          \* plugin ids
  Mounts,           \* the places a card can be mounted
  Registers,        \* the manifests each dial may register: id, mount, provides
  MaxUnregistered,  \* MAX_UNREGISTERED_CONNECTIONS
  MaxFaults         \* bound: readers that panic and writers that fail

ASSUME PluginHostAssumption ==
  /\ IsFiniteSet(Conns)
  /\ Registers \in [Conns -> SUBSET
       [plugin : Plugins, mount : Mounts, provides : BOOLEAN]]
  /\ MaxUnregistered \in Nat \ {0} /\ MaxFaults \in Nat

VARIABLES
  pc,          \* where the connection's task is
  manifest,    \* what it registered
  gen,         \* its generation; 0 before it has one
  writer,      \* its writer task runs: its outbound is open
  acceptor,    \* the accept loop: waiting for a permit, or holding one
  permits,     \* permits left in the gate
  liveIds,     \* ListenerCtx::live_ids
  generation,  \* NEXT_GENERATION
  cards,       \* generation of the card of a plugin in a mount; 0 for none
  runtime,     \* the runtime mirror
  line,        \* the providers of the datasource
  faults

connVars == <<pc, manifest, gen, writer>>
gateVars == <<acceptor, permits>>
vars == <<connVars, gateVars, liveIds, generation, cards, runtime, line,
          faults>>

Manifests == UNION {Registers[c] : c \in Conns}
Unmirrored == [mount |-> "none", rendering |-> FALSE]
NoManifest == [plugin |-> "none", mount |-> "none", provides |-> FALSE]

Init ==
  /\ pc = [c \in Conns |-> "dialled"]
  /\ manifest = [c \in Conns |-> NoManifest]
  /\ gen = [c \in Conns |-> 0] /\ writer = [c \in Conns |-> FALSE]
  /\ acceptor = "waiting" /\ permits = MaxUnregistered
  /\ liveIds = {} /\ generation = 0
  /\ cards = [m \in Mounts |-> [p \in Plugins |-> 0]]
  /\ runtime = [p \in Plugins |-> Unmirrored]
  /\ line = <<>>
  /\ faults = 0

Id(c) == manifest[c].plugin

Step(c, from, to) == pc[c] = from /\ pc' = [pc EXCEPT ![c] = to]

-----------------------------------------------------------------------------
(* The accept loop.                                                        *)

\* A permit is taken before accept(2).
Acquire ==
  /\ acceptor = "waiting" /\ permits > 0
  /\ acceptor' = "holding" /\ permits' = permits - 1
  /\ UNCHANGED <<connVars, liveIds, generation, cards, runtime, line,
                 faults>>

\* The permit goes to the connection's own task.
Accept(c) ==
  /\ acceptor = "holding" /\ Step(c, "dialled", "handshaking")
  /\ acceptor' = "waiting"
  /\ UNCHANGED <<manifest, gen, writer, permits, liveIds, generation,
                 cards, runtime, line, faults>>

\* accept(2) fails: the permit goes back and the loop goes on.
AcceptFails ==
  /\ acceptor = "holding" /\ acceptor' = "waiting"
  /\ permits' = permits + 1
  /\ UNCHANGED <<connVars, liveIds, generation, cards, runtime, line,
                 faults>>

-----------------------------------------------------------------------------
(* The handshake.                                                          *)

\* Mutant: a refused connection keeps its permit.
RefuseKeepsPermit(c) ==
  /\ Step(c, "handshaking", "gone")
  /\ UNCHANGED <<manifest, gen, writer, gateVars, liveIds, generation, cards,
                 runtime, line, faults>>

\* The connection is dropped before it is registered: REGISTER_TIMEOUT, a first
\* frame that is not Register, an id, protocol, vocabulary or list that is
\* refused, or an id that another connection holds.
Refuse(c) ==
  /\ Step(c, "handshaking", "gone")
  /\ permits' = permits + 1
  /\ UNCHANGED <<manifest, gen, writer, acceptor, liveIds, generation,
                 cards, runtime, line, faults>>

\* Mutant: the newcomer takes the id over.
ClaimTakesOver(c, m) ==
  /\ Step(c, "handshaking", "claimed")
  /\ liveIds' = liveIds \cup {m.plugin}
  /\ manifest' = [manifest EXCEPT ![c] = m]
  /\ permits' = permits + 1
  /\ UNCHANGED <<gen, writer, acceptor, generation, cards, runtime, line,
                 faults>>

\* IdGuard::claim, and the permit is given back: the connection is registered.
Claim(c, m) ==
  /\ Step(c, "handshaking", "claimed")
  /\ m.plugin \notin liveIds /\ liveIds' = liveIds \cup {m.plugin}
  /\ manifest' = [manifest EXCEPT ![c] = m]
  /\ permits' = permits + 1
  /\ UNCHANGED <<gen, writer, acceptor, generation, cards, runtime, line,
                 faults>>

\* Its generation, its entry in the runtime mirror and its writer.
Register(c) ==
  /\ Step(c, "claimed", "registered")
  /\ generation' = generation + 1
  /\ gen' = [gen EXCEPT ![c] = generation']
  /\ writer' = [writer EXCEPT ![c] = TRUE]
  /\ runtime' = [runtime EXCEPT
       ![Id(c)] = [mount |-> manifest[c].mount, rendering |-> FALSE]]
  /\ UNCHANGED <<manifest, gateVars, liveIds, cards, line, faults>>

\* register_provider for the datasource it provides, then its tasks.
Provide(c) ==
  /\ Step(c, "registered", "serving")
  /\ line' = IF manifest[c].provides
               THEN Joined(line, [plugin |-> Id(c), gen |-> gen[c]])
               ELSE line
  /\ UNCHANGED <<manifest, gen, writer, gateVars, liveIds, generation,
                 cards, runtime, faults>>

-----------------------------------------------------------------------------
(* The session.                                                            *)

\* clear_region_if_owned.
Cleared(region, p, g) == [region EXCEPT ![p] = IF @ = g THEN 0 ELSE @]

\* A frame reaches the mailbox of the mount, latest-wins per plugin.
Park(c) ==
  /\ pc[c] = "serving"
  /\ runtime' = [runtime EXCEPT ![Id(c)] =
                   [mount |-> @.mount, rendering |-> TRUE]]
  /\ cards' = [cards EXCEPT ![manifest[c].mount][Id(c)] = gen[c]]
  /\ UNCHANGED <<connVars, gateVars, liveIds, generation, line, faults>>

\* A write to the peer fails: the writer ends and its queue is closed.
WriterDies(c) ==
  /\ writer[c]
  /\ faults < MaxFaults /\ faults' = faults + 1
  /\ writer' = [writer EXCEPT ![c] = FALSE]
  /\ UNCHANGED <<pc, manifest, gen, gateVars, liveIds, generation, cards,
                 runtime, line>>

\* The peer leaves, sends what cannot be decoded, or fails the liveness ping.
EndSession(c) ==
  /\ Step(c, "serving", "clearing")
  /\ UNCHANGED <<manifest, gen, writer, gateVars, liveIds, generation,
                 cards, runtime, line, faults>>

\* A panic in the reader unwinds past the teardown: the IdGuard drops, and
\* everything else the connection had put up stays.
Panic(c) ==
  /\ faults < MaxFaults /\ faults' = faults + 1
  /\ Step(c, "serving", "panicked")
  /\ liveIds' = liveIds \ {Id(c)}
  /\ UNCHANGED <<manifest, gen, writer, gateVars, generation, cards,
                 runtime, line>>

-----------------------------------------------------------------------------
(* The teardown, in its order.                                             *)

\* Mutant: one mount is missing from the list of cards to clear.
ClearMissesAMount(c) ==
  /\ Step(c, "clearing", "unregistering")
  /\ LET last == CHOOSE m \in Mounts : TRUE IN
     cards' = [m \in Mounts |-> IF m = last THEN cards[m] ELSE
       Cleared(cards[m], Id(c), gen[c])]
  /\ UNCHANGED <<manifest, gen, writer, gateVars, liveIds, generation,
                 runtime, line, faults>>

\* clear_region_if_owned on every mount.
Clear(c) ==
  /\ Step(c, "clearing", "unregistering")
  /\ cards' = [m \in Mounts |->
       Cleared(cards[m], Id(c), gen[c])]
  /\ UNCHANGED <<manifest, gen, writer, gateVars, liveIds, generation,
                 runtime, line, faults>>

\* The outbound of a connection is closed once its writer is gone.
Closed == {gen[d] : d \in {e \in Conns : ~writer[e]}}

\* Mutant: the IdGuard drops before the mirror's entry is removed.
UnregisterThenRelease(c) ==
  /\ Step(c, "unregistering", "removing")
  /\ line' = Left(line, gen[c], Closed)
  /\ liveIds' = liveIds \ {Id(c)}
  /\ UNCHANGED <<manifest, gen, writer, gateVars, generation, cards, runtime,
                 faults>>

\* unregister_provider.
Unregister(c) ==
  /\ Step(c, "unregistering", "removing")
  /\ line' = Left(line, gen[c], Closed)
  /\ UNCHANGED <<manifest, gen, writer, gateVars, liveIds, generation,
                 cards, runtime, faults>>

\* runtime_remove, by id alone.
Remove(c) ==
  /\ Step(c, "removing", "releasing")
  /\ runtime' = [runtime EXCEPT ![Id(c)] = Unmirrored]
  /\ UNCHANGED <<manifest, gen, writer, gateVars, liveIds, generation,
                 cards, line, faults>>

\* The tasks and the writer are aborted and the IdGuard drops, last of all.
Release(c) ==
  /\ Step(c, "releasing", "gone")
  /\ writer' = [writer EXCEPT ![c] = FALSE]
  /\ liveIds' = liveIds \ {Id(c)}
  /\ UNCHANGED <<manifest, gen, gateVars, generation, cards, runtime,
                 line, faults>>

-----------------------------------------------------------------------------
Teardown(c) == Clear(c) \/ Unregister(c) \/ Remove(c) \/ Release(c)

Conn(c) ==
  \/ Accept(c) \/ Refuse(c) \/ (\E m \in Registers[c] : Claim(c, m))
  \/ Register(c) \/ Provide(c)
  \/ Park(c) \/ WriterDies(c) \/ EndSession(c) \/ Panic(c)
  \/ Teardown(c)

Next == Acquire \/ AcceptFails \/ \E c \in Conns : Conn(c)

Spec == Init /\ [][Next]_vars

\* The accept loop runs, accept(2) succeeds if tried often enough, and
\* REGISTER_TIMEOUT ends a handshake that does not end itself.
FairSpec ==
  /\ Spec
  /\ WF_vars(Acquire)
  /\ SF_vars(\E c \in Conns : Accept(c))
  /\ WF_vars(\E c \in Conns : Refuse(c))

-----------------------------------------------------------------------------
(* Properties.                                                             *)

States == {"dialled", "handshaking", "claimed", "registered", "serving",
           "clearing", "unregistering", "removing", "releasing", "gone",
           "panicked"}
Mirrors == [mount : Mounts, rendering : BOOLEAN] \cup {Unmirrored}

TypeOK ==
  /\ pc \in [Conns -> States]
  /\ manifest \in [Conns -> Manifests \cup {NoManifest}]
  /\ gen \in [Conns -> Nat] /\ writer \in [Conns -> BOOLEAN]
  /\ acceptor \in {"waiting", "holding"} /\ permits \in 0..MaxUnregistered
  /\ liveIds \subseteq Plugins /\ generation \in Nat
  /\ cards \in [Mounts -> [Plugins -> Nat]]
  /\ runtime \in [Plugins -> Mirrors]
  /\ line \in Seq([plugin : Plugins, gen : Nat])
  /\ faults \in 0..MaxFaults

\* The claim is held from IdGuard::claim until the guard drops.
Holds(c) == pc[c] \in {"claimed", "registered", "serving", "clearing",
                      "unregistering", "removing", "releasing"}

\* One live connection per plugin id, and the id set is exactly what the live
\* connections claimed: a duplicate never displaces the incumbent, and no
\* ending of a connection leaves its id unclaimable.
OneConnectionPerId ==
  /\ \A c, d \in Conns : Holds(c) /\ Holds(d) /\ Id(c) = Id(d) => c = d
  /\ liveIds = {Id(c) : c \in {d \in Conns : Holds(d)}}

Shows(c) == pc[c] \in {"serving", "clearing", "panicked"}

\* No card outlives its connection: what a mailbox holds was parked by
\* a connection of that plugin, in the mount it registered, that has not been
\* cleared yet (or whose reader panicked).
CardsAreOwned ==
  \A m \in Mounts, p \in Plugins : cards[m][p] # 0 =>
    \E c \in Conns : /\ gen[c] = cards[m][p] /\ Shows(c)
                     /\ Id(c) = p /\ manifest[c].mount = m

Mirrored(c) == pc[c] \in {"registered", "serving", "clearing",
                         "unregistering", "removing"}

\* The runtime mirror is removed by id alone, and still has exactly the
\* connected plugins, each as its live connection registered and rendered.
MirrorTellsTheTruth ==
  /\ \A c \in Conns : Mirrored(c) =>
       /\ runtime[Id(c)].mount = manifest[c].mount
       /\ cards[manifest[c].mount][Id(c)] = gen[c] => runtime[Id(c)].rendering
  /\ \A p \in Plugins : runtime[p] # Unmirrored =>
       \E c \in Conns : Id(c) = p /\ (Mirrored(c) \/ pc[c] = "panicked")

InLine(l, p) == \E i \in DOMAIN l : l[i].plugin = p
Place(l, p) == CHOOSE i \in DOMAIN l : l[i].plugin = p

\* Every provider in the line is one that registered and has not left, every
\* plugin has one place, and a live provider whose queue is open has one.
LineIsTheProviders ==
  /\ \A i, j \in DOMAIN line : line[i].plugin = line[j].plugin => i = j
  /\ \A i \in DOMAIN line : \E c \in Conns :
       /\ gen[c] = line[i].gen /\ Id(c) = line[i].plugin
       /\ manifest[c].provides
       /\ pc[c] \in {"serving", "clearing", "unregistering", "panicked"}
  /\ \A c \in Conns : pc[c] = "serving" /\ writer[c] /\ manifest[c].provides
       => \E i \in DOMAIN line : line[i].gen = gen[c]

\* A datasource is not taken over: who joins goes behind everyone, and those
\* who stay keep their order.
NoOvertaking ==
  [][\A p, q \in Plugins :
       /\ InLine(line, p) /\ InLine(line', p) /\ InLine(line', q) /\ p # q
       /\ InLine(line, q) => Place(line, p) < Place(line, q)
       => Place(line', p) < Place(line', q)]_vars

Dialled(c) == pc[c] = "dialled"
\* Every dial is answered, however many peers say nothing and however often
\* accept(2) fails in between.
DialsAreAnswered == (\E c \in Conns : Dialled(c)) ~> (\A c \in Conns : ~Dialled(c))
=============================================================================
