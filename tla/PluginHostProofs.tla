-------------------------- MODULE PluginHostProofs --------------------------
(***************************************************************************)
(* Theorems about PluginHost, for any set of dials and plugins: one        *)
(* connection owns an id, and with it the cards and the mirror's entry;    *)
(* the providers' line has the live providers, and nobody is overtaken in  *)
(* it; and no permit of the accept loop's gate is ever lost.                *)
(***************************************************************************)
EXTENDS PluginHost, FiniteSetTheorems, SequenceTheorems, TLAPS

\* The part of the state the theorems are about.
Types ==
  /\ pc \in [Conns -> States]
  /\ manifest \in [Conns -> Manifests \cup {NoManifest}]
  /\ gen \in [Conns -> Nat] /\ generation \in Nat
  /\ cards \in [Mounts -> [Plugins -> Nat]]
  /\ runtime \in [Plugins -> [mount : Mounts \cup {"none"}, rendering : BOOLEAN]]

\* A connection past its claim has a manifest, and a generation of its own
\* unless it has only just claimed.
Named(c) == Holds(c) \/ pc[c] = "panicked"
Numbered(c) == Named(c) /\ pc[c] # "claimed"

Identity ==
  /\ \A c \in Conns : Named(c) => manifest[c] \in Manifests
  /\ \A c \in Conns : Numbered(c) => gen[c] # 0
  /\ \A c \in Conns : gen[c] <= generation
  /\ \A c, d \in Conns : gen[c] = gen[d] /\ gen[c] # 0 => c = d

\* The inductive invariant: cards and mirror are told apart by generations and
\* ids, so they need that both belong to one connection.
IInv ==
  /\ Types /\ Identity
  /\ OneConnectionPerId /\ CardsAreOwned /\ MirrorTellsTheTruth

-----------------------------------------------------------------------------
\* A manifest names a plugin and a mount.
LEMMA ManifestFields ==
  ASSUME NEW m \in Manifests
  PROVE  m.plugin \in Plugins /\ m.mount \in Mounts
  BY PluginHostAssumption DEF Manifests

\* The states of a connection, told apart.
LEMMA Phases ==
  ASSUME NEW c \in Conns
  PROVE  /\ Mirrored(c) => Holds(c) /\ Numbered(c)
         /\ Shows(c) => Numbered(c)
         /\ Holds(c) => Named(c)
  BY DEF Mirrored, Holds, Shows, Numbered, Named

LEMMA InitInv == Init => IInv
  BY DEF Init, IInv, Types, Identity, OneConnectionPerId, CardsAreOwned,
     MirrorTellsTheTruth, States, Unmirrored, NoManifest, Holds, Named,
     Numbered, Shows, Mirrored, Id

\* A step that moves one connection between two states of the same standing
\* and leaves the shared state alone.
LEMMA QuietStep ==
  ASSUME IInv, NEW c \in Conns, NEW from \in States, NEW to \in States,
         Step(c, from, to),
         UNCHANGED <<manifest, gen, liveIds, generation, cards, runtime>>,
         <<from, to>> \in {<<"dialled", "handshaking">>,
           <<"handshaking", "gone">>, <<"registered", "serving">>,
           <<"serving", "clearing">>, <<"unregistering", "removing">>}
  PROVE  IInv'
<1>1. Types'
  BY DEF IInv, Types, Step, States
<1>2. /\ \A d \in Conns : Holds(d)' <=> Holds(d)
      /\ \A d \in Conns : Named(d)' <=> Named(d)
      /\ \A d \in Conns : Numbered(d)' <=> Numbered(d)
      /\ \A d \in Conns : Shows(d) => Shows(d)'
      /\ \A d \in Conns : Mirrored(d)' <=> Mirrored(d)
  BY DEF IInv, Types, Step, Holds, Named, Numbered, Shows, Mirrored
<1>3. Identity'
  BY <1>2 DEF IInv, Identity
<1>4. OneConnectionPerId'
  BY <1>2 DEF IInv, OneConnectionPerId, Id
<1>5. CardsAreOwned'
  BY <1>2 DEF IInv, CardsAreOwned, Id
<1>6. MirrorTellsTheTruth'
  BY <1>2 DEF IInv, MirrorTellsTheTruth, Id, Types, Step
<1> QED
  BY <1>1, <1>3, <1>4, <1>5, <1>6 DEF IInv

\* A step that leaves everything the theorems are about alone.
LEMMA Stutter ==
  ASSUME IInv,
         UNCHANGED <<pc, manifest, gen, liveIds, generation, cards, runtime>>
  PROVE  IInv'
  BY DEF IInv, Types, Identity, OneConnectionPerId, CardsAreOwned,
     MirrorTellsTheTruth, Holds, Named, Numbered, Shows, Mirrored, Id

-----------------------------------------------------------------------------
(* The claim and what ends it.                                             *)

\* The id is free, so no connection that holds one has it.
LEMMA ClaimStep ==
  ASSUME IInv, NEW c \in Conns, NEW m \in Registers[c], Claim(c, m)
  PROVE  IInv'
<1>1. m \in Manifests
  BY DEF Manifests
<1>2. Types'
  BY <1>1, ManifestFields DEF IInv, Types, Claim, Step, States
<1>3. /\ manifest'[c] = m /\ pc'[c] = "claimed" /\ pc[c] = "handshaking"
      /\ \A d \in Conns : d # c => manifest'[d] = manifest[d] /\ pc'[d] = pc[d]
      /\ UNCHANGED <<gen, generation, cards, runtime>>
  BY DEF IInv, Types, Claim, Step
<1>4. Identity'
  BY <1>1, <1>3 DEF IInv, Identity, Named, Numbered, Holds
<1>5. OneConnectionPerId'
  <2>1. \A d \in Conns : Holds(d) => Id(d) # m.plugin
    BY DEF IInv, OneConnectionPerId, Claim
  <2>2. Holds(c)' /\ ~Holds(c) /\ Id(c)' = m.plugin
    BY <1>3 DEF Holds, Id
  <2>3. \A d \in Conns : d # c => (Holds(d)' <=> Holds(d)) /\ Id(d)' = Id(d)
    BY <1>3 DEF Holds, Id
  <2>4. \A d, e \in Conns : Holds(d)' /\ Holds(e)' /\ Id(d)' = Id(e)' => d = e
    BY <2>1, <2>2, <2>3 DEF IInv, OneConnectionPerId
  <2>5. liveIds' = {Id(d)' : d \in {e \in Conns : Holds(e)'}}
    BY <2>2, <2>3 DEF IInv, OneConnectionPerId, Claim
  <2> QED
    BY <2>4, <2>5 DEF OneConnectionPerId
<1>6. CardsAreOwned'
  BY <1>3 DEF IInv, CardsAreOwned, Shows, Id
<1>7. MirrorTellsTheTruth'
  BY <1>3 DEF IInv, MirrorTellsTheTruth, Mirrored, Id
<1> QED
  BY <1>2, <1>4, <1>5, <1>6, <1>7 DEF IInv

\* What becomes of the ids when one connection gives its own up.
LEMMA IdReleased ==
  ASSUME IInv, NEW c \in Conns, Holds(c), ~Holds(c)',
         manifest' = manifest, liveIds' = liveIds \ {Id(c)},
         \A d \in Conns : d # c => pc'[d] = pc[d]
  PROVE  OneConnectionPerId'
<1>1. \A d \in Conns : d # c => (Holds(d)' <=> Holds(d))
  BY DEF Holds
<1>2. \A d \in Conns : Id(d)' = Id(d)
  BY DEF Id
<1>3. \A d, e \in Conns : Holds(d)' /\ Holds(e)' /\ Id(d)' = Id(e)' => d = e
  BY <1>1, <1>2 DEF IInv, OneConnectionPerId
<1>4. liveIds' = {Id(d)' : d \in {e \in Conns : Holds(e)'}}
  BY <1>1, <1>2 DEF IInv, OneConnectionPerId
<1> QED
  BY <1>3, <1>4 DEF OneConnectionPerId

LEMMA PanicStep ==
  ASSUME IInv, NEW c \in Conns, Panic(c)
  PROVE  IInv'
<1>1. /\ pc[c] = "serving" /\ pc'[c] = "panicked"
      /\ \A d \in Conns : d # c => pc'[d] = pc[d]
      /\ UNCHANGED <<manifest, gen, generation, cards, runtime>>
      /\ liveIds' = liveIds \ {Id(c)}
  BY DEF IInv, Types, Panic, Step
<1>2. Types'
  BY <1>1 DEF IInv, Types, Panic, Step, States
<1>3. Identity'
  BY <1>1 DEF IInv, Identity, Named, Numbered, Holds
<1>4. OneConnectionPerId'
  BY <1>1, IdReleased DEF Holds
<1>5. CardsAreOwned'
  BY <1>1 DEF IInv, CardsAreOwned, Shows, Id
<1>6. MirrorTellsTheTruth'
  BY <1>1 DEF IInv, MirrorTellsTheTruth, Mirrored, Id
<1> QED
  BY <1>2, <1>3, <1>4, <1>5, <1>6 DEF IInv

LEMMA ReleaseStep ==
  ASSUME IInv, NEW c \in Conns, Release(c)
  PROVE  IInv'
<1>1. /\ pc[c] = "releasing" /\ pc'[c] = "gone"
      /\ \A d \in Conns : d # c => pc'[d] = pc[d]
      /\ UNCHANGED <<manifest, gen, generation, cards, runtime>>
      /\ liveIds' = liveIds \ {Id(c)}
  BY DEF IInv, Types, Release, Step
<1>2. Types'
  BY <1>1 DEF IInv, Types, Release, Step, States
<1>3. Identity'
  BY <1>1 DEF IInv, Identity, Named, Numbered, Holds
<1>4. OneConnectionPerId'
  BY <1>1, IdReleased DEF Holds
<1>5. CardsAreOwned'
  BY <1>1 DEF IInv, CardsAreOwned, Shows, Id
<1>6. MirrorTellsTheTruth'
  BY <1>1 DEF IInv, MirrorTellsTheTruth, Mirrored, Id
<1> QED
  BY <1>2, <1>3, <1>4, <1>5, <1>6 DEF IInv
-----------------------------------------------------------------------------
(* The session.                                                            *)

\* The generation is new: no card carries it, and no connection has it.
LEMMA RegisterStep ==
  ASSUME IInv, NEW c \in Conns, Register(c)
  PROVE  IInv'
<1>1. /\ pc[c] = "claimed" /\ pc'[c] = "registered"
      /\ gen'[c] = generation + 1 /\ generation' = generation + 1
      /\ \A d \in Conns : d # c => pc'[d] = pc[d] /\ gen'[d] = gen[d]
      /\ UNCHANGED <<manifest, liveIds, cards>>
  BY DEF IInv, Types, Register, Step
<1>2. manifest[c] \in Manifests /\ Id(c) \in Plugins
      /\ manifest[c].mount \in Mounts
  BY <1>1, ManifestFields DEF IInv, Identity, Named, Holds, Id
<1>3. runtime' = [runtime EXCEPT
        ![Id(c)] = [mount |-> manifest[c].mount, rendering |-> FALSE]]
  BY DEF Register
<1>4. Types'
  <2>1. runtime' \in [Plugins -> [mount : Mounts \cup {"none"}, rendering : BOOLEAN]]
    BY <1>2, <1>3 DEF IInv, Types
  <2>2. pc' \in [Conns -> States] /\ gen' \in [Conns -> Nat] /\ generation' \in Nat
    BY DEF IInv, Types, Register, Step, States
  <2> QED
    BY <1>1, <2>1, <2>2 DEF IInv, Types
<1>5. \A d \in Conns : gen[d] \in Nat /\ gen[d] <= generation /\ generation \in Nat
  BY DEF IInv, Types, Identity
<1>6. Identity'
  <2>1. \A d \in Conns : Named(d)' <=> Named(d)
    BY <1>1 DEF Named, Holds
  <2>2. \A d \in Conns : d # c => (Numbered(d)' <=> Numbered(d))
    BY <1>1 DEF Numbered, Named, Holds
  <2>3. \A d \in Conns : Numbered(d)' => gen'[d] # 0
    BY <1>1, <1>5, <2>2 DEF IInv, Identity
  <2>4. \A d \in Conns : gen'[d] <= generation'
    BY <1>1, <1>5
  <2>5. \A d, e \in Conns : gen'[d] = gen'[e] /\ gen'[d] # 0 => d = e
    BY <1>1, <1>5 DEF IInv, Identity
  <2> QED
    BY <1>1, <2>1, <2>3, <2>4, <2>5 DEF IInv, Identity
<1>7. OneConnectionPerId'
  <2>1. \A d \in Conns : (Holds(d)' <=> Holds(d)) /\ Id(d)' = Id(d)
    BY <1>1 DEF Holds, Id
  <2> QED
    BY <1>1, <2>1 DEF IInv, OneConnectionPerId
<1>8. CardsAreOwned'
  <2>1. \A d \in Conns : Shows(d) => d # c
    BY <1>1 DEF Shows
  <2>2. \A d \in Conns : Shows(d) => Shows(d)' /\ gen'[d] = gen[d]
    BY <1>1, <2>1 DEF Shows
  <2> QED
    BY <1>1, <2>2 DEF IInv, CardsAreOwned, Id
<1>9. MirrorTellsTheTruth'
  <2>1. \A d \in Conns : Mirrored(d) => d # c /\ Id(d) # Id(c)
    <3>1. \A d \in Conns : Mirrored(d) => Holds(d) /\ d # c
      BY <1>1, Phases DEF Mirrored
    <3>2. Holds(c)
      BY <1>1 DEF Holds
    <3> QED
      BY <3>1, <3>2 DEF IInv, OneConnectionPerId
  <2>2. \A d \in Conns : d # c => (Mirrored(d)' <=> Mirrored(d)) /\ Id(d)' = Id(d)
    BY <1>1 DEF Mirrored, Id
  <2>3. Mirrored(c)' /\ Id(c)' = Id(c)
    BY <1>1 DEF Mirrored, Id
  <2>4. /\ runtime'[Id(c)] = [mount |-> manifest[c].mount, rendering |-> FALSE]
        /\ \A p \in Plugins : p # Id(c) => runtime'[p] = runtime[p]
    BY <1>2, <1>3 DEF IInv, Types
  <2>5. cards[manifest[c].mount][Id(c)] # gen'[c]
    <3>1. \A m \in Mounts, p \in Plugins : cards[m][p] \in Nat /\ cards[m][p] <= generation
      BY <1>5 DEF IInv, CardsAreOwned, Types
    <3> QED
      BY <1>1, <1>2, <1>5, <3>1
  <2>6. \A d \in Conns : Mirrored(d) => Id(d) \in Plugins
    BY Phases, ManifestFields DEF IInv, Identity, Id
  <2>7. \A d \in Conns : Mirrored(d)' =>
          /\ runtime'[Id(d)'].mount = manifest'[d].mount
          /\ cards'[manifest'[d].mount][Id(d)'] = gen'[d] => runtime'[Id(d)'].rendering
    BY <1>1, <2>1, <2>2, <2>3, <2>4, <2>5, <2>6 DEF IInv, MirrorTellsTheTruth
  <2>8. \A p \in Plugins : runtime'[p] # Unmirrored =>
          \E d \in Conns : Id(d)' = p /\ (Mirrored(d)' \/ pc'[d] = "panicked")
    <3>1. SUFFICES ASSUME NEW p \in Plugins, p # Id(c), runtime[p] # Unmirrored
                   PROVE  \E d \in Conns :
                            Id(d)' = p /\ (Mirrored(d)' \/ pc'[d] = "panicked")
      BY <2>3, <2>4
    <3>2. PICK d \in Conns : Id(d) = p /\ (Mirrored(d) \/ pc[d] = "panicked")
      BY <3>1 DEF IInv, MirrorTellsTheTruth
    <3> QED
      BY <1>1, <2>2, <3>1, <3>2
  <2> QED
    BY <2>7, <2>8 DEF MirrorTellsTheTruth
<1> QED
  BY <1>4, <1>6, <1>7, <1>8, <1>9 DEF IInv
\* The card is written with the generation of the connection that serves.
LEMMA ParkStep ==
  ASSUME IInv, NEW c \in Conns, Park(c)
  PROVE  IInv'
<1>1. /\ pc[c] = "serving"
      /\ UNCHANGED <<pc, manifest, gen, liveIds, generation>>
  BY DEF Park, gateVars, connVars
<1>2. manifest[c] \in Manifests /\ Id(c) \in Plugins
      /\ manifest[c].mount \in Mounts /\ gen[c] # 0 /\ gen[c] \in Nat
  BY <1>1, ManifestFields
  DEF IInv, Types, Identity, Named, Numbered, Holds, Id
<1>3. /\ cards' = [cards EXCEPT ![manifest[c].mount][Id(c)] = gen[c]]
      /\ runtime' = [runtime EXCEPT ![Id(c)] =
           [mount |-> runtime[Id(c)].mount, rendering |-> TRUE]]
  BY DEF Park, gateVars, connVars
<1>4. Types'
  <2>1. cards' \in [Mounts -> [Plugins -> Nat]]
    BY <1>2, <1>3 DEF IInv, Types
  <2>2. runtime' \in [Plugins -> [mount : Mounts \cup {"none"}, rendering : BOOLEAN]]
    BY <1>2, <1>3 DEF IInv, Types
  <2> QED
    BY <1>1, <2>1, <2>2 DEF IInv, Types
<1>5. Identity' /\ OneConnectionPerId'
  BY <1>1 DEF IInv, Identity, OneConnectionPerId, Named, Numbered, Holds, Id
<1>6. \A d \in Conns : /\ Mirrored(d)' <=> Mirrored(d)
                       /\ Shows(d)' <=> Shows(d)
                       /\ Id(d)' = Id(d)
  BY <1>1 DEF Mirrored, Shows, Id
<1>7. \A m \in Mounts, p \in Plugins : cards'[m][p] =
        IF m = manifest[c].mount /\ p = Id(c) THEN gen[c] ELSE cards[m][p]
  BY <1>2, <1>3 DEF IInv, Types
<1>8. CardsAreOwned'
  <2>1. SUFFICES ASSUME NEW m \in Mounts, NEW p \in Plugins, cards'[m][p] # 0
                 PROVE  \E d \in Conns : /\ gen[d] = cards'[m][p] /\ Shows(d)
                                         /\ Id(d) = p /\ manifest[d].mount = m
    BY <1>1, <1>6 DEF CardsAreOwned
  <2>2. CASE m = manifest[c].mount /\ p = Id(c)
    BY <1>1, <1>7, <2>2 DEF Shows
  <2>3. CASE ~(m = manifest[c].mount /\ p = Id(c))
    BY <1>7, <2>1, <2>3 DEF IInv, CardsAreOwned
  <2> QED
    BY <2>2, <2>3
<1>9. MirrorTellsTheTruth'
  <2>1. \A p \in Plugins : /\ runtime'[p].mount = runtime[p].mount
                           /\ runtime[p].rendering => runtime'[p].rendering
                           /\ p # Id(c) => runtime'[p] = runtime[p]
    BY <1>2, <1>3 DEF IInv, Types
  <2>2. runtime'[Id(c)].rendering
    BY <1>2, <1>3 DEF IInv, Types
  <2>3. \A d \in Conns : Mirrored(d) => Id(d) \in Plugins /\ manifest[d].mount \in Mounts
    BY Phases, ManifestFields DEF IInv, Identity, Id
  <2>4. \A d \in Conns : Mirrored(d)' =>
          /\ runtime'[Id(d)'].mount = manifest'[d].mount
          /\ cards'[manifest'[d].mount][Id(d)'] = gen'[d] => runtime'[Id(d)'].rendering
    BY <1>1, <1>6, <1>7, <2>1, <2>2, <2>3 DEF IInv, MirrorTellsTheTruth
  <2>5. \A p \in Plugins : runtime'[p] # Unmirrored =>
          \E d \in Conns : Id(d)' = p /\ (Mirrored(d)' \/ pc'[d] = "panicked")
    <3>1. Mirrored(c)
      BY <1>1 DEF Mirrored
    <3>2. SUFFICES ASSUME NEW p \in Plugins, p # Id(c), runtime[p] # Unmirrored
                   PROVE  \E d \in Conns :
                            Id(d)' = p /\ (Mirrored(d)' \/ pc'[d] = "panicked")
      BY <1>6, <2>1, <3>1
    <3>3. PICK d \in Conns : Id(d) = p /\ (Mirrored(d) \/ pc[d] = "panicked")
      BY <3>2 DEF IInv, MirrorTellsTheTruth
    <3> QED
      BY <1>1, <1>6, <3>3
  <2> QED
    BY <2>4, <2>5 DEF MirrorTellsTheTruth
<1> QED
  BY <1>4, <1>5, <1>8, <1>9 DEF IInv

-----------------------------------------------------------------------------
(* The teardown.                                                           *)

\* Every card of this generation goes; the others are of other connections.
LEMMA ClearStep ==
  ASSUME IInv, NEW c \in Conns, Clear(c)
  PROVE  IInv'
<1>1. /\ pc[c] = "clearing" /\ pc'[c] = "unregistering"
      /\ \A d \in Conns : d # c => pc'[d] = pc[d]
      /\ UNCHANGED <<manifest, gen, liveIds, generation, runtime>>
  BY DEF IInv, Types, Clear, Step
<1>2. Id(c) \in Plugins /\ gen[c] # 0
  BY <1>1, ManifestFields DEF IInv, Identity, Named, Numbered, Holds, Id
<1>3. \A m \in Mounts, p \in Plugins : cards'[m][p] =
        IF p = Id(c) /\ cards[m][p] = gen[c] THEN 0 ELSE cards[m][p]
  BY <1>2 DEF IInv, Types, Clear, Cleared
<1>4. Types'
  <2>1. cards' \in [Mounts -> [Plugins -> Nat]]
    BY <1>2 DEF IInv, Types, Clear, Cleared
  <2>2. pc' \in [Conns -> States]
    BY DEF IInv, Types, Clear, Step, States
  <2> QED
    BY <1>1, <2>1, <2>2 DEF IInv, Types
<1>5. Identity' /\ OneConnectionPerId'
  <2>1. \A d \in Conns : /\ Holds(d)' <=> Holds(d)
                         /\ Named(d)' <=> Named(d)
                         /\ Numbered(d)' <=> Numbered(d)
    BY <1>1 DEF Holds, Named, Numbered
  <2> QED
    BY <1>1, <2>1 DEF IInv, Identity, OneConnectionPerId, Id
<1>6. CardsAreOwned'
  <2>1. SUFFICES ASSUME NEW m \in Mounts, NEW p \in Plugins, cards'[m][p] # 0
                 PROVE  \E d \in Conns : /\ gen[d] = cards'[m][p] /\ Shows(d)'
                                         /\ Id(d) = p /\ manifest[d].mount = m
    BY <1>1 DEF CardsAreOwned, Id
  <2>2. cards'[m][p] = cards[m][p] /\ ~(p = Id(c) /\ cards[m][p] = gen[c])
    BY <1>3, <2>1
  <2>3. PICK d \in Conns : /\ gen[d] = cards[m][p] /\ Shows(d)
                           /\ Id(d) = p /\ manifest[d].mount = m
    BY <2>1, <2>2 DEF IInv, CardsAreOwned
  <2>4. d # c
    BY <2>2, <2>3
  <2> QED
    BY <1>1, <2>2, <2>3, <2>4 DEF Shows
<1>7. MirrorTellsTheTruth'
  <2>1. \A d \in Conns : (Mirrored(d)' <=> Mirrored(d)) /\ Id(d)' = Id(d)
    BY <1>1 DEF Mirrored, Id
  <2>2. \A d \in Conns : Mirrored(d) =>
          Id(d) \in Plugins /\ manifest[d].mount \in Mounts /\ gen[d] # 0
    BY Phases, ManifestFields DEF IInv, Identity, Id
  <2> QED
    BY <1>1, <1>3, <2>1, <2>2 DEF IInv, MirrorTellsTheTruth
<1> QED
  BY <1>4, <1>5, <1>6, <1>7 DEF IInv

\* By id alone, and yet the entry of this connection: no other has the id.
LEMMA RemoveStep ==
  ASSUME IInv, NEW c \in Conns, Remove(c)
  PROVE  IInv'
<1>1. /\ pc[c] = "removing" /\ pc'[c] = "releasing"
      /\ \A d \in Conns : d # c => pc'[d] = pc[d]
      /\ UNCHANGED <<manifest, gen, liveIds, generation, cards>>
      /\ runtime' = [runtime EXCEPT ![Id(c)] = Unmirrored]
  BY DEF IInv, Types, Remove, Step
<1>2. Id(c) \in Plugins
  BY <1>1, ManifestFields DEF IInv, Identity, Named, Holds, Id
<1>3. Types'
  BY <1>1, <1>2 DEF IInv, Types, Remove, Step, States, Unmirrored
<1>4. Identity' /\ OneConnectionPerId'
  <2>1. \A d \in Conns : /\ Holds(d)' <=> Holds(d)
                         /\ Named(d)' <=> Named(d)
                         /\ Numbered(d)' <=> Numbered(d)
    BY <1>1 DEF Holds, Named, Numbered
  <2> QED
    BY <1>1, <2>1 DEF IInv, Identity, OneConnectionPerId, Id
<1>5. CardsAreOwned'
  BY <1>1 DEF IInv, CardsAreOwned, Shows, Id
<1>6. MirrorTellsTheTruth'
  <2>1. Holds(c)
    BY <1>1 DEF Holds
  <2>2. \A d \in Conns : Mirrored(d)' => Mirrored(d) /\ Id(d) # Id(c)
    BY <1>1, <2>1, Phases DEF IInv, OneConnectionPerId, Mirrored
  <2>3. \A d \in Conns : d # c => (Mirrored(d)' <=> Mirrored(d))
    BY <1>1 DEF Mirrored
  <2>4. \A d \in Conns : Id(d)' = Id(d)
    BY <1>1 DEF Id
  <2>5. \A p \in Plugins :
          runtime'[p] = IF p = Id(c) THEN Unmirrored ELSE runtime[p]
    BY <1>1, <1>2 DEF IInv, Types
  <2>6. \A d \in Conns : Mirrored(d) => Id(d) \in Plugins
    BY Phases, ManifestFields DEF IInv, Identity, Id
  <2>7. \A d \in Conns : Mirrored(d)' =>
          /\ runtime'[Id(d)'].mount = manifest'[d].mount
          /\ cards'[manifest'[d].mount][Id(d)'] = gen'[d] => runtime'[Id(d)'].rendering
    BY <1>1, <2>2, <2>4, <2>5, <2>6 DEF IInv, MirrorTellsTheTruth
  <2>8. \A p \in Plugins : runtime'[p] # Unmirrored =>
          \E d \in Conns : Id(d)' = p /\ (Mirrored(d)' \/ pc'[d] = "panicked")
    <3>1. SUFFICES ASSUME NEW p \in Plugins, p # Id(c), runtime[p] # Unmirrored
                   PROVE  \E d \in Conns :
                            Id(d)' = p /\ (Mirrored(d)' \/ pc'[d] = "panicked")
      BY <2>5
    <3>2. PICK d \in Conns : Id(d) = p /\ (Mirrored(d) \/ pc[d] = "panicked")
      BY <3>1 DEF IInv, MirrorTellsTheTruth
    <3> QED
      BY <1>1, <2>3, <2>4, <3>1, <3>2
  <2> QED
    BY <2>7, <2>8 DEF MirrorTellsTheTruth
<1> QED
  BY <1>3, <1>4, <1>5, <1>6 DEF IInv

-----------------------------------------------------------------------------
LEMMA ConnStep ==
  ASSUME IInv, NEW c \in Conns, Conn(c)
  PROVE  IInv'
<1>1. CASE Accept(c)
  BY <1>1, QuietStep DEF Accept, States
<1>2. CASE Refuse(c)
  BY <1>2, QuietStep DEF Refuse, States
<1>3. CASE \E m \in Registers[c] : Claim(c, m)
  BY <1>3, ClaimStep
<1>4. CASE Provide(c)
  BY <1>4, QuietStep DEF Provide, States
<1>5. CASE WriterDies(c)
  BY <1>5, Stutter DEF WriterDies
<1>6. CASE EndSession(c)
  BY <1>6, QuietStep DEF EndSession, States
<1>7. CASE Unregister(c)
  BY <1>7, QuietStep DEF Unregister, States
<1> QED
  BY <1>1, <1>2, <1>3, <1>4, <1>5, <1>6, <1>7, RegisterStep, ParkStep,
     PanicStep, ClearStep, RemoveStep, ReleaseStep DEF Conn, Teardown

\* The invariant holds in every reachable state.
THEOREM Inductive == Spec => []IInv
<1>1. IInv /\ [Next]_vars => IInv'
  <2>1. CASE Acquire
    BY <2>1, Stutter DEF Acquire, connVars
  <2>2. CASE AcceptFails
    BY <2>2, Stutter DEF AcceptFails, connVars
  <2>3. CASE UNCHANGED vars
    BY <2>3, Stutter DEF vars, connVars
  <2> QED
    BY <2>1, <2>2, <2>3, ConnStep DEF Next
<1> QED
  BY InitInv, <1>1, PTL DEF Spec

\* One live connection per plugin id, for any number of dials: the outcome of a
\* duplicate is that the incumbent keeps everything.
THEOREM OneConnection == Spec => []OneConnectionPerId
<1>1. IInv => OneConnectionPerId
  BY DEF IInv
<1> QED
  BY Inductive, <1>1, PTL

\* No card outlives a connection that ends otherwise than by a panic.
THEOREM CardsHaveOwners == Spec => []CardsAreOwned
<1>1. IInv => CardsAreOwned
  BY DEF IInv
<1> QED
  BY Inductive, <1>1, PTL

\* runtime_remove by id is safe where the teardown calls it: the mirror has
\* every connected plugin, and nothing else.
THEOREM MirrorIsTrue == Spec => []MirrorTellsTheTruth
<1>1. IInv => MirrorTellsTheTruth
  BY DEF IInv
<1> QED
  BY Inductive, <1>1, PTL

-----------------------------------------------------------------------------
(* Lemmas about the providers' line.                                       *)

\* Ranks enumerate a set of positions in its order.
LEMMA RankFacts ==
  ASSUME NEW n \in Nat, NEW keep \in SUBSET (1..n)
  PROVE  /\ Cardinality(keep) \in Nat
         /\ \A i \in keep : Rank(keep, i) \in 1..Cardinality(keep)
         /\ \A i, j \in keep : i < j => Rank(keep, i) < Rank(keep, j)
         /\ \A k \in 1..Cardinality(keep) : \E i \in keep : Rank(keep, i) = k
<1> DEFINE upTo(i) == {j \in keep : j <= i}
           size == Cardinality(keep)
<1>0. \A i \in keep : i \in Int
  OBVIOUS
<1>1. IsFiniteSet(keep) /\ size \in Nat
  <2>1. IsFiniteSet(1..n)
    BY FS_Interval
  <2>2. IsFiniteSet(keep)
    BY <2>1, FS_Subset
  <2> QED
    BY <2>2, FS_CardinalityType
<1>2. ASSUME NEW i \in keep
      PROVE  /\ IsFiniteSet(upTo(i)) /\ Rank(keep, i) = Cardinality(upTo(i))
             /\ Rank(keep, i) \in 1..size
  <2>1. upTo(i) \subseteq keep /\ i \in upTo(i)
    OBVIOUS
  <2> HIDE DEF upTo
  <2>2. /\ IsFiniteSet(upTo(i)) /\ Cardinality(upTo(i)) \in Nat
        /\ Cardinality(upTo(i)) <= size
    BY <1>1, <2>1, FS_Subset, FS_CardinalityType
  <2>3. Cardinality(upTo(i)) # 0
    BY <2>1, <2>2, FS_EmptySet
  <2>4. Rank(keep, i) = Cardinality(upTo(i))
    BY DEF Rank, upTo
  <2> QED
    BY <1>1, <2>2, <2>3, <2>4
<1>3. ASSUME NEW i \in keep, NEW j \in keep, i < j
      PROVE  Rank(keep, i) < Rank(keep, j)
  <2>1. upTo(i) \subseteq upTo(j) /\ upTo(i) # upTo(j)
    <3>1. j \in upTo(j) /\ j \notin upTo(i)
      BY <1>0, <1>3
    <3>2. \A h \in keep : h <= i => h <= j
      BY <1>0, <1>3
    <3>3. upTo(i) \subseteq upTo(j)
      BY <3>2
    <3> HIDE DEF upTo
    <3> QED
      BY <3>1, <3>3
  <2> HIDE DEF upTo
  <2>2. /\ Cardinality(upTo(i)) <= Cardinality(upTo(j))
        /\ Cardinality(upTo(i)) # Cardinality(upTo(j))
    BY <1>2, <2>1, FS_Subset
  <2> QED
    BY <1>1, <1>2, <2>2
<1>4. ASSUME NEW k \in 1..size PROVE \E i \in keep : Rank(keep, i) = k
  <2> DEFINE rank == [i \in keep |-> Rank(keep, i)]
  <2>1. rank \in Injection(keep, 1..size)
    <3>1. ASSUME NEW i \in keep, NEW j \in keep, Rank(keep, i) = Rank(keep, j)
          PROVE  i = j
      <4>0. Rank(keep, i) \in 1..size
        BY <1>2
      <4>1. Rank(keep, i) \in Int /\ i \in Int /\ j \in Int
        BY <1>0, <4>0
      <4>2. ~(i < j) /\ ~(j < i)
        BY <1>3, <3>1, <4>1
      <4> QED
        BY <4>1, <4>2
    <3>2. rank \in [keep -> 1..size]
      BY <1>2
    <3>3. \A i, j \in keep : rank[i] = rank[j] => i = j
      BY <3>1
    <3> HIDE DEF rank, size
    <3> QED
      BY <3>2, <3>3 DEF Injection, IsInjective
  <2>2. IsFiniteSet(1..size) /\ Cardinality(1..size) = size
    BY <1>1, FS_Interval
  <2> HIDE DEF rank
  <2>3. rank \in Surjection(keep, 1..size)
    BY <2>1, <2>2, FS_Injection
  <2> USE DEF rank
  <2> QED
    BY <2>3 DEF Surjection
<1> QED
  BY <1>1, <1>2, <1>3, <1>4

\* new is the entries of old at the positions of keep, in their order.
Thinned(old, new, keep) ==
  \E at \in [1..Len(new) -> keep] :
    /\ \A k \in 1..Len(new) : new[k] = old[at[k]]
    /\ \A j, k \in 1..Len(new) : j < k => at[j] < at[k]
    /\ \A i \in keep : \E k \in 1..Len(new) : at[k] = i

\* What Vec::retain leaves.
LEMMA RetainedThins ==
  ASSUME NEW S, NEW l \in Seq(S), NEW gens
  PROVE  /\ Retained(l, gens) \in Seq(S)
         /\ Thinned(l, Retained(l, gens),
                    {i \in 1..Len(l) : l[i].gen \notin gens})
<1> DEFINE stay == {i \in DOMAIN l : l[i].gen \notin gens}
           size == Cardinality(stay)
           at == [k \in 1..size |-> CHOOSE i \in stay : Rank(stay, i) = k]
<1>1. Len(l) \in Nat /\ DOMAIN l = 1..Len(l) /\ \A i \in 1..Len(l) : l[i] \in S
  BY LenProperties, ElementOfSeq
<1>2. stay \in SUBSET (1..Len(l))
  BY <1>1
<1> HIDE DEF stay
<1>3. /\ size \in Nat
      /\ \A i \in stay : Rank(stay, i) \in 1..size
      /\ \A i, j \in stay : i < j => Rank(stay, i) < Rank(stay, j)
      /\ \A k \in 1..size : \E i \in stay : Rank(stay, i) = k
  BY <1>1, <1>2, RankFacts
<1> HIDE DEF size
<1>4. \A k \in 1..size : at[k] \in stay /\ Rank(stay, at[k]) = k
  BY <1>3
<1>5. Retained(l, gens) = [k \in 1..size |-> l[at[k]]]
  BY DEF Retained, stay, size
<1>6. at \in [1..size -> stay]
  BY <1>4
<1> HIDE DEF at
<1>7. /\ Retained(l, gens) \in Seq(S) /\ Len(Retained(l, gens)) = size
      /\ \A k \in 1..size : Retained(l, gens)[k] = l[at[k]]
  <2>1. \A k \in 1..size : l[at[k]] \in S
    BY <1>1, <1>2, <1>4
  <2> QED
    BY <1>3, <1>5, <2>1, IsASeq, LenProperties
<1>8. \A j, k \in 1..size : j < k => at[j] < at[k]
  <2> SUFFICES ASSUME NEW j \in 1..size, NEW k \in 1..size, j < k
               PROVE  at[j] < at[k]
    OBVIOUS
  <2>0. \A i \in stay : i \in Int
    BY <1>2
  <2>1. /\ at[j] \in stay /\ at[k] \in stay /\ at[j] \in Int /\ at[k] \in Int
        /\ Rank(stay, at[j]) = j /\ Rank(stay, at[k]) = k
    BY <1>4, <2>0
  <2>2. at[k] < at[j] => k < j
    BY <1>3, <2>1
  <2>3. at[k] # at[j]
    BY <2>1
  <2> QED
    BY <1>3, <2>1, <2>2, <2>3
<1>9. ASSUME NEW i \in stay PROVE \E k \in 1..size : at[k] = i
  <2>1. Rank(stay, i) \in 1..size
    BY <1>3
  <2>2. at[Rank(stay, i)] \in stay /\ Rank(stay, at[Rank(stay, i)]) = Rank(stay, i)
    BY <1>4, <2>1
  <2>3. \A a, b \in stay : Rank(stay, a) = Rank(stay, b) => a = b
    <3> SUFFICES ASSUME NEW a \in stay, NEW b \in stay,
                        Rank(stay, a) = Rank(stay, b)
                 PROVE  a = b
      OBVIOUS
    <3>1. a \in Int /\ b \in Int /\ Rank(stay, a) \in Int
      BY <1>2, <1>3
    <3>2. ~(a < b) /\ ~(b < a)
      BY <1>3, <3>1
    <3> QED
      BY <3>1, <3>2
  <2> QED
    BY <2>1, <2>2, <2>3
<1>10. stay = {i \in 1..Len(l) : l[i].gen \notin gens}
  BY <1>1 DEF stay
<1>11. Thinned(l, Retained(l, gens), stay)
  BY <1>6, <1>7, <1>8, <1>9 DEF Thinned
<1> QED
  BY <1>7, <1>10, <1>11

Entries == [plugin : Plugins, gen : Nat]

\* What unregister_provider keeps.
Kept(l, g, closed) ==
  IF l # <<>> /\ l[1].gen = g
    THEN {i \in 2..Len(l) : l[i].gen \notin closed}
    ELSE {i \in 1..Len(l) : l[i].gen # g}

LEMMA LeftThins ==
  ASSUME NEW l \in Seq(Entries), NEW g, NEW closed
  PROVE  /\ Left(l, g, closed) \in Seq(Entries)
         /\ Thinned(l, Left(l, g, closed), Kept(l, g, closed))
<1>1. CASE l # <<>> /\ l[1].gen = g
  <2> DEFINE t == Tail(l)
             w == Retained(t, closed)
             stay == {i \in 1..Len(t) : t[i].gen \notin closed}
  <2>1. /\ t \in Seq(Entries) /\ Len(t) = Len(l) - 1 /\ Len(l) \in Nat \ {0}
        /\ \A i \in 1..Len(t) : t[i] = l[i + 1]
    BY <1>1, HeadTailProperties, LenProperties, EmptySeq
  <2> HIDE DEF t
  <2>2. w \in Seq(Entries) /\ Thinned(t, w, stay)
    BY <2>1, RetainedThins
  <2>3. /\ Left(l, g, closed) = w
        /\ Kept(l, g, closed) = {i \in 2..Len(l) : l[i].gen \notin closed}
    BY <1>1 DEF Left, Kept, t
  <2>4. /\ \A i \in stay : i \in Int /\ i + 1 \in Kept(l, g, closed) /\ t[i] = l[i + 1]
        /\ \A i \in Kept(l, g, closed) : i - 1 \in stay /\ (i - 1) + 1 = i
    BY <2>1, <2>3
  <2> HIDE DEF w, stay
  <2>5. PICK at \in [1..Len(w) -> stay] :
          /\ \A k \in 1..Len(w) : w[k] = t[at[k]]
          /\ \A j, k \in 1..Len(w) : j < k => at[j] < at[k]
          /\ \A i \in stay : \E k \in 1..Len(w) : at[k] = i
    BY <2>2 DEF Thinned
  <2> DEFINE next == [k \in 1..Len(w) |-> at[k] + 1]
  <2>6. next \in [1..Len(w) -> Kept(l, g, closed)]
    BY <2>4, <2>5
  <2>7. \A k \in 1..Len(w) : w[k] = l[next[k]]
    BY <2>4, <2>5
  <2>8. \A j, k \in 1..Len(w) : j < k => next[j] < next[k]
    <3>1. \A k \in 1..Len(w) : at[k] \in Int
      BY <2>4, <2>5
    <3> QED
      BY <2>5, <3>1
  <2>9. \A i \in Kept(l, g, closed) : \E k \in 1..Len(w) : next[k] = i
    BY <2>4, <2>5
  <2> HIDE DEF next
  <2>10. Thinned(l, w, Kept(l, g, closed))
    BY <2>6, <2>7, <2>8, <2>9 DEF Thinned
  <2> QED
    BY <2>2, <2>3, <2>10
<1>2. CASE ~(l # <<>> /\ l[1].gen = g)
  <2>1. Left(l, g, closed) = Retained(l, {g})
    BY <1>2 DEF Left
  <2>2. Kept(l, g, closed) = {i \in 1..Len(l) : l[i].gen \notin {g}}
    BY <1>2 DEF Kept
  <2> QED
    BY <2>1, <2>2, RetainedThins
<1> QED
  BY <1>1, <1>2

OnePlace(l) == \A i, j \in 1..Len(l) : l[i].plugin = l[j].plugin => i = j

\* What register_provider does: the plugin's entry is replaced where it is, or
\* comes last.
JoinedBy(l, e, new) ==
  /\ new \in Seq(Entries) /\ OnePlace(new)
  /\ Len(new) \in {Len(l), Len(l) + 1}
  /\ \A i \in 1..Len(l) : new[i].plugin = l[i].plugin
  /\ \A i \in 1..Len(l) : l[i].plugin # e.plugin => new[i] = l[i]
  /\ \A i \in 1..Len(new) : new[i].plugin = e.plugin => new[i] = e
  /\ \E i \in 1..Len(new) : new[i] = e
  /\ Len(new) = Len(l) + 1 => new[Len(l) + 1] = e

LEMMA JoinedFacts ==
  ASSUME NEW l \in Seq(Entries), OnePlace(l), NEW e \in Entries,
         NEW new, new = Joined(l, e)
  PROVE  JoinedBy(l, e, new)
<1>0. /\ Len(l) \in Nat /\ DOMAIN l = 1..Len(l)
      /\ \A i \in 1..Len(l) : l[i] \in Entries
  BY LenProperties, ElementOfSeq
<1>1. CASE \E i \in 1..Len(l) : l[i].plugin = e.plugin
  <2> DEFINE put == [i \in 1..Len(l) |-> IF l[i].plugin = e.plugin THEN e ELSE l[i]]
  <2>1. new = put
    BY <1>0, <1>1 DEF Joined
  <2>2. /\ \A i \in 1..Len(l) : put[i] = IF l[i].plugin = e.plugin THEN e ELSE l[i]
        /\ \A i \in 1..Len(l) : put[i] \in Entries
    BY <1>0
  <2>3. put \in Seq(Entries) /\ Len(put) = Len(l)
    BY <1>0, <2>2, IsASeq, LenProperties
  <2> HIDE DEF put
  <2>4. \A i \in 1..Len(l) : new[i].plugin = l[i].plugin
    BY <2>1, <2>2
  <2>5. \A i \in 1..Len(l) : l[i].plugin # e.plugin => new[i] = l[i]
    BY <2>1, <2>2
  <2>6. \A i \in 1..Len(l) : new[i].plugin = e.plugin => new[i] = e
    BY <2>1, <2>2, <2>4
  <2>7. OnePlace(new)
    BY <2>1, <2>3, <2>4 DEF OnePlace
  <2>8. \E i \in 1..Len(l) : new[i] = e
    BY <1>1, <2>1, <2>2
  <2>9. Len(new) = Len(l) /\ new \in Seq(Entries)
    BY <2>1, <2>3
  <2>10. /\ \A i \in 1..Len(new) : new[i].plugin = e.plugin => new[i] = e
         /\ \E i \in 1..Len(new) : new[i] = e
    BY <2>6, <2>8, <2>9
  <2>11. Len(new) # Len(l) + 1
    <3>1. \A n \in Nat : n # n + 1
      OBVIOUS
    <3> QED
      BY <1>0, <2>9, <3>1, Zenon
  <2> QED
    BY <2>4, <2>5, <2>7, <2>9, <2>10, <2>11 DEF JoinedBy
<1>2. CASE ~\E i \in 1..Len(l) : l[i].plugin = e.plugin
  <2>1. new = Append(l, e)
    BY <1>0, <1>2 DEF Joined
  <2>2. /\ new \in Seq(Entries) /\ Len(new) = Len(l) + 1
        /\ \A i \in 1..Len(l) : new[i] = l[i]
        /\ new[Len(l) + 1] = e
    BY <2>1, AppendProperties
  <2>3. \A i \in 1..(Len(l) + 1) : i \in 1..Len(l) \/ i = Len(l) + 1
    BY <1>0
  <2>4. \A i \in 1..Len(new) : new[i].plugin = e.plugin => new[i] = e
    BY <1>2, <2>2, <2>3
  <2>5. OnePlace(new)
    <3> SUFFICES ASSUME NEW i \in 1..(Len(l) + 1), NEW j \in 1..(Len(l) + 1),
                        new[i].plugin = new[j].plugin
                 PROVE  i = j
      BY <2>2 DEF OnePlace
    <3> QED
      BY <1>2, <2>2, <2>3 DEF OnePlace
  <2>6. Len(l) + 1 \in 1..Len(new)
    BY <1>0, <2>2
  <2>7. \E i \in 1..Len(new) : new[i] = e
    BY <2>2, <2>6
  <2> QED
    BY <2>2, <2>4, <2>5, <2>7 DEF JoinedBy
<1> QED
  BY <1>1, <1>2

-----------------------------------------------------------------------------
(* The providers' line.                                                    *)

Placed == {"serving", "clearing", "unregistering", "panicked"}
Provides(c) == pc[c] \in Placed

\* A place is of a connection that registered and has not left.
PlaceIsOf(i, c) ==
  /\ gen[c] = line[i].gen /\ Id(c) = line[i].plugin
  /\ manifest[c].provides /\ Provides(c)

\* The connection needs its place.
Serves(c) == pc[c] = "serving" /\ writer[c] /\ manifest[c].provides

HasPlace(c) == \E i \in 1..Len(line) : line[i].gen = gen[c]

LineInv ==
  /\ line \in Seq(Entries) /\ OnePlace(line)
  /\ \A i \in 1..Len(line) : \E c \in Conns : PlaceIsOf(i, c)
  /\ \A c \in Conns : Serves(c) => HasPlace(c)

\* A step that leaves the line alone, and nobody in it leaves or comes.
LEMMA LineRests ==
  ASSUME LineInv, line' = line,
         \A c \in Conns : Provides(c) =>
           /\ Provides(c)' /\ gen'[c] = gen[c] /\ manifest'[c] = manifest[c],
         \A c \in Conns : Serves(c)' => Serves(c) /\ gen'[c] = gen[c]
  PROVE  LineInv'
<1>1. \A i \in 1..Len(line) : \E c \in Conns : PlaceIsOf(i, c)'
  BY DEF LineInv, PlaceIsOf, Id
<1>2. \A c \in Conns : Serves(c)' => HasPlace(c)'
  BY DEF LineInv, HasPlace
<1> QED
  BY <1>1, <1>2 DEF LineInv

\* Two connections with one generation are one, once it is not 0.
LEMMA EntryOwner ==
  ASSUME IInv, NEW c \in Conns, NEW d \in Conns, NEW i,
         PlaceIsOf(i, c), gen[d] = line[i].gen
  PROVE  c = d
<1>1. gen[c] # 0
  BY DEF PlaceIsOf, Provides, Placed, IInv, Identity, Numbered, Named, Holds
<1> QED
  BY <1>1 DEF PlaceIsOf, IInv, Identity

\* register_provider, by a connection that is now serving.
LEMMA ProvideLine ==
  ASSUME IInv, LineInv, NEW c \in Conns, Provide(c)
  PROVE  LineInv'
<1>1. /\ pc[c] = "registered" /\ pc'[c] = "serving"
      /\ \A d \in Conns : d # c => pc'[d] = pc[d]
      /\ UNCHANGED <<manifest, gen, writer>>
  BY DEF IInv, Types, Provide, Step
<1>4. CASE ~manifest[c].provides
  <2>1. line' = line
    BY <1>4 DEF Provide
  <2>2. \A d \in Conns : Provides(d) => Provides(d)'
    BY <1>1 DEF Provides, Placed
  <2>3. \A d \in Conns : Serves(d)' => Serves(d)
    BY <1>1, <1>4 DEF Serves
  <2> QED
    BY <1>1, <2>1, <2>2, <2>3, LineRests
<1>5. CASE manifest[c].provides
  <2> DEFINE e == [plugin |-> Id(c), gen |-> gen[c]]
  <2>1. line' = Joined(line, e)
    BY <1>5 DEF Provide
  <2>2. e \in Entries /\ Holds(c)
    BY <1>1, ManifestFields
    DEF Entries, IInv, Types, Identity, Named, Holds, Id
  <2>3. Provides(c)' /\ \A d \in Conns : Provides(d) => Provides(d)'
    BY <1>1 DEF Provides, Placed
  <2>4. e.plugin = Id(c)' /\ e.gen = gen'[c] /\ manifest'[c].provides
    BY <1>1, <1>5 DEF Id
  <2> HIDE DEF e
  <2>5. /\ line' \in Seq(Entries) /\ OnePlace(line')
        /\ Len(line') \in {Len(line), Len(line) + 1}
        /\ \A i \in 1..Len(line) : line'[i].plugin = line[i].plugin
        /\ \A i \in 1..Len(line) : line[i].plugin # e.plugin => line'[i] = line[i]
        /\ \A i \in 1..Len(line') : line'[i].plugin = e.plugin => line'[i] = e
        /\ \E i \in 1..Len(line') : line'[i] = e
        /\ Len(line') = Len(line) + 1 => line'[Len(line) + 1] = e
        /\ Len(line) \in Nat
    <3>1. line \in Seq(Entries) /\ OnePlace(line)
      BY DEF LineInv
    <3>2. Len(line) \in Nat
      BY <3>1, LenProperties
    <3>3. \A new : new = Joined(line, e) => JoinedBy(line, e, new)
      BY <2>2, <3>1, JoinedFacts
    <3>4. JoinedBy(line, e, line')
      BY <2>1, <3>3
    <3> QED
      BY <3>2, <3>4 DEF JoinedBy
  <2>6. ASSUME NEW i \in 1..Len(line')
        PROVE  \E d \in Conns : PlaceIsOf(i, d)'
    <3>1. CASE line'[i] = e
      BY <2>3, <2>4, <3>1 DEF PlaceIsOf
    <3>2. CASE line'[i] # e
      <4>1. i \in 1..Len(line) /\ line'[i] = line[i]
        BY <2>5, <3>2
      <4>2. PICK d \in Conns : PlaceIsOf(i, d)
        BY <4>1 DEF LineInv
      <4> QED
        BY <1>1, <2>3, <4>1, <4>2 DEF PlaceIsOf, Id
    <3> QED
      BY <3>1, <3>2
  <2>7. ASSUME NEW d \in Conns, Serves(d)'
        PROVE  \E i \in 1..Len(line') : line'[i].gen = gen'[d]
    <3>1. CASE d = c
      BY <1>1, <2>4, <2>5, <3>1
    <3>2. CASE d # c
      <4>1. Serves(d) /\ Holds(d) /\ Id(d) # Id(c)
        BY <1>1, <2>2, <2>7, <3>2
        DEF Serves, Holds, IInv, OneConnectionPerId
      <4>2. PICK i \in 1..Len(line) : line[i].gen = gen[d]
        BY <4>1 DEF LineInv, HasPlace
      <4>3. PICK b \in Conns : PlaceIsOf(i, b)
        BY <4>2 DEF LineInv
      <4>4. b = d
        BY <4>2, <4>3, EntryOwner
      <4>5. line[i].plugin # e.plugin
        BY <1>1, <2>4, <4>1, <4>3, <4>4 DEF PlaceIsOf, Id
      <4>6. i \in 1..Len(line') /\ line'[i] = line[i]
        BY <2>5, <4>5
      <4> QED
        BY <1>1, <4>2, <4>6
    <3> QED
      BY <3>1, <3>2
  <2> QED
    BY <2>5, <2>6, <2>7 DEF LineInv, HasPlace, OnePlace
<1> QED
  BY <1>4, <1>5

\* unregister_provider, by a connection that is being torn down.
LEMMA UnregisterLine ==
  ASSUME IInv, LineInv, NEW c \in Conns, Unregister(c)
  PROVE  LineInv'
<1>1. /\ pc[c] = "unregistering" /\ pc'[c] = "removing"
      /\ \A d \in Conns : d # c => pc'[d] = pc[d]
      /\ UNCHANGED <<manifest, gen, writer>>
      /\ line' = Left(line, gen[c], Closed)
  BY DEF IInv, Types, Unregister, Step
<1> DEFINE keep == Kept(line, gen[c], Closed)
<1>2. line' \in Seq(Entries) /\ Thinned(line, line', keep) /\ line \in Seq(Entries)
  BY <1>1, LeftThins DEF LineInv
<1>3. /\ keep \subseteq 1..Len(line) /\ Len(line) \in Nat
      /\ line # <<>> /\ line[1].gen = gen[c] => \A i \in keep : i # 1
      /\ ~(line # <<>> /\ line[1].gen = gen[c]) =>
           \A i \in keep : line[i].gen # gen[c]
      /\ \A i \in 1..Len(line) :
           line[i].gen # gen[c] /\ line[i].gen \notin Closed => i \in keep
      /\ line # <<>> => 1 \in 1..Len(line)
  <2>1. line # <<>> => Len(line) > 0 /\ Len(line) \in Nat
    BY <1>2, LenProperties, EmptySeq
  <2>2. Len(line) \in Nat
    BY <1>2, LenProperties
  <2> QED
    BY <2>1, <2>2 DEF Kept
<1> HIDE DEF keep
<1>4. PICK at \in [1..Len(line') -> keep] :
        /\ \A k \in 1..Len(line') : line'[k] = line[at[k]]
        /\ \A j, k \in 1..Len(line') : j < k => at[j] < at[k]
        /\ \A i \in keep : \E k \in 1..Len(line') : at[k] = i
  BY <1>2 DEF Thinned
<1>5. Len(line') \in Nat
  BY <1>2, LenProperties
<1>6. OnePlace(line')
  <2> SUFFICES ASSUME NEW j \in 1..Len(line'), NEW k \in 1..Len(line'),
                      line'[j].plugin = line'[k].plugin
               PROVE  j = k
    BY DEF OnePlace
  <2>0. /\ at[j] \in 1..Len(line) /\ at[k] \in 1..Len(line)
        /\ line[at[j]].plugin = line[at[k]].plugin
    BY <1>3, <1>4
  <2>1. at[j] = at[k] /\ at[j] \in Int
    BY <1>3, <2>0 DEF LineInv, OnePlace
  <2>2. ~(j < k) /\ ~(k < j)
    BY <1>4, <2>1
  <2> QED
    BY <1>5, <2>2
<1>7. ASSUME NEW k \in 1..Len(line')
      PROVE  \E d \in Conns : PlaceIsOf(k, d)'
  <2>1. at[k] \in keep /\ at[k] \in 1..Len(line) /\ line'[k] = line[at[k]]
    BY <1>3, <1>4
  <2>2. PICK d \in Conns : PlaceIsOf(at[k], d)
    BY <2>1 DEF LineInv
  <2>3. d # c
    <3> SUFFICES ASSUME d = c PROVE FALSE
      OBVIOUS
    <3>1. line[at[k]].gen = gen[c] /\ line[at[k]].plugin = Id(c)
      BY <2>2 DEF PlaceIsOf
    <3>2. line # <<>> /\ line[1].gen = gen[c] /\ at[k] # 1
      BY <1>3, <2>1, <3>1
    <3>3. PICK b \in Conns : PlaceIsOf(1, b)
      BY <1>3, <3>2 DEF LineInv
    <3>4. b = c
      BY <3>2, <3>3, EntryOwner
    <3>5. line[1].plugin = line[at[k]].plugin
      BY <3>1, <3>3, <3>4 DEF PlaceIsOf
    <3> QED
      BY <1>3, <2>1, <3>2, <3>5 DEF LineInv, OnePlace
  <2>4. Provides(d)'
    BY <1>1, <2>2, <2>3 DEF PlaceIsOf, Provides, Placed
  <2> QED
    BY <1>1, <2>1, <2>2, <2>4 DEF PlaceIsOf, Id
<1>8. ASSUME NEW d \in Conns, Serves(d)'
      PROVE  \E k \in 1..Len(line') : line'[k].gen = gen'[d]
  <2>1. d # c /\ Serves(d)
    BY <1>1, <1>8 DEF Serves
  <2>2. PICK i \in 1..Len(line) : line[i].gen = gen[d]
    BY <2>1 DEF LineInv, HasPlace
  <2>3. gen[d] # 0
    BY <2>1 DEF Serves, IInv, Identity, Numbered, Named, Holds
  <2>4. gen[d] # gen[c] /\ gen[d] \notin Closed
    BY <2>1, <2>3 DEF Closed, Serves, IInv, Identity
  <2>5. i \in keep
    BY <1>3, <2>2, <2>4
  <2>6. PICK k \in 1..Len(line') : at[k] = i
    BY <1>4, <2>5
  <2> QED
    BY <1>1, <1>4, <2>2, <2>6
<1> QED
  BY <1>2, <1>6, <1>7, <1>8 DEF LineInv, HasPlace, OnePlace

\* A connection moves on, and the line rests.
LEMMA MoveLine ==
  ASSUME IInv, LineInv, line' = line,
         NEW c \in Conns, NEW from, NEW to, Step(c, from, to),
         to # "serving", from \in Placed => to \in Placed,
         \A d \in Conns : (d # c \/ from \in Placed) =>
           manifest'[d] = manifest[d] /\ gen'[d] = gen[d],
         \A d \in Conns : d # c /\ writer'[d] => writer[d]
  PROVE  LineInv'
<1>1. /\ pc[c] = from /\ pc'[c] = to
      /\ \A d \in Conns : d # c => pc'[d] = pc[d]
  BY DEF IInv, Types, Step
<1>2. \A d \in Conns : Provides(d) =>
        Provides(d)' /\ gen'[d] = gen[d] /\ manifest'[d] = manifest[d]
  BY <1>1 DEF Provides
<1>3. \A d \in Conns : Serves(d)' => Serves(d) /\ gen'[d] = gen[d]
  BY <1>1 DEF Serves
<1> QED
  BY <1>2, <1>3, LineRests

\* A step in which no connection moves.
LEMMA StillLine ==
  ASSUME LineInv, UNCHANGED <<pc, manifest, gen, line>>,
         \A d \in Conns : writer'[d] => writer[d]
  PROVE  LineInv'
<1>1. \A d \in Conns : Serves(d)' => Serves(d)
  BY DEF Serves
<1>2. \A d \in Conns : Provides(d) => Provides(d)'
  BY DEF Provides
<1> QED
  BY <1>1, <1>2, LineRests

LEMMA ConnLine ==
  ASSUME IInv, LineInv, NEW c \in Conns, Conn(c), writer \in [Conns -> BOOLEAN]
  PROVE  LineInv'
<1>1. CASE Accept(c)
  BY <1>1, MoveLine DEF Accept, Placed
<1>2. CASE Refuse(c)
  BY <1>2, MoveLine DEF Refuse, Placed
<1>3. CASE \E m \in Registers[c] : Claim(c, m)
  BY <1>3, MoveLine DEF Claim, Placed, IInv, Types
<1>4. CASE Register(c)
  BY <1>4, MoveLine DEF Register, Placed, IInv, Types
<1>5. CASE Park(c)
  BY <1>5, StillLine DEF Park, connVars
<1>6. CASE WriterDies(c)
  BY <1>6, StillLine DEF WriterDies
<1>7. CASE EndSession(c)
  BY <1>7, MoveLine DEF EndSession, Placed
<1>8. CASE Panic(c)
  BY <1>8, MoveLine DEF Panic, Placed
<1>9. CASE Clear(c)
  BY <1>9, MoveLine DEF Clear, Placed
<1>10. CASE Remove(c)
  BY <1>10, MoveLine DEF Remove, Placed
<1>11. CASE Release(c)
  BY <1>11, MoveLine DEF Release, Placed
<1> QED
  BY <1>1, <1>2, <1>3, <1>4, <1>5, <1>6, <1>7, <1>8, <1>9, <1>10, <1>11,
     ProvideLine, UnregisterLine DEF Conn, Teardown

Writers == writer \in [Conns -> BOOLEAN]

LEMMA WritersTyped == Spec => []Writers
<1>1. Init => Writers
  BY DEF Init, Writers
<1>2. Writers /\ [Next]_vars => Writers'
  BY DEF Writers, Next, vars, connVars, gateVars, Conn, Teardown, Acquire,
     AcceptFails, Accept, Refuse, Claim, Register, Provide, Park, WriterDies,
     EndSession, Panic, Clear, Unregister, Remove, Release
<1> QED
  BY <1>1, <1>2, PTL DEF Spec

\* The providers' line through every step.
LEMMA LineInductive == Spec => []LineInv
<1>1. Init => LineInv
  BY EmptySeq DEF Init, LineInv, OnePlace, Serves
<1>2. IInv /\ Writers /\ LineInv /\ [Next]_vars => LineInv'
  <2> SUFFICES ASSUME IInv, Writers, LineInv, [Next]_vars PROVE LineInv'
    OBVIOUS
  <2>1. CASE Acquire
    BY <2>1, StillLine DEF Acquire, connVars
  <2>2. CASE AcceptFails
    BY <2>2, StillLine DEF AcceptFails, connVars
  <2>3. CASE UNCHANGED vars
    BY <2>3, StillLine DEF vars, connVars
  <2> QED
    BY <2>1, <2>2, <2>3, ConnLine DEF Next, Writers
<1> QED
  BY <1>1, <1>2, Inductive, WritersTyped, PTL DEF Spec

\* Every provider in the line registered and has not left, every plugin has one
\* place, and a live provider whose queue is open keeps its own: no standby that
\* is promoted, and no writer that died, pushes one out.
THEOREM LineHolds == Spec => []LineIsTheProviders
<1>1. LineInv => LineIsTheProviders
  <2> SUFFICES ASSUME LineInv PROVE LineIsTheProviders
    OBVIOUS
  <2>1. line \in Seq(Entries) /\ DOMAIN line = 1..Len(line)
    BY LenProperties DEF LineInv
  <2> QED
    BY <2>1 DEF LineInv, LineIsTheProviders, OnePlace, PlaceIsOf, Provides,
       Placed, Serves, HasPlace
<1> QED
  BY LineInductive, <1>1, PTL

-----------------------------------------------------------------------------
(* Nobody is overtaken.                                                    *)

\* Who stays keeps the order, who comes is behind.
InOrder(old, new) ==
  \A p, q \in Plugins :
    /\ InLine(old, p) /\ InLine(new, p) /\ InLine(new, q) /\ p # q
    /\ InLine(old, q) => Place(old, p) < Place(old, q)
    => Place(new, p) < Place(new, q)

LEMMA PlaceFacts ==
  ASSUME NEW l \in Seq(Entries), OnePlace(l)
  PROVE  /\ \A i \in 1..Len(l) : /\ InLine(l, l[i].plugin)
                               /\ Place(l, l[i].plugin) = i
         /\ \A p : InLine(l, p) => \E i \in 1..Len(l) : l[i].plugin = p
         /\ Len(l) \in Nat
<1>1. DOMAIN l = 1..Len(l) /\ Len(l) \in Nat
  BY LenProperties
<1> QED
  BY <1>1 DEF InLine, Place, OnePlace

LEMMA ThinnedInOrder ==
  ASSUME NEW old \in Seq(Entries), OnePlace(old),
         NEW new \in Seq(Entries), OnePlace(new),
         NEW keep \in SUBSET (1..Len(old)), Thinned(old, new, keep)
  PROVE  InOrder(old, new)
<1>1. PICK at \in [1..Len(new) -> keep] :
        /\ \A k \in 1..Len(new) : new[k] = old[at[k]]
        /\ \A j, k \in 1..Len(new) : j < k => at[j] < at[k]
  BY DEF Thinned
<1> SUFFICES ASSUME NEW p, NEW q, InLine(new, p), InLine(new, q), p # q,
                    InLine(old, q) => Place(old, p) < Place(old, q)
             PROVE  Place(new, p) < Place(new, q)
  BY DEF InOrder
<1>2. PICK j \in 1..Len(new) : new[j].plugin = p
  BY PlaceFacts
<1>3. PICK k \in 1..Len(new) : new[k].plugin = q
  BY PlaceFacts
<1>4. /\ at[j] \in 1..Len(old) /\ old[at[j]].plugin = p
      /\ at[k] \in 1..Len(old) /\ old[at[k]].plugin = q
  BY <1>1, <1>2, <1>3
<1>5. Place(old, p) = at[j] /\ Place(old, q) = at[k] /\ InLine(old, q)
  BY <1>4, PlaceFacts
<1>6. Place(new, p) = j /\ Place(new, q) = k
  BY <1>2, <1>3, PlaceFacts
<1>7. at[j] < at[k] /\ at[j] \in Int /\ at[k] \in Int /\ j \in Int /\ k \in Int
  BY <1>4, <1>5, PlaceFacts
<1>8. ~(k < j) /\ k # j
  BY <1>1, <1>2, <1>3, <1>7
<1> QED
  BY <1>6, <1>7, <1>8

LEMMA JoinedInOrder ==
  ASSUME NEW old \in Seq(Entries), OnePlace(old), NEW e \in Entries,
         NEW new, new = Joined(old, e)
  PROVE  InOrder(old, new)
<1>1. /\ new \in Seq(Entries) /\ OnePlace(new)
      /\ Len(new) \in {Len(old), Len(old) + 1}
      /\ \A i \in 1..Len(old) : new[i].plugin = old[i].plugin
  <2>1. JoinedBy(old, e, new)
    BY JoinedFacts
  <2> QED
    BY <2>1 DEF JoinedBy
<1> SUFFICES ASSUME NEW p, NEW q, InLine(old, p), InLine(new, q), p # q,
                    InLine(old, q) => Place(old, p) < Place(old, q)
             PROVE  Place(new, p) < Place(new, q)
  BY DEF InOrder
<1>2. PICK i \in 1..Len(old) : old[i].plugin = p
  BY PlaceFacts
<1>3. PICK k \in 1..Len(new) : new[k].plugin = q
  BY <1>1, PlaceFacts
<1>4. Len(old) \in Nat
  BY PlaceFacts
<1>5. i \in 1..Len(new) /\ new[i].plugin = p
  BY <1>1, <1>2, <1>4
<1>6. Place(old, p) = i /\ Place(new, p) = i /\ Place(new, q) = k
  <2>1. Place(old, p) = i
    BY <1>2, PlaceFacts
  <2>2. Place(new, p) = i
    BY <1>1, <1>5, PlaceFacts
  <2>3. Place(new, q) = k
    BY <1>1, <1>3, PlaceFacts
  <2> QED
    BY <2>1, <2>2, <2>3
<1>7. CASE k \in 1..Len(old)
  <2>1. Place(old, q) = k /\ InLine(old, q)
    BY <1>1, <1>3, <1>7, PlaceFacts
  <2> QED
    BY <1>6, <2>1
<1>8. CASE k \notin 1..Len(old)
  BY <1>1, <1>4, <1>6, <1>8
<1> QED
  BY <1>7, <1>8

\* Only two steps touch the line.
LEMMA LineSteps ==
  ASSUME [Next]_vars
  PROVE  \/ line' = line
         \/ \E c \in Conns : Provide(c) /\ line' # line
         \/ \E c \in Conns : Unregister(c)
  BY DEF Next, vars, connVars, gateVars, Conn, Teardown, Acquire,
     AcceptFails, Accept, Refuse, Claim, Register, Park, WriterDies,
     EndSession, Panic, Clear, Remove, Release

\* A datasource is never taken over: whoever joins goes behind everyone in the
\* line, and those who stay keep their order, whoever leaves or dies.
THEOREM NobodyOvertakes == Spec => NoOvertaking
<1>1. IInv /\ LineInv /\ LineInv' /\ [Next]_vars => InOrder(line, line')
  <2> SUFFICES ASSUME IInv, LineInv, LineInv', [Next]_vars
               PROVE  InOrder(line, line')
    OBVIOUS
  <2>1. /\ line \in Seq(Entries) /\ OnePlace(line)
        /\ line' \in Seq(Entries) /\ OnePlace(line')
    BY DEF LineInv, OnePlace
  <2>2. CASE line' = line
    <3> SUFFICES ASSUME NEW p, NEW q, InLine(line, q),
                        InLine(line, q) => Place(line, p) < Place(line, q)
                 PROVE  Place(line, p) < Place(line, q)
      BY <2>2 DEF InOrder
    <3> QED
      OBVIOUS
  <2>3. ASSUME NEW c \in Conns, Provide(c), line' # line
        PROVE  InOrder(line, line')
    <3>1. line' = Joined(line, [plugin |-> Id(c), gen |-> gen[c]])
      BY <2>3 DEF Provide
    <3>2. [plugin |-> Id(c), gen |-> gen[c]] \in Entries
      BY <2>3, ManifestFields
      DEF Entries, IInv, Types, Identity, Named, Holds, Id, Provide, Step
    <3> QED
      BY <2>1, <3>1, <3>2, JoinedInOrder
  <2>4. ASSUME NEW c \in Conns, Unregister(c)
        PROVE  InOrder(line, line')
    <3>1. Thinned(line, line', Kept(line, gen[c], Closed))
      BY <2>1, <2>4, LeftThins DEF Unregister
    <3>2. Kept(line, gen[c], Closed) \in SUBSET (1..Len(line))
      BY <2>1, LenProperties DEF Kept
    <3> QED
      BY <2>1, <3>1, <3>2, ThinnedInOrder
  <2> QED
    BY <2>2, <2>3, <2>4, LineSteps
<1>2. InOrder(line, line') =>
        \A p, q \in Plugins :
          /\ InLine(line, p) /\ InLine(line', p) /\ InLine(line', q) /\ p # q
          /\ InLine(line, q) => Place(line, p) < Place(line, q)
          => Place(line', p) < Place(line', q)
  BY DEF InOrder
<1> QED
  BY <1>1, <1>2, Inductive, LineInductive, PTL DEF Spec, NoOvertaking

-----------------------------------------------------------------------------
(* The gate.                                                               *)

\* The connections that have a permit: accepted, and not registered yet.
Greeting == {c \in Conns : pc[c] = "handshaking"}
Taken == IF acceptor = "holding" THEN 1 ELSE 0

\* Every permit is in the gate, in the hand of the accept loop, or with
\* a connection that is not registered.
GateIsExact == permits + Taken + Cardinality(Greeting) = MaxUnregistered

GateInv ==
  /\ permits \in Nat /\ acceptor \in {"waiting", "holding"}
  /\ pc \in [Conns -> States] /\ GateIsExact

\* A connection that enters, leaves or does not touch the handshake.
LEMMA GreetingMoves ==
  ASSUME GateInv, NEW c \in Conns, NEW from, NEW to, Step(c, from, to)
  PROVE  /\ IsFiniteSet(Greeting) /\ Cardinality(Greeting) \in Nat
         /\ from # "handshaking" /\ to = "handshaking" =>
              Cardinality(Greeting') = Cardinality(Greeting) + 1
         /\ from = "handshaking" /\ to # "handshaking" =>
              Cardinality(Greeting') = Cardinality(Greeting) - 1
         /\ from # "handshaking" /\ to # "handshaking" =>
              Cardinality(Greeting') = Cardinality(Greeting)
<1>1. IsFiniteSet(Greeting)
  BY FS_Subset, PluginHostAssumption DEF Greeting
<1>2. Cardinality(Greeting) \in Nat
  BY <1>1, FS_CardinalityType
<1>3. from # "handshaking" /\ to = "handshaking" =>
        Greeting' = Greeting \cup {c} /\ c \notin Greeting
  BY DEF Greeting, Step, GateInv
<1>4. from = "handshaking" /\ to # "handshaking" =>
        Greeting' = Greeting \ {c} /\ c \in Greeting
  BY DEF Greeting, Step, GateInv
<1>5. from # "handshaking" /\ to # "handshaking" => Greeting' = Greeting
  BY DEF Greeting, Step, GateInv
<1> QED
  BY <1>1, <1>2, <1>3, <1>4, <1>5, FS_AddElement, FS_RemoveElement

\* The steps of a connection that leave the gate alone.
LEMMA GateRests ==
  ASSUME GateInv, NEW c \in Conns, NEW from \in States \ {"handshaking"},
         NEW to \in States \ {"handshaking"}, Step(c, from, to),
         UNCHANGED gateVars
  PROVE  GateInv'
  BY GreetingMoves DEF GateInv, GateIsExact, Taken, gateVars, Step

LEMMA GateStays ==
  ASSUME GateInv, UNCHANGED <<pc, gateVars>>
  PROVE  GateInv'
  BY DEF GateInv, GateIsExact, Greeting, Taken, gateVars

\* The gate through every step.
LEMMA GateInductive == Spec => []GateInv
<1>1. Init => GateInv
  <2> SUFFICES ASSUME Init PROVE GateInv
    OBVIOUS
  <2>1. Greeting = {}
    BY DEF Init, Greeting
  <2>2. Cardinality(Greeting) = 0
    BY <2>1, FS_EmptySet
  <2> QED
    BY <2>2, PluginHostAssumption
    DEF Init, GateInv, GateIsExact, Taken, States
<1>2. GateInv /\ [Next]_vars => GateInv'
  <2> SUFFICES ASSUME GateInv, [Next]_vars PROVE GateInv'
    OBVIOUS
  <2>0. MaxUnregistered \in Nat /\ IsFiniteSet(Greeting)
        /\ Cardinality(Greeting) \in Nat
    BY PluginHostAssumption, FS_Subset, FS_CardinalityType DEF Greeting
  <2>1. CASE Acquire
    <3>1. Greeting' = Greeting
      BY <2>1 DEF Acquire, connVars, Greeting
    <3> QED
      BY <2>0, <2>1, <3>1
      DEF Acquire, connVars, GateInv, GateIsExact, Taken
  <2>2. CASE AcceptFails
    <3>1. Greeting' = Greeting
      BY <2>2 DEF AcceptFails, connVars, Greeting
    <3> QED
      BY <2>0, <2>2, <3>1
      DEF AcceptFails, connVars, GateInv, GateIsExact, Taken
  <2>3. ASSUME NEW c \in Conns, Accept(c) PROVE GateInv'
    <3>1. Cardinality(Greeting') = Cardinality(Greeting) + 1
      BY <2>3, GreetingMoves DEF Accept
    <3> QED
      BY <2>0, <2>3, <3>1
      DEF Accept, Step, GateInv, GateIsExact, Taken, States
  <2>4. ASSUME NEW c \in Conns, Refuse(c) PROVE GateInv'
    <3>1. Cardinality(Greeting') = Cardinality(Greeting) - 1
      BY <2>4, GreetingMoves DEF Refuse
    <3> QED
      BY <2>0, <2>4, <3>1
      DEF Refuse, Step, GateInv, GateIsExact, Taken, States
  <2>5. ASSUME NEW c \in Conns, \E m \in Registers[c] : Claim(c, m)
        PROVE  GateInv'
    <3>1. Cardinality(Greeting') = Cardinality(Greeting) - 1
      BY <2>5, GreetingMoves DEF Claim
    <3> QED
      BY <2>0, <2>5, <3>1
      DEF Claim, Step, GateInv, GateIsExact, Taken, States
  <2>6. ASSUME NEW c \in Conns, Park(c) \/ WriterDies(c) PROVE GateInv'
    BY <2>6, GateStays DEF Park, WriterDies, connVars
  <2>7. ASSUME NEW c \in Conns,
               Register(c) \/ Provide(c) \/ EndSession(c) \/ Panic(c)
        PROVE  GateInv'
    BY <2>7, GateRests DEF Register, Provide, EndSession, Panic, States
  <2>8. ASSUME NEW c \in Conns, Teardown(c) PROVE GateInv'
    BY <2>8, GateRests
    DEF Teardown, Clear, Unregister, Remove, Release, States
  <2>9. CASE UNCHANGED vars
    BY <2>9, GateStays DEF vars, connVars
  <2> QED
    BY <2>1, <2>2, <2>3, <2>4, <2>5, <2>6, <2>7, <2>8, <2>9 DEF Next, Conn
<1> QED
  BY <1>1, <1>2, PTL DEF Spec

\* No ending of a handshake loses a permit or gives one back twice: a gate
\* without permits has that many dials before it, and the host is never deaf
\* for another reason.  So no more than that many are ever unregistered.
THEOREM PermitsComeBack == Spec => [](GateIsExact /\ Cardinality(Greeting) <= MaxUnregistered)
<1>1. GateInv => GateIsExact /\ Cardinality(Greeting) <= MaxUnregistered
  <2> SUFFICES ASSUME GateInv
               PROVE  GateIsExact /\ Cardinality(Greeting) <= MaxUnregistered
    OBVIOUS
  <2>1. MaxUnregistered \in Nat /\ Cardinality(Greeting) \in Nat
    BY PluginHostAssumption, FS_Subset, FS_CardinalityType DEF Greeting
  <2> QED
    BY <2>1 DEF GateInv, GateIsExact, Taken
<1> QED
  BY GateInductive, <1>1, PTL

\* The rest of the types.
Counted == liveIds \subseteq Plugins /\ faults \in 0..MaxFaults
MirrorsTyped == runtime \in [Plugins -> Mirrors]

\* A frame is parked by a connection that is in the mirror, with its mount.
LEMMA MirrorsStay == Spec => []MirrorsTyped
<1>1. Init => MirrorsTyped
  BY DEF Init, MirrorsTyped, Mirrors
<1>2. IInv /\ MirrorsTyped /\ [Next]_vars => MirrorsTyped'
  <2> SUFFICES ASSUME IInv, MirrorsTyped, [Next]_vars PROVE MirrorsTyped'
    OBVIOUS
  <2>1. ASSUME NEW c \in Conns, Register(c) PROVE MirrorsTyped'
    <3>1. manifest[c].mount \in Mounts
      BY <2>1, ManifestFields
      DEF Register, Step, IInv, Types, Identity, Named, Holds
    <3> QED
      BY <2>1, <3>1 DEF Register, MirrorsTyped, Mirrors
  <2>2. ASSUME NEW c \in Conns, Park(c) PROVE MirrorsTyped'
    <3>1. /\ manifest[c].mount \in Mounts
          /\ runtime[Id(c)].mount = manifest[c].mount
      BY <2>2, ManifestFields
      DEF Park, IInv, Types, Identity, Named, Holds, Mirrored,
          MirrorTellsTheTruth
    <3> QED
      BY <2>2, <3>1 DEF Park, MirrorsTyped, Mirrors
  <2>3. ASSUME NEW c \in Conns, Remove(c) PROVE MirrorsTyped'
    BY <2>3 DEF Remove, MirrorsTyped, Mirrors
  <2>4. \/ \E c \in Conns : Register(c) \/ Park(c) \/ Remove(c)
        \/ runtime' = runtime
    BY DEF Next, vars, connVars, gateVars, Conn, Teardown, Acquire,
       AcceptFails, Accept, Refuse, Claim, Provide, WriterDies, EndSession,
       Panic, Clear, Unregister, Release
  <2> QED
    BY <2>1, <2>2, <2>3, <2>4 DEF MirrorsTyped
<1> QED
  BY <1>1, <1>2, Inductive, PTL DEF Spec

LEMMA CountedTyped == Spec => []Counted
<1>1. Init => Counted
  BY PluginHostAssumption DEF Init, Counted
<1>2. IInv /\ Counted /\ [Next]_vars => Counted'
  <2> SUFFICES ASSUME IInv, Counted, [Next]_vars PROVE Counted'
    OBVIOUS
  <2>1. ASSUME NEW c \in Conns, NEW m \in Registers[c], Claim(c, m)
        PROVE  Counted'
    BY <2>1, ManifestFields DEF Claim, Counted, Manifests
  <2>2. ASSUME NEW c \in Conns, WriterDies(c) \/ Panic(c) PROVE Counted'
    BY <2>2, PluginHostAssumption DEF WriterDies, Panic, Counted
  <2>3. \/ \E c \in Conns : \E m \in Registers[c] : Claim(c, m)
        \/ \E c \in Conns : WriterDies(c) \/ Panic(c)
        \/ liveIds' \subseteq liveIds /\ faults' = faults
    BY DEF Next, vars, connVars, gateVars, Conn, Teardown, Acquire,
       AcceptFails, Accept, Refuse, Register, Provide, Park, EndSession,
       Clear, Unregister, Remove, Release
  <2> QED
    BY <2>1, <2>2, <2>3 DEF Counted
<1> QED
  BY <1>1, <1>2, Inductive, PTL DEF Spec

\* Every reachable state is well typed, for any dials, manifests and permits:
\* the gate never holds more permits than it began with.
THEOREM TypeCorrect == Spec => []TypeOK
<1>1. IInv /\ LineInv /\ Writers /\ GateInv /\ Counted /\ MirrorsTyped
      => TypeOK
  <2> SUFFICES ASSUME IInv, LineInv, Writers, GateInv, Counted, MirrorsTyped
               PROVE  TypeOK
    OBVIOUS
  <2>1. permits \in 0..MaxUnregistered
    <3>1. MaxUnregistered \in Nat /\ Cardinality(Greeting) \in Nat
      BY PluginHostAssumption, FS_Subset, FS_CardinalityType
      DEF Greeting
    <3> QED
      BY <3>1 DEF GateInv, GateIsExact, Taken
  <2> QED
    BY <2>1
    DEF TypeOK, MirrorsTyped, IInv, Types, LineInv, Entries, Writers, GateInv, Counted
<1> QED
  BY Inductive, LineInductive, WritersTyped, GateInductive, CountedTyped,
     MirrorsStay, <1>1, PTL
=============================================================================
