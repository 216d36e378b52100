---------------------------- MODULE ProviderLine ----------------------------
(***************************************************************************)
(* Who serves one datasource id (ProviderSlot in                           *)
(* trollshell/src/plugins/datasource.rs): the line of the plugins that     *)
(* declared it, the holder first and its standbys after it, oldest first.  *)
(* An entry is a record with the fields plugin and gen.  Both operations   *)
(* run under the one lock of the provider table.                           *)
(***************************************************************************)
EXTENDS Naturals, Sequences, FiniteSets

\* How many positions of `keep' are at or before i.
Rank(keep, i) == Cardinality({j \in keep : j <= i})

\* Vec::retain: the line without the entries of those generations, in order.
Retained(line, gens) ==
  LET stay == {i \in DOMAIN line : line[i].gen \notin gens}
  IN [k \in 1..Cardinality(stay) |->
        line[CHOOSE i \in stay : Rank(stay, i) = k]]

\* Mutant: the newcomer takes the datasource over.
JoinedInFront(line, e) ==
  IF \E i \in DOMAIN line : line[i].plugin = e.plugin
    THEN [i \in DOMAIN line |-> IF line[i].plugin = e.plugin THEN e ELSE line[i]]
    ELSE <<e>> \o line

\* register_provider: the same plugin keeps its place, another waits its turn.
Joined(line, e) ==
  IF \E i \in DOMAIN line : line[i].plugin = e.plugin
    THEN [i \in DOMAIN line |-> IF line[i].plugin = e.plugin THEN e ELSE line[i]]
    ELSE Append(line, e)

\* Mutant: a standby that leaves keeps its place.
LeftByHolderOnly(line, g, closed) ==
  IF line # <<>> /\ line[1].gen = g
    THEN Retained(Tail(line), closed)
    ELSE line

\* unregister_provider: a standby leaves the line; when the holder leaves, the
\* oldest standby whose outbound is open serves; the generations whose outbound
\* is closed are dropped.
Left(line, g, closed) ==
  IF line # <<>> /\ line[1].gen = g
    THEN Retained(Tail(line), closed)
    ELSE Retained(line, {g})
=============================================================================
