-------------------------- MODULE MCPluginLauncher --------------------------
(* Model-checking instances of PluginLauncher.                             *)
EXTENDS PluginLauncher

TwoPlugins == {"pet", "caw"}
OneStatic == {"caw"}

Says(enabled, pinned, spec) ==
  [named |-> TRUE, enabled |-> enabled, pinned |-> pinned, spec |-> spec]
Absent == [named |-> FALSE, enabled |-> FALSE, pinned |-> FALSE, spec |-> "v1"]
File(pet, caw) ==
  [readable |-> TRUE,
   plugin |-> [p \in Plugins |-> IF p = "pet" THEN pet ELSE caw]]
Files ==
  {File(Says(TRUE, FALSE, "v1"), Says(FALSE, FALSE, "v1")),
   File(Says(FALSE, FALSE, "v1"), Says(TRUE, FALSE, "v2")),
   File(Says(TRUE, FALSE, "v2"), Absent),
   File(Absent, Says(TRUE, TRUE, "v1"))}
   \cup {[File(Absent, Absent) EXCEPT !.readable = FALSE]}

Fresh(at, spec, p) ==
  [at |-> at, stamped |-> p \notin Static, spec |-> spec, settings |-> 0,
   key |-> 0]
Units == {[p \in Plugins |-> Fresh(at, "v1", p)] : at \in {"gone", "up"}}

Bound(f) == [b \in Bounds |-> IF b \in DOMAIN f THEN f[b] ELSE 0]
Some == {
  Bound([edits |-> 2, pokes |-> 1, faults |-> 1]),
  Bound([flips |-> 1, edits |-> 1]),
  Bound([saves |-> 1, rotations |-> 1, crashes |-> 1]),
  Bound([flips |-> 1, saves |-> 1, crashes |-> 1]),
  Bound([flips |-> 2, faults |-> 1, timeouts |-> 1]),
  Bound([flips |-> 1, saves |-> 1, exits |-> 1]),
  Bound([edits |-> 1, pokes |-> 1, crashes |-> 1])}

\* One crash and one edit.
OneCrash == {Bound([edits |-> 1, crashes |-> 1])}
=============================================================================
