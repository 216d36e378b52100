---------------------------- MODULE MCPluginHost ----------------------------
(* Model-checking instances of PluginHost.                                 *)
EXTENDS PluginHost

CONSTANTS c1, c2, c3

ThreePlugins == {"weather", "audio", "mail"}
TwoMounts == {"top", "bar"}

\* A plugin that comes back in another mount, and two that compete with it for
\* the datasource: as three providers in line, or as a plugin and its redial.
SomeRegisters == [c \in Conns |->
  CASE c = c1 -> {[plugin |-> "weather", mount |-> "top", provides |-> TRUE]}
    [] c = c2 -> {[plugin |-> "weather", mount |-> "bar", provides |-> TRUE],
                  [plugin |-> "audio", mount |-> "top", provides |-> TRUE]}
    [] OTHER -> {[plugin |-> "mail", mount |-> "top", provides |-> TRUE]}]
=============================================================================
