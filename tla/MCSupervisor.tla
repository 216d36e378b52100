---------------------------- MODULE MCSupervisor ----------------------------
(* Model-checking instances of Supervisor.                                 *)
EXTENDS Supervisor

CONSTANTS t1, t2, t3

\* Three tasks under one label, one of each entry point: every way of ending
\* meets every state of its siblings' rows.
SharedLabelName == [t \in Tasks |-> "wifi"]
SharedLabelKind == [t \in Tasks |-> CASE t = t1 -> "handle"
                                      [] t = t2 -> "plain"
                                      [] OTHER -> "bounded"]

\* The cancellable task panics past the backoff cap, one sibling panics once.
PanicsOf == [t \in Tasks |-> CASE t = t1 -> 3
                               [] t = t2 -> 1
                               [] OTHER -> 0]
=============================================================================
