-------------------------- MODULE SupervisedTasks ---------------------------
(***************************************************************************)
(* What hytte-reactive's supervisors promise their callers                 *)
(* (supervisor.rs, the docs of SupervisorHandle::cancel and stopped), seen *)
(* from outside: each task has one run at a time, none begun once a stop   *)
(* was asked for, and stopped() resolving for good only when nothing of    *)
(* the task runs any more.                                                 *)
(***************************************************************************)
CONSTANT Tasks

VARIABLES
  working,   \* tasks with a run in flight, which may write the task's state
  stopAsked, \* tasks some handle has cancelled
  over       \* tasks whose stopped() has resolved

vars == <<working, stopAsked, over>>

Init == working = {} /\ stopAsked = {} /\ over = {}

Begin(t) ==
  /\ t \notin working \cup stopAsked \cup over
  /\ working' = working \cup {t}
  /\ UNCHANGED <<stopAsked, over>>

End(t) ==
  /\ t \in working
  /\ working' = working \ {t}
  /\ UNCHANGED <<stopAsked, over>>

AskToStop(t) ==
  /\ stopAsked' = stopAsked \cup {t}
  /\ UNCHANGED <<working, over>>

Resolve(t) ==
  /\ t \notin working
  /\ over' = over \cup {t}
  /\ UNCHANGED <<working, stopAsked>>

Next == \E t \in Tasks : Begin(t) \/ End(t) \/ AskToStop(t) \/ Resolve(t)

Spec == Init /\ [][Next]_vars
=============================================================================
