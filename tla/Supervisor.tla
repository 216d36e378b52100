----------------------------- MODULE Supervisor -----------------------------
(***************************************************************************)
(* The supervision loop of hytte-reactive (supervisor.rs, supervise_runs)  *)
(* together with the health table it publishes (health.rs).                *)
(*                                                                         *)
(* A member of Tasks is one call of a spawn_supervised* entry point; its   *)
(* supervisor is a task of its own that starts runs, one at a time, awaits *)
(* each, restarts a run that panicked after a doubling backoff and stops   *)
(* when a run returns or when a SupervisorHandle cancels it.  The table is *)
(* shared: TaskHealth names are not unique, and a return drops the older   *)
(* Returned rows of its name.                                              *)
(*                                                                         *)
(* Time is abstracted to one verdict per panicked run (ran >= reset_after);*)
(* a delay is a number of seconds that only bounds and doubles.            *)
(***************************************************************************)
EXTENDS Integers

CONSTANTS
  Tasks,       \* supervisors that may be spawned; a task is its own TaskId
  Names,       \* the labels tasks are supervised under
  NameOf,      \* the label of each task
  KindOf,      \* the entry point of each task
  Initial,     \* Backoff::initial
  MaxDelay,    \* Backoff::max
  MaxPanics    \* bound: panics of each task

Kinds == {"plain", "bounded", "handle"}

ASSUME ConstantsAssumption ==
  /\ NameOf \in [Tasks -> Names]
  /\ KindOf \in [Tasks -> Kinds]
  /\ Initial \in Nat
  /\ MaxDelay \in Nat
  /\ Initial <= MaxDelay
  /\ MaxPanics \in [Tasks -> Nat]

VARIABLES
  pc,        \* where each supervisor's loop is
  cancelled, \* the watch value SupervisorHandle::cancel sets
  dropped,   \* every clone of the handle was dropped
  delay,     \* the backoff the loop will sleep next
  run,       \* the run in flight, or how the last one ended
  row,       \* the health table: one row per task, or NoRow
  resolved   \* the loop dropped Stop::_stopped: stopped() resolves

vars == <<pc, cancelled, dropped, delay, run, row, resolved>>

NoRow == [state |-> "absent"]

Rows == [state : {"Running", "Restarting", "Returned"},
         runs : Nat, panics : Nat, consecutive : Nat, backoff : Nat]

NewRow == [state |-> "Running", runs |-> 0, panics |-> 0,
           consecutive |-> 0, backoff |-> 0]

Doubled(d) == IF 2 * d < MaxDelay THEN 2 * d ELSE MaxDelay

Init ==
  /\ pc = [t \in Tasks |-> "unspawned"]
  /\ cancelled = [t \in Tasks |-> FALSE]
  /\ dropped = [t \in Tasks |-> FALSE]
  /\ delay = [t \in Tasks |-> Initial]
  /\ run = [t \in Tasks |-> "none"]
  /\ row = [t \in Tasks |-> NoRow]
  /\ resolved = [t \in Tasks |-> FALSE]

Goto(t, from, to) == pc[t] = from /\ pc' = [pc EXCEPT ![t] = to]

-----------------------------------------------------------------------------
(* The health table's transitions.                                         *)

\* health::stopped: the row goes.
Stopped(t) == row' = [row EXCEPT ![t] = NoRow]

\* Mutant: rows of the name are dropped whatever state they are in.
ReturnedDropsByName(t) ==
  row' = [u \in Tasks |->
            IF u = t
            THEN [row[t] EXCEPT !.state = "Returned", !.backoff = 0,
                                !.consecutive = 0]
            ELSE IF NameOf[u] = NameOf[t] THEN NoRow ELSE row[u]]

\* health::returned: the row stays, marked, and replaces the older Returned
\* rows of its name; no live row of that name is touched.
Returned(t) ==
  row' = [u \in Tasks |->
            IF u = t
            THEN [row[t] EXCEPT !.state = "Returned", !.backoff = 0,
                                !.consecutive = 0]
            ELSE IF NameOf[u] = NameOf[t] /\ row[u].state = "Returned"
            THEN NoRow
            ELSE row[u]]

\* health::run_started.
RunStarted(t) ==
  row' = [row EXCEPT ![t].state = "Running", ![t].backoff = 0,
                     ![t].runs = @ + 1]

\* health::panicked: the streak restarts after a healthy run.
Panicked(t, backoff, healthy) ==
  row' = [row EXCEPT ![t].state = "Restarting", ![t].backoff = backoff,
                     ![t].panics = @ + 1,
                     ![t].consecutive = IF healthy THEN 1 ELSE @ + 1]

-----------------------------------------------------------------------------
(* The callers' side.                                                      *)

\* spawn_supervised*: the loop is spawned on the runtime, not polled yet.
Spawn(t) ==
  /\ Goto(t, "unspawned", "spawned")
  /\ UNCHANGED <<cancelled, dropped, delay, run, row, resolved>>

\* SupervisorHandle::cancel, on some live clone; a repeat changes nothing.
Cancel(t) ==
  /\ KindOf[t] = "handle"
  /\ pc[t] # "unspawned"
  /\ ~cancelled[t] /\ ~dropped[t]
  /\ cancelled' = [cancelled EXCEPT ![t] = TRUE]
  /\ UNCHANGED <<pc, dropped, delay, run, row, resolved>>

\* The last clone of the handle is dropped, cancelled or not.
DropHandle(t) ==
  /\ KindOf[t] = "handle"
  /\ pc[t] # "unspawned"
  /\ ~dropped[t]
  /\ dropped' = [dropped EXCEPT ![t] = TRUE]
  /\ UNCHANGED <<pc, cancelled, delay, run, row, resolved>>

-----------------------------------------------------------------------------
(* The run, a task of its own on the runtime.                              *)

\* A run ends by itself: it returns, it panics, or the runtime shutting down
\* aborts it.  A blocking run ends the same ways.
EndRun(t, how) ==
  /\ run[t] = "live"
  /\ how = "panicked" => row[t].panics < MaxPanics[t]
  /\ run' = [run EXCEPT ![t] = how]
  /\ UNCHANGED <<pc, cancelled, dropped, delay, row, resolved>>

\* join.abort() lands at the run's next await.
AbortLands(t) ==
  /\ pc[t] = "aborting"
  /\ run[t] = "live"
  /\ run' = [run EXCEPT ![t] = "aborted"]
  /\ UNCHANGED <<pc, cancelled, dropped, delay, row, resolved>>

-----------------------------------------------------------------------------
(* supervise_runs, from one await to the next.                             *)

\* Mutant: the error a dropped sender raises is read as a cancellation.
CancelPendingOnDrop(t) == KindOf[t] = "handle" /\ (cancelled[t] \/ dropped[t])

\* cancel_requested / cancel_pending: only a sent value counts, so a dropped
\* sender is never a cancellation, and a loop without a Stop is never asked.
CancelPending(t) == KindOf[t] = "handle" /\ cancelled[t]

\* The first poll: health::register.
Register(t) ==
  /\ Goto(t, "spawned", "top")
  /\ row' = [row EXCEPT ![t] = NewRow]
  /\ UNCHANGED <<cancelled, dropped, delay, run, resolved>>

\* Mutant: the top of the loop does not look for a cancel.
StartRunUnchecked(t) ==
  /\ Goto(t, "top", "running")
  /\ RunStarted(t)
  /\ run' = [run EXCEPT ![t] = "live"]
  /\ UNCHANGED <<cancelled, dropped, delay, resolved>>

\* Top of the loop with no cancel pending: run_started, then spawn_run.
StartRun(t) ==
  /\ ~CancelPending(t)
  /\ Goto(t, "top", "running")
  /\ RunStarted(t)
  /\ run' = [run EXCEPT ![t] = "live"]
  /\ UNCHANGED <<cancelled, dropped, delay, resolved>>

\* finish_cancelled where no run is in flight: at the top of the loop, or
\* woken out of a backoff sleep.
CancelBetweenRuns(t) ==
  /\ CancelPending(t)
  /\ pc[t] \in {"top", "sleeping"}
  /\ pc' = [pc EXCEPT ![t] = "leaving"]
  /\ Stopped(t)
  /\ UNCHANGED <<cancelled, dropped, delay, run, resolved>>

\* Mutant: the run is awaited without selecting on the cancel.
CancelMidRunIgnored(t) == FALSE /\ CancelBetweenRuns(t)

\* The biased select picks the cancel, even over a run that just ended.
CancelMidRun(t) ==
  /\ CancelPending(t)
  /\ Goto(t, "running", "aborting")
  /\ UNCHANGED <<cancelled, dropped, delay, run, row, resolved>>

\* Mutant: abort without awaiting the join handle.
FinishAbortedAtOnce(t) ==
  /\ Goto(t, "aborting", "leaving")
  /\ Stopped(t)
  /\ UNCHANGED <<cancelled, dropped, delay, run, resolved>>

\* The aborted run has unwound (or had ended by itself): finish_cancelled.
FinishAborted(t) ==
  /\ run[t] # "live"
  /\ Goto(t, "aborting", "leaving")
  /\ Stopped(t)
  /\ UNCHANGED <<cancelled, dropped, delay, run, resolved>>

\* The select picks the run's end.
Joined(t, how) == pc[t] = "running" /\ run[t] = how /\ ~CancelPending(t)

\* Ok(()): no restart.  Intent decides what becomes of the row.
RunReturned(t) ==
  /\ Joined(t, "returned")
  /\ pc' = [pc EXCEPT ![t] = "leaving"]
  /\ IF KindOf[t] = "bounded" THEN Stopped(t) ELSE Returned(t)
  /\ UNCHANGED <<cancelled, dropped, delay, run, resolved>>

\* Mutant: the delay keeps growing across a healthy run.
RunPanickedNoReset(t, healthy) ==
  /\ Joined(t, "panicked")
  /\ Panicked(t, delay[t], healthy)
  /\ Goto(t, "running", "sleeping")
  /\ UNCHANGED <<cancelled, dropped, delay, run, resolved>>

\* Mutant: the supervisor gives up once the backoff reaches its cap.
RunPanickedGivesUp(t, healthy) ==
  LET backoff == IF healthy THEN Initial ELSE delay[t]
  IN /\ Joined(t, "panicked")
     /\ Panicked(t, backoff, healthy)
     /\ Goto(t, "running", IF backoff < MaxDelay THEN "sleeping" ELSE "leaving")
     /\ delay' = [delay EXCEPT ![t] = backoff]
     /\ UNCHANGED <<cancelled, dropped, run, resolved>>

\* A panic: a healthy run resets the delay first; the streak follows the same
\* verdict.  A zero delay skips the sleep and goes straight back to the top.
RunPanicked(t, healthy) ==
  LET backoff == IF healthy THEN Initial ELSE delay[t]
  IN /\ Joined(t, "panicked")
     /\ Panicked(t, backoff, healthy)
     /\ pc' = [pc EXCEPT ![t] = IF backoff # 0 THEN "sleeping" ELSE "top"]
     /\ delay' = [delay EXCEPT ![t] = IF backoff # 0 THEN backoff
                                                     ELSE Doubled(backoff)]
     /\ UNCHANGED <<cancelled, dropped, run, resolved>>

\* A JoinError that is not a panic: the row goes and supervision ends.
RunAborted(t) ==
  /\ Joined(t, "aborted")
  /\ pc' = [pc EXCEPT ![t] = "leaving"]
  /\ Stopped(t)
  /\ UNCHANGED <<cancelled, dropped, delay, run, resolved>>

\* The backoff sleep elapses with no cancel pending; the delay doubles.
SleepElapsed(t) ==
  /\ ~CancelPending(t)
  /\ Goto(t, "sleeping", "top")
  /\ delay' = [delay EXCEPT ![t] = Doubled(@)]
  /\ UNCHANGED <<cancelled, dropped, run, row, resolved>>

\* The loop returns and drops its Stop, which resolves stopped().
Leave(t) ==
  /\ Goto(t, "leaving", "left")
  /\ resolved' = [resolved EXCEPT ![t] = TRUE]
  /\ UNCHANGED <<cancelled, dropped, delay, run, row>>

Loop(t) ==
  \/ Register(t) \/ StartRun(t)
  \/ CancelBetweenRuns(t) \/ CancelMidRun(t) \/ FinishAborted(t)
  \/ RunReturned(t) \/ RunAborted(t) \/ SleepElapsed(t) \/ Leave(t)
  \/ \E healthy \in BOOLEAN : RunPanicked(t, healthy)

Environment(t) ==
  \/ Spawn(t) \/ Cancel(t) \/ DropHandle(t)
  \/ \E how \in {"returned", "panicked", "aborted"} : EndRun(t, how)

Next == \E t \in Tasks : Loop(t) \/ Environment(t) \/ AbortLands(t)

Spec == Init /\ [][Next]_vars

\* The runtime keeps polling a supervisor, its sleeps elapse, and an aborted
\* run reaches an await; nothing obliges a run to end or a caller to cancel.
Fairness == \A t \in Tasks : WF_vars(Loop(t)) /\ WF_vars(AbortLands(t))

FairSpec == Spec /\ Fairness
-----------------------------------------------------------------------------
(* Properties.                                                             *)

PCs == {"unspawned", "spawned", "top", "running", "sleeping", "aborting",
        "leaving", "left"}

\* Every variable has the type of the field it stands for.
TypeOK ==
  /\ pc \in [Tasks -> PCs]
  /\ cancelled \in [Tasks -> BOOLEAN]
  /\ dropped \in [Tasks -> BOOLEAN]
  /\ delay \in [Tasks -> Nat]
  /\ run \in [Tasks -> {"none", "live", "returned", "panicked", "aborted"}]
  /\ row \in [Tasks -> Rows \cup {NoRow}]
  /\ resolved \in [Tasks -> BOOLEAN]

Supervising(t) == pc[t] \in {"top", "running", "sleeping", "aborting"}

RowTellsTheTruth(t) ==
  /\ Supervising(t) => row[t] # NoRow
  /\ row[t].state = "Running" => pc[t] \in {"top", "running", "aborting"}
  /\ row[t].state = "Restarting" =>
       /\ pc[t] \in {"top", "sleeping"}
       /\ run[t] = "panicked"
       /\ row[t].consecutive > 0
  /\ row[t].state = "Returned" =>
       /\ pc[t] \in {"leaving", "left"}
       /\ run[t] = "returned"
       /\ row[t].consecutive = 0

OneReturnedRowPerName ==
  \A t, u \in Tasks :
    /\ row[t].state = "Returned" /\ row[u].state = "Returned"
    /\ NameOf[t] = NameOf[u]
    => t = u

\* The table lists exactly the supervisors that supervise, each in the state
\* its loop is in, plus Returned rows whose streak reads zero, of which there
\* is at most one a name: no cancel path leaks a row, no sibling's return
\* deletes a live row, and the history of returned tasks is bounded.
TableTellsTheTruth ==
  (\A t \in Tasks : RowTellsTheTruth(t)) /\ OneReturnedRowPerName

\* Supervision ends only for the reasons the module documents: a cancel, a
\* return, or an aborted run.  Dropping a handle is not cancelling, and a
\* panic never ends supervision.
EndsForAReason ==
  \A t \in Tasks :
    pc[t] \in {"leaving", "left"} =>
      cancelled[t] \/ run[t] \in {"returned", "aborted"}

\* Once stopped() resolves, the canceller may reset the state the task wrote:
\* no run is in flight, the health row is released, or settled Returned, and
\* it did not end for less than a reason.
StoppedMeansOver ==
  /\ EndsForAReason
  /\ \A t \in Tasks :
       resolved[t] => /\ run[t] # "live"
                      /\ row[t].state \in {"absent", "Returned"}

\* The delay a streak of n panics sleeps: Initial doubled n - 1 times, capped.
StreakDelay[n \in Nat] ==
  IF n <= 1 THEN Initial ELSE Doubled(StreakDelay[n - 1])

\* The published streak and the published backoff never disagree about what
\* counts as a healthy run.
StreakMatchesBackoff ==
  \A t \in Tasks :
    row[t].state = "Restarting" =>
      row[t].backoff = StreakDelay[row[t].consecutive]

\* A cancelled supervisor stops, from whatever point its loop had reached.
CancelStops == \A t \in Tasks : cancelled[t] ~> resolved[t]

\* A panicked run is followed by another one unless a cancel intervenes.
PanicRestarts ==
  \A t \in Tasks : run[t] = "panicked" ~> (run[t] = "live" \/ cancelled[t])

\* The supervisors keep the promise SupervisedTasks states.
Promise == INSTANCE SupervisedTasks WITH
  working <- {t \in Tasks : run[t] = "live"},
  stopAsked <- {t \in Tasks : CancelPending(t)},
  over <- {t \in Tasks : resolved[t]}

ImplementsSupervisedTasks == Promise!Spec
=============================================================================
