-------------------------- MODULE SharedConnection --------------------------
(***************************************************************************)
(* The process-wide shared D-Bus connection of hytte-bus (connection.rs):  *)
(* the cached connection and its generation behind one mutex, the epoch    *)
(* that announces a reconnect, the operations that run on the connection   *)
(* (with_conn, and calls on a proxy built on it), and the supervisor that  *)
(* reopens it.                                                             *)
(*                                                                         *)
(* A connection is named by its generation; 0 stands for None.  A member   *)
(* of Ops is a client task that runs one operation after another.  Each    *)
(* action is one critical section, or one step between two awaits.         *)
(***************************************************************************)
EXTENDS Integers

CONSTANTS
  Ops,            \* tasks that run operations on the connection
  MaxGeneration,  \* bound: connections installed
  MaxAttempts     \* bound: consecutive failed opens

ASSUME ConnectionAssumption ==
  MaxGeneration \in Nat /\ MaxAttempts \in Nat

VARIABLES
  conn,       \* Inner::conn: the generation of the cached connection, or None
  generation, \* Inner::generation
  epoch,      \* SharedConnection::epoch, the atomic
  signal,     \* epoch_signal, what the primitives watch
  permit,     \* the Notify holds a wake-up the supervisor has not consumed
  sup,        \* where supervisor_loop is
  attempt,    \* the FailureStreak of opens
  op,         \* where each operation is
  ranOn,      \* the Generation each operation was issued on
  reported    \* connections whose loss log_connection_lost has reported

vars == <<conn, generation, epoch, signal, permit, sup, attempt, op, ranOn,
          reported>>

supVars == <<generation, epoch, signal, sup, attempt>>

None == 0

Init ==
  /\ conn = None /\ generation = 0
  /\ epoch = 0 /\ signal = 0
  /\ permit = FALSE
  /\ sup = "check" /\ attempt = 0
  /\ op = [o \in Ops |-> "idle"]
  /\ ranOn = [o \in Ops |-> None]
  /\ reported = {}

-----------------------------------------------------------------------------
(* Operations.                                                             *)

Move(o, from, to) == op[o] = from /\ op' = [op EXCEPT ![o] = to]

\* with_conn_tagged captures the connection and its generation in one critical
\* section.  With no connection it returns Transient and changes nothing.
Capture(o) ==
  /\ conn # None
  /\ Move(o, "idle", "running")
  /\ ranOn' = [ranOn EXCEPT ![o] = generation]
  /\ UNCHANGED <<conn, permit, reported, supVars>>

\* BusProxy::call on the cached proxy an earlier operation of o built: the
\* call runs on that connection, however old, without looking at the cache.
CallOnCachedProxy(o) ==
  /\ ranOn[o] # None
  /\ Move(o, "idle", "running")
  /\ UNCHANGED <<conn, permit, ranOn, reported, supVars>>

\* Success, or an error that is not transient: nothing shared changes.
Succeed(o) ==
  /\ Move(o, "running", "idle")
  /\ UNCHANGED <<conn, permit, ranOn, reported, supVars>>

\* A transient error (is_transient_zbus_error): the operation goes on to ask
\* for the lock again, and by then the connection may have been replaced.
FailTransient(o) ==
  /\ Move(o, "running", "failed")
  /\ UNCHANGED <<conn, permit, ranOn, reported, supVars>>

\* Mutant: the guard is the epoch, which trails the connection it announces.
InvalidateIfEpoch(o) ==
  LET mine == epoch = ranOn[o] /\ conn # None
  IN /\ op[o] = "failed"
     /\ conn' = IF mine THEN None ELSE conn
     /\ op' = [op EXCEPT ![o] = IF mine THEN "cleared" ELSE "idle"]
     /\ UNCHANGED <<permit, ranOn, reported, supVars>>

\* Mutant: the generation is compared but not whether this call cleared it.
InvalidateAgain(o) ==
  LET mine == generation = ranOn[o]
  IN /\ op[o] = "failed"
     /\ conn' = IF mine THEN None ELSE conn
     /\ op' = [op EXCEPT ![o] = IF mine THEN "cleared" ELSE "idle"]
     /\ UNCHANGED <<permit, ranOn, reported, supVars>>

\* The tail of with_conn_tagged and invalidate_if_generation: the cache is
\* cleared only if it still holds the connection the operation ran on, and
\* only the operation that cleared it goes on to report and to notify.
Invalidate(o) ==
  LET mine == generation = ranOn[o] /\ conn # None
  IN /\ op[o] = "failed"
     /\ conn' = IF mine THEN None ELSE conn
     /\ op' = [op EXCEPT ![o] = IF mine THEN "cleared" ELSE "idle"]
     /\ UNCHANGED <<permit, ranOn, reported, supVars>>

\* log_connection_lost, after the guard was dropped.
Report(o) ==
  /\ Move(o, "cleared", "reported")
  /\ reported' = reported \cup {ranOn[o]}
  /\ UNCHANGED <<conn, permit, ranOn, supVars>>

\* Mutant: only a supervisor already parked in notified() is woken.
NotifyWaiters(o) ==
  /\ Move(o, "reported", "idle")
  /\ permit' = (permit \/ sup = "waiting")
  /\ UNCHANGED <<conn, ranOn, reported, supVars>>

\* Notify::notify_one: wakes the supervisor, or leaves it a permit.
Notify(o) ==
  /\ Move(o, "reported", "idle")
  /\ permit' = TRUE
  /\ UNCHANGED <<conn, ranOn, reported, supVars>>

Operation(o) ==
  \/ Capture(o) \/ CallOnCachedProxy(o)
  \/ Succeed(o) \/ FailTransient(o)
  \/ Invalidate(o) \/ Report(o) \/ Notify(o)

-----------------------------------------------------------------------------
(* supervisor_loop.                                                        *)

opVars == <<op, ranOn, reported>>

SupMove(from, to) == sup = from /\ sup' = to

\* The top of the loop reads conn.is_none() under the lock.
Check ==
  /\ sup = "check"
  /\ sup' = IF conn = None THEN "opening" ELSE "waiting"
  /\ UNCHANGED <<conn, generation, epoch, signal, permit, attempt, opVars>>

\* Mutant: a failed open waits for the next notification.
OpenFailsWaits ==
  /\ attempt < MaxAttempts
  /\ SupMove("opening", "waiting")
  /\ attempt' = attempt + 1
  /\ UNCHANGED <<conn, generation, epoch, signal, permit, opVars>>

\* open_connection fails: record, log, sleep the ramp's delay, look again.
OpenFails ==
  /\ attempt < MaxAttempts
  /\ SupMove("opening", "sleeping")
  /\ attempt' = attempt + 1
  /\ UNCHANGED <<conn, generation, epoch, signal, permit, opVars>>

Slept ==
  /\ SupMove("sleeping", "check")
  /\ UNCHANGED <<conn, generation, epoch, signal, permit, attempt, opVars>>

\* Mutant: the generation is not advanced with the connection.
InstallSameGeneration ==
  /\ SupMove("opening", "installed")
  /\ conn' = 1
  /\ generation' = 1
  /\ UNCHANGED <<epoch, signal, permit, attempt, opVars>>

\* open_connection answers; connection and generation change in one critical
\* section.
Install ==
  /\ generation < MaxGeneration
  /\ SupMove("opening", "installed")
  /\ generation' = generation + 1
  /\ conn' = generation'
  /\ UNCHANGED <<epoch, signal, permit, attempt, opVars>>

\* The lock is released before the epoch moves.
BumpEpoch ==
  /\ SupMove("installed", "bumped")
  /\ epoch' = epoch + 1
  /\ UNCHANGED <<conn, generation, signal, permit, attempt, opVars>>

\* signal.set, backoff.reset, log_connected.
Announce ==
  /\ SupMove("bumped", "waiting")
  /\ signal' = epoch
  /\ attempt' = 0
  /\ UNCHANGED <<conn, generation, epoch, permit, opVars>>

\* notify.notified().await returns, now or at once if a permit was left.
Wake ==
  /\ permit
  /\ SupMove("waiting", "check")
  /\ permit' = FALSE
  /\ UNCHANGED <<conn, generation, epoch, signal, attempt, opVars>>

Supervise ==
  Check \/ OpenFails \/ Slept \/ Install \/ BumpEpoch \/ Announce \/ Wake

Next == Supervise \/ \E o \in Ops : Operation(o)

Spec == Init /\ [][Next]_vars

\* The runtime polls the supervisor and every operation past its failure; a
\* bus that can be opened infinitely often is opened in the end.  Nothing
\* obliges an operation to be issued, or to end.
Fairness ==
  /\ WF_vars(Supervise)
  /\ SF_vars(Install)
  /\ \A o \in Ops : WF_vars(Invalidate(o) \/ Report(o) \/ Notify(o))

FairSpec == Spec /\ Fairness

-----------------------------------------------------------------------------
(* Properties.                                                             *)

Generations == 0..MaxGeneration

\* Every variable has the type of what it stands for.
TypeOK ==
  /\ conn \in Generations /\ generation \in Generations
  /\ epoch \in Generations /\ signal \in Generations
  /\ permit \in BOOLEAN
  /\ sup \in {"check", "opening", "sleeping", "installed", "bumped", "waiting"}
  /\ attempt \in 0..MaxAttempts
  /\ op \in [Ops -> {"idle", "running", "failed", "cleared", "reported"}]
  /\ ranOn \in [Ops -> Generations]
  /\ reported \subseteq Generations

Notifying(o) == op[o] \in {"cleared", "reported"}

\* An operation that fails late never costs the bus a connection it did not
\* run on: only the connection it ran on is ever taken away by it.
OnlyOwnConnectionIsCleared ==
  [][\A o \in Ops : op[o] = "failed" /\ op'[o] = "cleared" =>
       conn = ranOn[o] /\ conn' = None]_vars

\* A lost connection is never left unrepaired: the supervisor is reopening
\* it, or a wake-up for it is stored or still to be sent.
LossReachesSupervisor ==
  conn = None /\ sup \in {"installed", "bumped", "waiting"} =>
    permit \/ \E o \in Ops : Notifying(o)

\* One disconnect, one report, one wake-up, however many operations noticed:
\* the supervisor never wakes to a connection that is there.
OneWakePerLoss ==
  /\ \A o, p \in Ops : Notifying(o) /\ Notifying(p) => o = p
  /\ permit => \A o \in Ops : ~Notifying(o)
  /\ sup = "check" => conn = None

\* Every re-established line of the journal retracts a loss already reported.
RetractionFollowsReport ==
  sup \in {"installed", "bumped"} => \A g \in 1..(generation - 1) : g \in reported

\* The epoch trails the connection it announces by one install at most, and
\* never runs ahead of it; at rest all three agree.
EpochTrails ==
  /\ signal <= epoch /\ epoch <= generation /\ generation <= epoch + 1
  /\ sup = "waiting" => signal = generation
  /\ conn # None => conn = generation

\* A transient failure on the cached connection leads to another connection,
\* unless the bound on connections is reached.
FailureHeals ==
  \A o \in Ops :
    (op[o] = "failed" /\ conn # None /\ conn = ranOn[o])
      ~> (generation > ranOn[o] \/ generation = MaxGeneration)

\* What the connection promises its clients: see BusLink.
Link == INSTANCE BusLink WITH
  link <- conn, last <- generation,
  lossReports <- reported \cup {ranOn[o] : o \in {p \in Ops : op[p] = "cleared"}}

ImplementsBusLink == Link!Spec
=============================================================================
