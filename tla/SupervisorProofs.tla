-------------------------- MODULE SupervisorProofs --------------------------
(***************************************************************************)
(* Proofs about Supervisor, for any set of tasks, labels and delays.       *)
(*                                                                         *)
(* The invariants TLC checks are not inductive: they speak of the row and  *)
(* the run at the loop's ends.  PhaseInv says what both are at every point *)
(* of the loop; with OneReturnedRowPerName, the only part that relates two *)
(* tasks, it is inductive.                                                 *)
(***************************************************************************)
EXTENDS Supervisor, WellFoundedInduction, TLAPS

RestartingAfterPanic(t) ==
  row[t].state = "Restarting" /\ row[t].consecutive > 0 /\ run[t] = "panicked"

SettledRow(t) ==
  \/ row[t] = NoRow
  \/ row[t].state = "Returned" /\ row[t].consecutive = 0 /\ run[t] = "returned"

PhaseInv(t) ==
  /\ pc[t] \in {"unspawned", "spawned"} => row[t] = NoRow /\ run[t] = "none"
  /\ pc[t] = "top" => \/ row[t].state = "Running" /\ run[t] = "none"
                      \/ RestartingAfterPanic(t)
  /\ pc[t] = "sleeping" => RestartingAfterPanic(t)
  /\ pc[t] \in {"running", "aborting"} => row[t].state = "Running"
  /\ pc[t] \in {"leaving", "left"} =>
       /\ SettledRow(t)
       /\ run[t] # "live"
       /\ cancelled[t] \/ run[t] \in {"returned", "aborted"}
  /\ pc[t] = "aborting" => cancelled[t]
  /\ resolved[t] => pc[t] = "left"

IInv ==
  /\ TypeOK
  /\ \A t \in Tasks : PhaseInv(t)
  /\ OneReturnedRowPerName

\* The initial states satisfy the inductive invariant.
LEMMA InitIInv == Init => IInv
  BY ConstantsAssumption
  DEF Init, IInv, TypeOK, PCs, PhaseInv, OneReturnedRowPerName, NoRow,
      SettledRow, RestartingAfterPanic

\* What health::returned makes of the row of the task that returned.
LEMMA ReturnedRow ==
  ASSUME NEW t \in Tasks, row[t] \in Rows, Returned(t)
  PROVE  /\ row'[t] \in Rows
         /\ row'[t].state = "Returned" /\ row'[t].consecutive = 0
<1>1. row'[t] = [row[t] EXCEPT !.state = "Returned", !.backoff = 0,
                              !.consecutive = 0]
  BY DEF Returned
<1>2. row'[t] = [state |-> "Returned", runs |-> row[t].runs,
                 panics |-> row[t].panics, consecutive |-> 0, backoff |-> 0]
  BY <1>1 DEF Rows
<1> QED
  BY <1>2 DEF Rows

\* Delays double within the naturals.
LEMMA DoubledType == ASSUME NEW d \in Nat PROVE Doubled(d) \in Nat
  BY ConstantsAssumption DEF Doubled

\* No step of a task breaks the inductive invariant: one step per action.
LEMMA StepIInv == ASSUME IInv, [Next]_vars PROVE IInv'
<1> USE DEF IInv, TypeOK, PCs, PhaseInv, OneReturnedRowPerName, SettledRow,
            RestartingAfterPanic, Rows, NoRow
<1>1. CASE UNCHANGED vars
  BY <1>1 DEF vars
<1>2. ASSUME NEW t \in Tasks, Loop(t) \/ Environment(t) \/ AbortLands(t)
      PROVE  IInv'
  <2>1. CASE Register(t)
    BY <2>1 DEF Register, Goto, NewRow
  <2>2. CASE StartRun(t)
    BY <2>2 DEF StartRun, Goto, RunStarted, CancelPending
  <2>3. CASE CancelBetweenRuns(t)
    BY <2>3 DEF CancelBetweenRuns, CancelPending, Stopped
  <2>4. CASE CancelMidRun(t)
    BY <2>4 DEF CancelMidRun, CancelPending, Goto
  <2>5. CASE FinishAborted(t)
    BY <2>5 DEF FinishAborted, Goto, Stopped
  <2>6. CASE RunAborted(t)
    BY <2>6 DEF RunAborted, Joined, Stopped
  <2>7. CASE SleepElapsed(t)
    BY <2>7, DoubledType DEF SleepElapsed, Goto
  <2>8. CASE Leave(t)
    BY <2>8 DEF Leave, Goto
  <2>9. CASE Spawn(t)
    BY <2>9 DEF Spawn, Goto
  <2>10. CASE Cancel(t)
    BY <2>10 DEF Cancel
  <2>11. CASE DropHandle(t)
    BY <2>11 DEF DropHandle
  <2>12. CASE AbortLands(t)
    BY <2>12 DEF AbortLands
  <2>13. ASSUME NEW how \in {"returned", "panicked", "aborted"}, EndRun(t, how)
       PROVE  IInv'
    BY <2>13 DEF EndRun
  <2>14. CASE RunReturned(t)
    <3>1. CASE KindOf[t] = "bounded"
      <4>1. /\ pc[t] = "running" /\ run[t] = "returned"
            /\ pc' = [pc EXCEPT ![t] = "leaving"]
            /\ row' = [row EXCEPT ![t] = NoRow]
            /\ UNCHANGED <<cancelled, dropped, delay, run, resolved>>
        BY <2>14, <3>1 DEF RunReturned, Joined, Stopped
      <4> QED
        BY <4>1
    <3>2. CASE KindOf[t] # "bounded"
      <4>1. /\ pc[t] = "running" /\ run[t] = "returned"
            /\ pc' = [pc EXCEPT ![t] = "leaving"]
            /\ Returned(t)
            /\ UNCHANGED <<cancelled, dropped, delay, run, resolved>>
        BY <2>14, <3>2 DEF RunReturned, Joined
      <4>2. row[t] \in Rows
        BY <4>1
      <4>3. /\ row'[t] \in Rows
            /\ row'[t].state = "Returned" /\ row'[t].consecutive = 0
        BY <4>1, <4>2, ReturnedRow DEF TypeOK
      <4>4. ASSUME NEW u \in Tasks, u # t
            PROVE  \/ row'[u] = row[u]
                   \/ row[u].state = "Returned" /\ row'[u] = NoRow
        BY <4>1, <4>4 DEF Returned
      <4>5. ASSUME NEW u \in Tasks, u # t, NameOf[u] = NameOf[t]
            PROVE  row'[u].state # "Returned"
        BY <4>1, <4>5 DEF Returned
      <4>6. TypeOK'
        <5>1. row' \in [Tasks -> Rows \cup {NoRow}]
          BY <4>1, <4>3, <4>4 DEF Returned
        <5> QED
          BY <4>1, <5>1
      <4>7. ASSUME NEW u \in Tasks PROVE PhaseInv(u)'
        <5>1. CASE u = t
          BY <4>1, <4>3, <5>1
        <5>2. CASE u # t
          BY <4>1, <4>4, <5>2
        <5> QED
          BY <5>1, <5>2
      <4>8. OneReturnedRowPerName'
        BY <4>3, <4>4, <4>5
      <4> QED
        BY <4>6, <4>7, <4>8
    <3> QED
      BY <3>1, <3>2
  <2>15. ASSUME NEW healthy \in BOOLEAN, RunPanicked(t, healthy)
       PROVE  IInv'
    <3> DEFINE backoff == IF healthy THEN Initial ELSE delay[t]
    <3>1. /\ pc[t] = "running" /\ run[t] = "panicked"
          /\ Panicked(t, backoff, healthy)
          /\ pc' = [pc EXCEPT ![t] = IF backoff # 0 THEN "sleeping" ELSE "top"]
          /\ delay' = [delay EXCEPT ![t] = IF backoff # 0 THEN backoff
                                                          ELSE Doubled(backoff)]
          /\ UNCHANGED <<cancelled, dropped, run, resolved>>
      BY <2>15 DEF RunPanicked, Joined
    <3>2. backoff \in Nat
      BY ConstantsAssumption
    <3>3. delay' \in [Tasks -> Nat]
      BY <3>1, <3>2, DoubledType
    <3>4. row[t] \in Rows
      BY <3>1
    <3>5. /\ row' = [row EXCEPT ![t] = row'[t]]
          /\ row'[t] \in Rows
          /\ row'[t].state = "Restarting" /\ row'[t].consecutive > 0
      BY <3>1, <3>2, <3>4 DEF Panicked
    <3>6. pc'[t] \in {"sleeping", "top"}
      BY <3>1
    <3> HIDE DEF backoff
    <3>7. TypeOK'
      BY <3>1, <3>3, <3>5
    <3>8. ASSUME NEW u \in Tasks PROVE PhaseInv(u)'
      <4>1. CASE u = t
        BY <3>1, <3>5, <3>6, <4>1
      <4>2. CASE u # t
        BY <3>1, <3>5, <4>2
      <4> QED
        BY <4>1, <4>2
    <3>9. OneReturnedRowPerName'
      BY <3>5
    <3> QED
      BY <3>7, <3>8, <3>9
  <2> QED
    BY <1>2, <2>1, <2>2, <2>3, <2>4, <2>5, <2>6, <2>7, <2>8, <2>9,
       <2>10, <2>11, <2>12, <2>13, <2>14, <2>15
    DEF Loop, Environment
<1> QED
  BY <1>1, <1>2 DEF Next

\* The loop keeps its inductive invariant.
THEOREM Inductive == Spec => []IInv
<1>1. IInv /\ [Next]_vars => IInv'
  BY StepIInv
<1> QED
  BY InitIInv, <1>1, PTL DEF Spec

\* Every reachable state is well typed, for any tasks, labels and delays.
THEOREM TypeCorrect == Spec => []TypeOK
<1>1. IInv => TypeOK
  BY DEF IInv
<1> QED
  BY Inductive, <1>1, PTL

\* The health table never lists a task in a state its loop is not in, never
\* loses a live row to a sibling's return, and never leaks one.
THEOREM TableSafe == Spec => []TableTellsTheTruth
<1>1. IInv => TableTellsTheTruth
  <2> SUFFICES ASSUME IInv, NEW t \in Tasks
               PROVE  RowTellsTheTruth(t)
    BY DEF TableTellsTheTruth, IInv
  <2>1. /\ PhaseInv(t)
        /\ pc[t] \in PCs
        /\ NoRow.state = "absent"
    BY DEF IInv, TypeOK, NoRow
  <2> QED
    BY <2>1 DEF PhaseInv, PCs, Supervising, SettledRow, RestartingAfterPanic,
       RowTellsTheTruth
<1> QED
  BY Inductive, <1>1, PTL

\* stopped() resolves only when nothing of the task runs and its row is
\* settled, and supervision never ends for a panic or a dropped handle.
THEOREM StoppedSafe == Spec => []StoppedMeansOver
<1>1. IInv => EndsForAReason
  BY DEF IInv, PhaseInv, EndsForAReason
<1>2. IInv => StoppedMeansOver
  BY <1>1 DEF IInv, PhaseInv, StoppedMeansOver, SettledRow, NoRow
<1> QED
  BY Inductive, <1>2, PTL

\* Every step of the loop is a step its promise allows, or a stutter.
LEMMA StepRefines ==
  ASSUME IInv, [Next]_vars
  PROVE  [Promise!Next]_(Promise!vars)
<1> DEFINE Working == {t \in Tasks : run[t] = "live"}
           Asked == {t \in Tasks : CancelPending(t)}
           Over == {t \in Tasks : resolved[t]}
<1> USE DEF Promise!vars, Promise!Next, CancelPending
<1>1. CASE UNCHANGED vars
  BY <1>1 DEF vars
<1>2. ASSUME NEW t \in Tasks, Loop(t) \/ Environment(t) \/ AbortLands(t)
      PROVE  [Promise!Next]_(Promise!vars)
  <2>0. PhaseInv(t) /\ TypeOK
    BY DEF IInv
  <2>1. CASE StartRun(t)
    <3>1. /\ t \notin Working \cup Asked \cup Over
          /\ Working' = Working \cup {t}
          /\ Asked' = Asked /\ Over' = Over
      BY <2>0, <2>1 DEF StartRun, Goto, PhaseInv, TypeOK, RestartingAfterPanic
    <3> QED
      BY <3>1 DEF Promise!Begin
  <2>2. CASE Leave(t)
    <3>1. /\ t \notin Working
          /\ Over' = Over \cup {t}
          /\ Working' = Working /\ Asked' = Asked
      BY <2>0, <2>2 DEF Leave, Goto, PhaseInv, TypeOK
    <3> QED
      BY <3>1 DEF Promise!Resolve
  <2>3. CASE Cancel(t)
    <3>1. /\ Asked' = Asked \cup {t}
          /\ Working' = Working /\ Over' = Over
      BY <2>0, <2>3 DEF Cancel, TypeOK
    <3> QED
      BY <3>1 DEF Promise!AskToStop
  <2>4. CASE AbortLands(t) \/ \E how \in {"returned", "panicked", "aborted"} :
               EndRun(t, how)
    <3>1. /\ t \in Working
          /\ Working' = Working \ {t}
          /\ Asked' = Asked /\ Over' = Over
      BY <2>0, <2>4 DEF AbortLands, EndRun, TypeOK
    <3> QED
      BY <3>1 DEF Promise!End
  <2>5. ASSUME UNCHANGED <<run, cancelled, resolved>>
        PROVE  [Promise!Next]_(Promise!vars)
    BY <2>5
  <2> QED
    BY <1>2, <2>1, <2>2, <2>3, <2>4, <2>5
    DEF Loop, Environment, Register, CancelBetweenRuns, CancelMidRun,
        FinishAborted, RunReturned, RunPanicked, RunAborted, SleepElapsed,
        Spawn, DropHandle
<1> QED
  BY <1>1, <1>2 DEF Next

\* The supervision loop implements the promise SupervisedTasks states.
THEOREM Refinement == Spec => ImplementsSupervisedTasks
<1>1. Init => Promise!Init
  BY DEF Init, Promise!Init, CancelPending
<1>2. IInv /\ [Next]_vars => [Promise!Next]_(Promise!vars)
  BY StepRefines
<1> QED
  BY Inductive, <1>1, <1>2, PTL
  DEF Spec, ImplementsSupervisedTasks, Promise!Spec

-----------------------------------------------------------------------------
(* The delay of a streak.  StreakDelay is recursive: that it is the        *)
(* function its definition describes is proved by induction, with the sets *)
(* of naturals that have a property in the place of the property.          *)

Below == {ss \in Nat \X Nat : ss[1] < ss[2]}

\* Induction over the naturals, for a set.
LEMMA NatSetInduction ==
  ASSUME NEW T, 0 \in T, \A n \in Nat : n \in T => n + 1 \in T
  PROVE  Nat \subseteq T
<1> SUFFICES ASSUME Nat \ T # {} PROVE FALSE
  OBVIOUS
<1> DEFINE U == Nat \ T
<1>1. IsWellFoundedOn(Below, Nat)
  BY NatLessThanWellFounded DEF OpToRel, Below
<1>2. U \subseteq Nat /\ U # {}
  OBVIOUS
<1> HIDE DEF U
<1>3. PICK n \in U : \A m \in U : <<m, n>> \notin Below
  BY <1>1, <1>2, WFMin
<1> USE DEF U
<1>4. n - 1 \in Nat /\ <<n - 1, n>> \in Below /\ (n - 1) + 1 = n
  BY DEF Below
<1> QED
  BY <1>3, <1>4

\* g is what StreakDelay describes, up to a streak of n.
DelaysUpTo(g, n) ==
  /\ g \in [0..n -> Nat]
  /\ \A i \in 0..n : g[i] = IF i <= 1 THEN Initial ELSE Doubled(g[i - 1])

LEMMA DelaysAgree ==
  ASSUME NEW m \in Nat, NEW n \in Nat, NEW g, NEW h,
         DelaysUpTo(g, m), DelaysUpTo(h, n)
  PROVE  \A i \in Nat : i <= m /\ i <= n => g[i] = h[i]
<1> DEFINE T == {i \in Nat : i <= m /\ i <= n => g[i] = h[i]}
<1>1. 0 \in T
  BY DEF DelaysUpTo
<1>2. ASSUME NEW i \in Nat, i \in T
      PROVE  i + 1 \in T
  BY <1>2 DEF DelaysUpTo
<1> HIDE DEF T
<1>3. Nat \subseteq T
  BY <1>1, <1>2, NatSetInduction
<1> QED
  BY <1>3 DEF T

LEMMA DelaysExist == \A n \in Nat : \E g : DelaysUpTo(g, n)
<1> DEFINE T == {n \in Nat : \E g : DelaysUpTo(g, n)}
<1>1. 0 \in T
  <2>1. DelaysUpTo([i \in 0..0 |-> Initial], 0)
    BY ConstantsAssumption DEF DelaysUpTo
  <2> QED
    BY <2>1
<1>2. ASSUME NEW n \in Nat, n \in T
      PROVE  n + 1 \in T
  <2>1. PICK g : DelaysUpTo(g, n)
    BY <1>2
  <2> DEFINE next == IF n = 0 THEN Initial ELSE Doubled(g[n])
             h == [i \in 0..(n + 1) |-> IF i = n + 1 THEN next ELSE g[i]]
  <2>2. next \in Nat
    BY <2>1, ConstantsAssumption, DoubledType DEF DelaysUpTo
  <2>3. DelaysUpTo(h, n + 1)
    <3>1. h \in [0..(n + 1) -> Nat]
      BY <2>1, <2>2 DEF DelaysUpTo
    <3>2. ASSUME NEW i \in 0..(n + 1)
          PROVE  h[i] = IF i <= 1 THEN Initial ELSE Doubled(h[i - 1])
      <4>1. CASE i = n + 1
        BY <4>1
      <4>2. CASE i \in 0..n
        BY <2>1, <4>2 DEF DelaysUpTo
      <4> QED
        BY <4>1, <4>2
    <3> QED
      BY <3>1, <3>2 DEF DelaysUpTo
  <2> QED
    BY <2>3
<1> HIDE DEF T
<1>3. Nat \subseteq T
  BY <1>1, <1>2, NatSetInduction
<1> QED
  BY <1>3 DEF T

\* StreakDelay is the function it describes.
LEMMA StreakDelays ==
  /\ StreakDelay[1] = Initial
  /\ \A n \in Nat \ {0} : StreakDelay[n + 1] = Doubled(StreakDelay[n])
<1> DEFINE upTo(n) == CHOOSE g : DelaysUpTo(g, n)
           f == [n \in Nat |-> upTo(n)[n]]
           body(d, n) == IF n <= 1 THEN Initial ELSE Doubled(d[n - 1])
<1>1. ASSUME NEW n \in Nat PROVE DelaysUpTo(upTo(n), n)
  BY DelaysExist
<1> HIDE DEF upTo
<1>2. ASSUME NEW n \in Nat PROVE f[n] = body(f, n)
  <2>1. upTo(n)[n] = IF n <= 1 THEN Initial ELSE Doubled(upTo(n)[n - 1])
    <3>1. DelaysUpTo(upTo(n), n) /\ n \in 0..n
      BY <1>1
    <3> QED
      BY <3>1 DEF DelaysUpTo
  <2>2. CASE n <= 1
    BY <2>1, <2>2
  <2>3. CASE ~(n <= 1)
    <3>1. n - 1 \in Nat /\ n - 1 <= n
      BY <2>3
    <3>2. DelaysUpTo(upTo(n), n) /\ DelaysUpTo(upTo(n - 1), n - 1)
      BY <1>1, <3>1
    <3>3. upTo(n)[n - 1] = upTo(n - 1)[n - 1]
      BY <3>1, <3>2, DelaysAgree
    <3> QED
      BY <2>1, <2>3, <3>1, <3>3
  <2> QED
    BY <2>2, <2>3
<1>3. f = [n \in Nat |-> body(f, n)]
  <2> HIDE DEF body
  <2>1. f = [n \in Nat |-> upTo(n)[n]] /\ \A n \in Nat : upTo(n)[n] = body(f, n)
    BY <1>2
  <2> HIDE DEF f
  <2> QED
    BY <2>1
<1> HIDE DEF f
<1>4. StreakDelay = [n \in Nat |-> body(StreakDelay, n)]
  BY <1>3 DEF StreakDelay
<1>5. \A n \in Nat : StreakDelay[n] = body(StreakDelay, n)
  BY <1>4
<1>6. ASSUME NEW n \in Nat \ {0}
      PROVE  StreakDelay[n + 1] = Doubled(StreakDelay[n])
  BY <1>5
<1> QED
  BY <1>5, <1>6

\* The delay is the one the streak will sleep next, or is sleeping now.
StreakInv(t) ==
  /\ pc[t] \in {"unspawned", "spawned"} => delay[t] = Initial
  /\ pc[t] \in {"top", "running", "aborting"} =>
       delay[t] = StreakDelay[row[t].consecutive + 1]
  /\ pc[t] = "sleeping" => delay[t] = StreakDelay[row[t].consecutive]
  /\ row[t].state = "Restarting" =>
       row[t].backoff = StreakDelay[row[t].consecutive]

StreaksAgree == \A t \in Tasks : StreakInv(t)

\* What a step of a task does to its delay and to the streak of its row.
Settles(t) ==
  /\ pc'[t] \in {"leaving", "left"}
  /\ row'[t].state # "Restarting"

KeepsStreak(t) ==
  /\ \/ pc'[t] = pc[t]
     \/ pc[t] = "running" /\ pc'[t] = "aborting"
     \/ pc[t] = "unspawned" /\ pc'[t] = "spawned"
  /\ row'[t] = row[t] /\ delay'[t] = delay[t]

StartsStreak(t) ==
  pc[t] = "spawned" /\ pc'[t] = "top" /\ row'[t] = NewRow /\ delay'[t] = delay[t]

RunsAgain(t) ==
  /\ pc[t] = "top" /\ pc'[t] = "running"
  /\ row'[t].consecutive = row[t].consecutive /\ delay'[t] = delay[t]
  /\ row'[t].state = "Running"

Wakes(t) ==
  /\ pc[t] = "sleeping" /\ pc'[t] = "top"
  /\ row'[t] = row[t] /\ delay'[t] = Doubled(delay[t])

PanicsWith(t, backoff, streak) ==
  /\ pc[t] = "running"
  /\ row'[t].consecutive = streak /\ row'[t].backoff = backoff
  /\ \/ pc'[t] = "sleeping" /\ delay'[t] = backoff
     \/ pc'[t] = "top" /\ delay'[t] = Doubled(backoff)

Panics(t) ==
  \/ PanicsWith(t, Initial, 1)
  \/ PanicsWith(t, delay[t], row[t].consecutive + 1)

StreakMoves(t) ==
  Settles(t) \/ KeepsStreak(t) \/ StartsStreak(t) \/ RunsAgain(t) \/ Wakes(t)
  \/ Panics(t)

LEMMA LoopMoves ==
  ASSUME IInv, NEW t \in Tasks, Loop(t) \/ Environment(t) \/ AbortLands(t)
  PROVE  StreakMoves(t)
<1>0. /\ pc \in [Tasks -> PCs] /\ row \in [Tasks -> Rows \cup {NoRow}]
      /\ delay \in [Tasks -> Nat] /\ PhaseInv(t) /\ t \in Tasks
  BY DEF IInv, TypeOK
<1>1. CASE \/ CancelBetweenRuns(t) \/ FinishAborted(t) \/ RunAborted(t)
           \/ RunReturned(t) \/ Leave(t)
  <2>1. pc'[t] \in {"leaving", "left"}
    BY <1>0, <1>1 DEF CancelBetweenRuns, FinishAborted, RunAborted,
                      RunReturned, Leave, Goto
  <2>2. CASE Stopped(t)
    BY <1>0, <2>1, <2>2 DEF Stopped, NoRow, Settles, StreakMoves
  <2>3. CASE Returned(t) /\ pc[t] = "running"
    <3>1. row[t] \in Rows
      BY <1>0, <2>3 DEF PhaseInv, NoRow
    <3> QED
      BY <2>1, <2>3, <3>1, ReturnedRow DEF Settles, StreakMoves
  <2>4. CASE Leave(t)
    BY <1>0, <2>1, <2>4
    DEF Leave, Goto, PhaseInv, SettledRow, NoRow, Settles, StreakMoves
  <2> QED
    BY <1>1, <2>2, <2>3, <2>4
    DEF CancelBetweenRuns, FinishAborted, RunAborted, RunReturned, Joined
<1>2. CASE \/ CancelMidRun(t) \/ Spawn(t) \/ Cancel(t) \/ DropHandle(t)
           \/ AbortLands(t)
           \/ \E how \in {"returned", "panicked", "aborted"} : EndRun(t, how)
  <2>1. CASE CancelMidRun(t) \/ Spawn(t)
    BY <1>0, <2>1 DEF CancelMidRun, Spawn, Goto, KeepsStreak, StreakMoves
  <2>2. CASE UNCHANGED <<pc, row, delay>>
    BY <2>2 DEF KeepsStreak, StreakMoves
  <2> QED
    BY <1>2, <2>1, <2>2 DEF Cancel, DropHandle, AbortLands, EndRun
<1>3. CASE Register(t)
  BY <1>0, <1>3 DEF Register, Goto, StartsStreak, StreakMoves
<1>4. CASE StartRun(t)
  <2>1. row[t] \in Rows
    BY <1>0, <1>4 DEF StartRun, Goto, PhaseInv, NoRow, RestartingAfterPanic
  <2>2. row'[t].consecutive = row[t].consecutive /\ row'[t].state = "Running"
    BY <1>0, <1>4, <2>1 DEF StartRun, RunStarted, Rows
  <2> QED
    BY <1>0, <1>4, <2>2 DEF StartRun, Goto, RunsAgain, StreakMoves
<1>5. CASE SleepElapsed(t)
  BY <1>0, <1>5 DEF SleepElapsed, Goto, Wakes, StreakMoves
<1>6. ASSUME NEW healthy \in BOOLEAN, RunPanicked(t, healthy)
      PROVE  StreakMoves(t)
  <2> DEFINE backoff == IF healthy THEN Initial ELSE delay[t]
  <2>1. /\ pc[t] = "running"
        /\ Panicked(t, backoff, healthy)
        /\ pc' = [pc EXCEPT ![t] = IF backoff # 0 THEN "sleeping" ELSE "top"]
        /\ delay' = [delay EXCEPT ![t] = IF backoff # 0 THEN backoff
                                                        ELSE Doubled(backoff)]
    BY <1>6 DEF RunPanicked, Joined
  <2>2. row[t] \in Rows
    BY <1>0, <2>1 DEF PhaseInv, NoRow
  <2>3. /\ row'[t].backoff = backoff
        /\ row'[t].consecutive = IF healthy THEN 1 ELSE row[t].consecutive + 1
    BY <1>0, <2>1, <2>2 DEF Panicked, Rows
  <2>4. \/ pc'[t] = "sleeping" /\ delay'[t] = backoff
        \/ pc'[t] = "top" /\ delay'[t] = Doubled(backoff)
    BY <1>0, <2>1
  <2>5. PanicsWith(t, backoff, IF healthy THEN 1 ELSE row[t].consecutive + 1)
    BY <2>1, <2>3, <2>4 DEF PanicsWith
  <2> QED
    BY <2>5 DEF Panics, StreakMoves
<1> QED
  BY <1>1, <1>2, <1>3, <1>4, <1>5, <1>6 DEF Loop, Environment

\* The delay follows the streak.
LEMMA StreakFollows ==
  ASSUME IInv, NEW t \in Tasks, StreakInv(t), StreakMoves(t)
  PROVE  StreakInv(t)'
<1>0. /\ pc[t] \in PCs /\ PhaseInv(t)
      /\ row[t] # NoRow => row[t].consecutive \in Nat
  BY DEF IInv, TypeOK, Rows
<1>1. CASE Settles(t)
  BY <1>1 DEF Settles, StreakInv
<1>2. CASE KeepsStreak(t)
  BY <1>2 DEF KeepsStreak, StreakInv
<1>3. CASE StartsStreak(t)
  BY <1>3, StreakDelays DEF StartsStreak, StreakInv, NewRow
<1>4. CASE RunsAgain(t)
  BY <1>4 DEF RunsAgain, StreakInv
<1>5. CASE Wakes(t)
  <2>1. row[t].consecutive \in Nat \ {0}
    BY <1>0, <1>5 DEF Wakes, PhaseInv, RestartingAfterPanic, NoRow
  <2> QED
    BY <1>5, <2>1, StreakDelays DEF Wakes, StreakInv
<1>6. ASSUME NEW backoff, NEW streak \in Nat \ {0},
             backoff = StreakDelay[streak], PanicsWith(t, backoff, streak)
      PROVE  StreakInv(t)'
  BY <1>6, StreakDelays DEF PanicsWith, StreakInv
<1>7. CASE Panics(t)
  <2>1. CASE PanicsWith(t, Initial, 1)
    BY <1>6, <2>1, StreakDelays
  <2>2. CASE PanicsWith(t, delay[t], row[t].consecutive + 1)
    <3>1. row[t].consecutive \in Nat /\ pc[t] = "running"
      BY <1>0, <2>2 DEF PanicsWith, PhaseInv, NoRow
    <3> QED
      BY <1>6, <2>2, <3>1 DEF StreakInv
  <2> QED
    BY <1>7, <2>1, <2>2 DEF Panics
<1> QED
  BY <1>1, <1>2, <1>3, <1>4, <1>5, <1>7 DEF StreakMoves

\* A step of a task leaves the others their delay and their row, except that
\* it may drop a Returned one.
LEMMA OthersKeep ==
  ASSUME IInv, NEW t \in Tasks, Loop(t) \/ Environment(t) \/ AbortLands(t),
         NEW u \in Tasks, u # t, StreakInv(u)
  PROVE  StreakInv(u)'
<1>0. /\ pc \in [Tasks -> PCs] /\ row \in [Tasks -> Rows \cup {NoRow}]
      /\ delay \in [Tasks -> Nat] /\ PhaseInv(u)
  BY DEF IInv, TypeOK
<1>1. pc'[u] = pc[u] /\ delay'[u] = delay[u]
  BY <1>0
  DEF Loop, Environment, AbortLands, Register, StartRun, CancelBetweenRuns,
      CancelMidRun, FinishAborted, RunReturned, RunPanicked, RunAborted,
      SleepElapsed, Leave, Spawn, Cancel, DropHandle, EndRun, Goto
<1>2. \/ row'[u] = row[u]
      \/ row[u].state = "Returned" /\ row'[u] = NoRow
  BY <1>0
  DEF Loop, Environment, AbortLands, Register, StartRun, CancelBetweenRuns,
      CancelMidRun, FinishAborted, RunReturned, RunPanicked, RunAborted,
      SleepElapsed, Leave, Spawn, Cancel, DropHandle, EndRun, Stopped,
      Returned, RunStarted, Panicked
<1>3. CASE row'[u] = row[u]
  BY <1>1, <1>3 DEF StreakInv
<1>4. CASE row[u].state = "Returned" /\ row'[u] = NoRow
  BY <1>0, <1>1, <1>4 DEF StreakInv, PhaseInv, NoRow, RestartingAfterPanic
<1> QED
  BY <1>2, <1>3, <1>4

\* The published streak and backoff agree for any number of panics, any delays
\* and any run of healthy and unhealthy ones.
THEOREM StreakIsBackoff == Spec => []StreakMatchesBackoff
<1>1. Init => StreaksAgree
  <2> SUFFICES ASSUME Init, NEW t \in Tasks PROVE StreakInv(t)
    BY DEF StreaksAgree
  <2>1. pc[t] = "unspawned" /\ delay[t] = Initial /\ row[t].state = "absent"
    BY DEF Init, NoRow
  <2> QED
    BY <2>1 DEF StreakInv
<1>2. IInv /\ StreaksAgree /\ [Next]_vars => StreaksAgree'
  <2>1. ASSUME StreaksAgree, UNCHANGED vars
        PROVE  StreaksAgree'
    BY <2>1 DEF vars, StreaksAgree, StreakInv
  <2>2. ASSUME IInv, StreaksAgree, NEW t \in Tasks,
               Loop(t) \/ Environment(t) \/ AbortLands(t), NEW u \in Tasks
        PROVE  StreakInv(u)'
    BY <2>2, LoopMoves, StreakFollows, OthersKeep DEF StreaksAgree
  <2> QED
    BY <2>1, <2>2 DEF Next, StreaksAgree
<1>3. StreaksAgree => StreakMatchesBackoff
  BY DEF StreaksAgree, StreakInv, StreakMatchesBackoff
<1> QED
  BY Inductive, <1>1, <1>2, <1>3, PTL DEF Spec
=============================================================================
