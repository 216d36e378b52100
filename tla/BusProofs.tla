------------------------------ MODULE BusProofs ------------------------------
(***************************************************************************)
(* Proofs about the two components of hytte-bus: SharedConnection, for any *)
(* set of operations and any bounds, and OwnName, for any peers, queue and *)
(* threshold.  They share no state.                                        *)
(*                                                                         *)
(* The inductive invariant follows one disconnect around its cycle.  While *)
(* the supervisor reopens, nothing is cached, nothing is left to notify    *)
(* and every connection so far was reported (Reopening).  From the install *)
(* on, either the connection is up, or one operation cleared it and has    *)
(* still to report or notify, or its permit is waiting (Serving).  The     *)
(* name's invariant is about the losses that are still unread.             *)
(***************************************************************************)
EXTENDS SharedConnection, OwnName, SequenceTheorems, TLAPS

AllReported == reported = 1..generation

NoNotifier == \A o \in Ops : ~Notifying(o)

Reopening ==
  /\ conn = None /\ ~permit /\ NoNotifier
  /\ AllReported

LinkUp ==
  /\ conn = generation /\ generation > 0 /\ ~permit /\ NoNotifier
  /\ reported = 1..(generation - 1)

BeingCleared ==
  /\ conn = None /\ ~permit /\ generation > 0
  /\ \E o \in Ops :
       /\ Notifying(o)
       /\ \A p \in Ops \ {o} : ~Notifying(p)
       /\ ranOn[o] = generation
       /\ op[o] = "cleared" => reported = 1..(generation - 1)
       /\ op[o] = "reported" => AllReported

WakeStored ==
  conn = None /\ permit /\ NoNotifier /\ AllReported /\ generation > 0

CycleInv ==
  /\ sup \in {"check", "opening", "sleeping"} => Reopening
  /\ sup \in {"installed", "bumped", "waiting"} =>
       LinkUp \/ BeingCleared \/ WakeStored

EpochInv ==
  /\ generation = IF sup = "installed" THEN epoch + 1 ELSE epoch
  /\ epoch = IF sup = "bumped" THEN signal + 1 ELSE signal

IInv == TypeOK /\ CycleInv /\ EpochInv

\* Reporting the newest loss completes the reports.
LEMMA ReportCompletes ==
  ASSUME NEW g \in Nat, g > 0
  PROVE  (1..(g - 1)) \cup {g} = 1..g
  OBVIOUS

\* The initial state satisfies the inductive invariant.
LEMMA InitIInv == Init => IInv
<1> SUFFICES ASSUME Init PROVE IInv
  OBVIOUS
<1>1. 1..0 = {}
  OBVIOUS
<1>2. TypeOK
  <2>1. 0 \in Generations /\ 0 \in 0..MaxAttempts
    BY ConnectionAssumption DEF Generations
  <2> QED
    BY <2>1 DEF Init, TypeOK, None
<1>3. CycleInv
  BY <1>1 DEF Init, CycleInv, Reopening, AllReported, NoNotifier, Notifying
<1>4. EpochInv
  BY DEF Init, EpochInv
<1> QED
  BY <1>2, <1>3, <1>4 DEF IInv

\* The steps of an operation that leave the connection's cycle alone.
LEMMA QuietSteps ==
  ASSUME IInv, NEW o \in Ops,
         Capture(o) \/ CallOnCachedProxy(o) \/ Succeed(o) \/ FailTransient(o)
  PROVE  IInv'
<1> USE DEF IInv, Move, supVars
<1>1. /\ UNCHANGED <<conn, generation, epoch, signal, permit, sup, attempt,
                     reported>>
      /\ op' \in [Ops -> {"idle", "running", "failed", "cleared", "reported"}]
      /\ ranOn' \in [Ops -> Generations]
      /\ \A p \in Ops : Notifying(p)' <=> Notifying(p)
      /\ \A p \in Ops : Notifying(p) =>
            op'[p] = op[p] /\ ranOn'[p] = ranOn[p]
  BY DEF Capture, CallOnCachedProxy, Succeed, FailTransient, TypeOK, Notifying
<1>2. TypeOK'
  BY <1>1 DEF TypeOK, Generations
<1>3. Reopening => Reopening'
  BY <1>1 DEF Reopening, NoNotifier, AllReported
<1>4. LinkUp => LinkUp'
  BY <1>1 DEF LinkUp, NoNotifier
<1>5. BeingCleared => BeingCleared'
  BY <1>1 DEF BeingCleared, AllReported
<1>6. WakeStored => WakeStored'
  BY <1>1 DEF WakeStored, NoNotifier, AllReported
<1>7. CycleInv' /\ EpochInv'
  BY <1>1, <1>3, <1>4, <1>5, <1>6 DEF CycleInv, EpochInv
<1> QED
  BY <1>2, <1>7

\* Invalidate: only a link that is up can be cleared, and its clearer becomes
\* the one operation with a loss to report.
LEMMA InvalidateStep ==
  ASSUME IInv, NEW o \in Ops, Invalidate(o)
  PROVE  IInv'
<1> USE DEF IInv, supVars
<1>0. TypeOK /\ CycleInv /\ EpochInv
  OBVIOUS
<1>1. CASE generation = ranOn[o] /\ conn # None
  <2>1. /\ conn' = None /\ op' = [op EXCEPT ![o] = "cleared"]
        /\ op[o] = "failed"
        /\ UNCHANGED <<permit, ranOn, reported, generation, epoch, signal, sup,
                       attempt>>
    BY <1>1 DEF Invalidate
  <2>2. sup \in {"installed", "bumped", "waiting"} /\ LinkUp
    BY <1>1 DEF TypeOK, CycleInv, Reopening, BeingCleared, WakeStored
  <2>3. BeingCleared'
    <3>1. \A p \in Ops \ {o} : ~Notifying(p)'
      BY <2>1, <2>2 DEF LinkUp, NoNotifier, Notifying, TypeOK
    <3>2. Notifying(o)' /\ op'[o] = "cleared"
      BY <2>1 DEF Notifying, TypeOK
    <3> QED
      BY <1>1, <2>1, <2>2, <3>1, <3>2 DEF LinkUp, BeingCleared
  <2>4. TypeOK'
    BY <2>1, ConnectionAssumption DEF TypeOK, Generations, None
  <2> QED
    BY <2>1, <2>2, <2>3, <2>4 DEF CycleInv, EpochInv
<1>2. CASE ~(generation = ranOn[o] /\ conn # None)
  <2>1. /\ op' = [op EXCEPT ![o] = "idle"] /\ op[o] = "failed"
        /\ UNCHANGED <<conn, permit, ranOn, reported, generation, epoch, signal,
                       sup, attempt>>
    BY <1>2 DEF Invalidate
  <2>2. /\ \A p \in Ops : Notifying(p)' <=> Notifying(p)
        /\ \A p \in Ops : Notifying(p) => op'[p] = op[p]
    BY <2>1 DEF Notifying, TypeOK
  <2>3. TypeOK'
    BY <2>1 DEF TypeOK, Generations
  <2>4. /\ Reopening => Reopening'
        /\ LinkUp => LinkUp'
        /\ BeingCleared => BeingCleared'
        /\ WakeStored => WakeStored'
    BY <2>1, <2>2 DEF Reopening, LinkUp, BeingCleared, WakeStored, NoNotifier,
                      AllReported
  <2> QED
    BY <2>1, <2>3, <2>4 DEF CycleInv, EpochInv
<1> QED
  BY <1>1, <1>2

\* Report and Notify: the one operation with a loss to report reports it, then
\* leaves the supervisor its wake-up.
LEMMA NotifierSteps ==
  ASSUME IInv, NEW o \in Ops, Report(o) \/ Notify(o)
  PROVE  IInv'
<1> USE DEF IInv, Move, supVars
<1>0. TypeOK /\ CycleInv /\ EpochInv
  OBVIOUS
<1>1. /\ Notifying(o)
      /\ sup \in {"installed", "bumped", "waiting"} /\ BeingCleared
  BY DEF Report, Notify, Notifying, TypeOK, CycleInv, Reopening, LinkUp,
         WakeStored, NoNotifier
<1>2. /\ conn = None /\ ~permit /\ generation > 0 /\ generation \in Nat
      /\ \A p \in Ops \ {o} : ~Notifying(p)
      /\ ranOn[o] = generation
      /\ op[o] = "cleared" => reported = 1..(generation - 1)
      /\ op[o] = "reported" => AllReported
  BY <1>1, ConnectionAssumption DEF BeingCleared, TypeOK, Generations
<1>3. CASE Report(o)
  <2>1. /\ op[o] = "cleared" /\ op' = [op EXCEPT ![o] = "reported"]
        /\ reported' = 1..generation
        /\ UNCHANGED <<conn, permit, ranOn, generation, epoch, signal, sup,
                       attempt>>
    BY <1>2, <1>3, ReportCompletes DEF Report
  <2>2. TypeOK'
    BY <2>1, ConnectionAssumption DEF TypeOK, Generations
  <2>3. BeingCleared'
    <3>1. Notifying(o)' /\ \A p \in Ops \ {o} : ~Notifying(p)'
      BY <1>2, <2>1 DEF Notifying, TypeOK
    <3>2. op'[o] = "reported" /\ AllReported'
      BY <2>1 DEF TypeOK, AllReported
    <3> QED
      BY <1>2, <2>1, <3>1, <3>2 DEF BeingCleared
  <2> QED
    BY <1>1, <2>1, <2>2, <2>3 DEF CycleInv, EpochInv
<1>4. CASE Notify(o)
  <2>1. /\ op[o] = "reported" /\ op' = [op EXCEPT ![o] = "idle"]
        /\ permit' = TRUE
        /\ UNCHANGED <<conn, ranOn, reported, generation, epoch, signal, sup,
                       attempt>>
    BY <1>4 DEF Notify
  <2>2. TypeOK'
    BY <2>1 DEF TypeOK, Generations
  <2>3. WakeStored'
    <3>1. NoNotifier'
      BY <1>2, <2>1 DEF NoNotifier, Notifying, TypeOK
    <3> QED
      BY <1>2, <2>1, <3>1 DEF WakeStored, AllReported
  <2> QED
    BY <1>1, <2>1, <2>2, <2>3 DEF CycleInv, EpochInv
<1> QED
  BY <1>3, <1>4

\* The supervisor's steps.
LEMMA SuperviseStep ==
  ASSUME IInv, Supervise
  PROVE  IInv'
<1> USE DEF IInv, SupMove, opVars
<1>0. TypeOK /\ CycleInv /\ EpochInv
  OBVIOUS
<1>1. (\A p \in Ops : Notifying(p)' <=> Notifying(p)) /\ UNCHANGED opVars
  BY DEF Supervise, Check, OpenFails, Slept, Install, BumpEpoch, Announce, Wake,
         Notifying
<1>2. CASE Check \/ OpenFails \/ Slept
  <2>1. Reopening
    BY <1>2 DEF Check, OpenFails, Slept, CycleInv
  <2>2. /\ UNCHANGED <<conn, generation, epoch, signal, permit>>
        /\ sup \in {"check", "opening", "sleeping"}
        /\ sup' \in {"check", "opening", "sleeping"}
        /\ attempt' \in 0..MaxAttempts
    BY <1>2, <2>1, ConnectionAssumption
    DEF Check, OpenFails, Slept, Reopening, TypeOK
  <2>3. TypeOK'
    BY <1>1, <2>2 DEF TypeOK, Generations
  <2>4. Reopening'
    BY <1>1, <2>1, <2>2 DEF Reopening, NoNotifier, AllReported
  <2> QED
    BY <2>2, <2>3, <2>4 DEF CycleInv, EpochInv
<1>3. CASE Install
  <2>1. /\ Reopening /\ generation < MaxGeneration
        /\ generation' = generation + 1 /\ conn' = generation + 1
        /\ sup = "opening" /\ sup' = "installed"
        /\ UNCHANGED <<epoch, signal, permit, attempt>>
        /\ generation \in Nat
    BY <1>3, ConnectionAssumption DEF Install, CycleInv, TypeOK, Generations
  <2>2. TypeOK'
    BY <1>1, <2>1, ConnectionAssumption DEF TypeOK, Generations
  <2>3. LinkUp'
    BY <1>1, <2>1 DEF LinkUp, Reopening, NoNotifier, AllReported
  <2> QED
    BY <2>1, <2>2, <2>3 DEF CycleInv, EpochInv
<1>4. CASE BumpEpoch \/ Announce
  <2>1. /\ UNCHANGED <<conn, generation, permit>>
        /\ sup \in {"installed", "bumped"} /\ sup' \in {"bumped", "waiting"}
    BY <1>4 DEF BumpEpoch, Announce
  <2>2. EpochInv'
    BY <1>4, ConnectionAssumption
    DEF BumpEpoch, Announce, EpochInv, TypeOK, Generations
  <2>3. TypeOK'
    <3>1. /\ epoch' \in Generations /\ signal' \in Generations
          /\ attempt' \in 0..MaxAttempts
      BY <1>4, ConnectionAssumption
      DEF BumpEpoch, Announce, EpochInv, TypeOK, Generations
    <3> QED
      BY <1>1, <2>1, <3>1 DEF TypeOK, Generations
  <2>4. /\ LinkUp => LinkUp'
        /\ BeingCleared => BeingCleared'
        /\ WakeStored => WakeStored'
    BY <1>1, <2>1 DEF LinkUp, BeingCleared, WakeStored, NoNotifier, AllReported
  <2> QED
    BY <2>1, <2>2, <2>3, <2>4 DEF CycleInv
<1>5. CASE Wake
  <2>1. /\ UNCHANGED <<conn, generation, epoch, signal, attempt>>
        /\ permit /\ permit' = FALSE
        /\ sup = "waiting" /\ sup' = "check"
    BY <1>5 DEF Wake
  <2>2. TypeOK'
    BY <1>1, <2>1 DEF TypeOK, Generations
  <2>3. Reopening'
    BY <1>1, <2>1
    DEF CycleInv, LinkUp, BeingCleared, WakeStored, Reopening, NoNotifier,
        AllReported
  <2> QED
    BY <2>1, <2>2, <2>3 DEF CycleInv, EpochInv
<1> QED
  BY <1>2, <1>3, <1>4, <1>5 DEF Supervise

\* No step breaks the inductive invariant.
LEMMA StepIInv == IInv /\ [Next]_vars => IInv'
<1>1. ASSUME IInv, UNCHANGED vars
      PROVE  IInv'
  BY <1>1
  DEF vars, IInv, TypeOK, Generations, CycleInv, EpochInv, Reopening, LinkUp,
      BeingCleared, WakeStored, NoNotifier, AllReported, Notifying
<1> QED
  BY <1>1, QuietSteps, InvalidateStep, NotifierSteps, SuperviseStep
  DEF Next, Operation

\* The disconnect cycle is invariant.
THEOREM Inductive == Spec => []IInv
  BY InitIInv, StepIInv, PTL DEF Spec

\* Every reachable state is well typed.
THEOREM TypeCorrect == Spec => []TypeOK
<1>1. IInv => TypeOK
  BY DEF IInv
<1> QED
  BY Inductive, <1>1, PTL

\* A lost connection is always on its way to the supervisor: no wake-up is
\* lost, however many operations fail at once and wherever the loop is.
THEOREM NoLostWake == Spec => []LossReachesSupervisor
<1>1. IInv => LossReachesSupervisor
  BY DEF IInv, TypeOK, Generations, CycleInv, LinkUp, BeingCleared, WakeStored,
         LossReachesSupervisor, None
<1> QED
  BY Inductive, <1>1, PTL

\* One disconnect costs one report and one wake-up.
THEOREM OneWake == Spec => []OneWakePerLoss
<1>1. IInv => OneWakePerLoss
  <2> SUFFICES ASSUME IInv PROVE OneWakePerLoss
    OBVIOUS
  <2>1. TypeOK /\ CycleInv
    BY DEF IInv
  <2>2. \/ NoNotifier
        \/ BeingCleared /\ sup \in {"installed", "bumped", "waiting"}
    BY <2>1 DEF TypeOK, CycleInv, Reopening, LinkUp, WakeStored
  <2>3. sup = "check" => conn = None
    BY <2>1 DEF CycleInv, Reopening
  <2>4. \A o, p \in Ops : Notifying(o) /\ Notifying(p) => o = p
    BY <2>2 DEF NoNotifier, BeingCleared
  <2>5. permit => NoNotifier
    BY <2>2 DEF BeingCleared
  <2> QED
    BY <2>3, <2>4, <2>5 DEF OneWakePerLoss, NoNotifier
<1> QED
  BY Inductive, <1>1, PTL

\* A reconnect is announced only after every earlier loss was reported.
THEOREM RetractionOrdered == Spec => []RetractionFollowsReport
<1>1. IInv => RetractionFollowsReport
  <2> SUFFICES ASSUME IInv, sup \in {"installed", "bumped"},
                      NEW g \in 1..(generation - 1)
               PROVE  g \in reported
    BY DEF RetractionFollowsReport
  <2>1. generation \in Nat
    BY ConnectionAssumption DEF IInv, TypeOK, Generations
  <2>2. LinkUp \/ WakeStored \/ BeingCleared
    BY DEF IInv, CycleInv
  <2>3. reported = 1..(generation - 1) \/ reported = 1..generation
    BY <2>2 DEF LinkUp, WakeStored, BeingCleared, AllReported, Notifying
  <2> QED
    BY <2>1, <2>3
<1> QED
  BY Inductive, <1>1, PTL

\* The epoch trails the generation by at most the install in progress.
THEOREM EpochOrdered == Spec => []EpochTrails
<1>1. IInv => EpochTrails
  BY ConnectionAssumption
  DEF IInv, TypeOK, Generations, CycleInv, EpochInv, Reopening, LinkUp,
      BeingCleared, WakeStored, EpochTrails
<1> QED
  BY Inductive, <1>1, PTL

\* A late failure never clears a connection its operation did not run on.
THEOREM OwnConnectionOnly == Spec => OnlyOwnConnectionIsCleared
<1>1. ASSUME IInv, [Next]_vars, NEW o \in Ops,
             op[o] = "failed", op'[o] = "cleared"
      PROVE  conn = ranOn[o] /\ conn' = None
  <2>1. PICK p \in Ops : Operation(p)
    BY <1>1 DEF Next, vars, Supervise, Check, OpenFails, Slept, Install,
                BumpEpoch, Announce, Wake, opVars
  <2>2. Invalidate(o) /\ generation = ranOn[o] /\ conn # None
    BY <1>1, <2>1 DEF Operation, Capture, CallOnCachedProxy, Succeed,
       FailTransient, Invalidate, Report, Notify, Move, IInv, TypeOK
  <2>3. conn = generation
    BY <1>1, <2>2 DEF IInv, TypeOK, CycleInv, Reopening, LinkUp, BeingCleared,
                      WakeStored
  <2> QED
    BY <2>2, <2>3 DEF Invalidate
<1>2. IInv /\ [Next]_vars =>
        [\A o \in Ops : op[o] = "failed" /\ op'[o] = "cleared" =>
           conn = ranOn[o] /\ conn' = None]_vars
  BY <1>1
<1> QED
  BY Inductive, <1>2, PTL DEF Spec, OnlyOwnConnectionIsCleared

Losses == reported \cup {ranOn[o] : o \in {p \in Ops : op[p] = "cleared"}}

\* Every step is a step of the abstract link, or a stutter.
LEMMA StepRefines ==
  ASSUME IInv, [Next]_vars
  PROVE  [Link!Next]_(Link!vars)
<1> USE DEF Link!vars
<1>0. TypeOK /\ CycleInv
  BY DEF IInv
<1>1. CASE UNCHANGED vars
  BY <1>1 DEF vars
<1>2. CASE Supervise
  <2>1. UNCHANGED opVars
    BY <1>2 DEF Supervise, Check, OpenFails, Slept, Install, BumpEpoch,
                Announce, Wake
  <2>2. Losses' = Losses
    BY <2>1 DEF Losses, opVars
  <2>3. CASE Install
    <3>1. Reopening
      BY <2>3 DEF Install, SupMove, IInv, CycleInv
    <3>2. Losses = 1..generation
      BY <3>1 DEF Losses, Reopening, NoNotifier, Notifying, AllReported
    <3> QED
      BY <2>2, <2>3, <3>1, <3>2
      DEF Install, Reopening, None, Losses, Link!Next, Link!Up
  <2>4. CASE UNCHANGED <<conn, generation>>
    BY <2>2, <2>4 DEF Losses
  <2> QED
    BY <1>2, <2>3, <2>4
    DEF Supervise, Check, OpenFails, Slept, BumpEpoch, Announce, Wake
<1>3. ASSUME NEW o \in Ops, Operation(o)
      PROVE  [Link!Next]_(Link!vars)
  <2>1. UNCHANGED generation
    BY <1>3 DEF Operation, Capture, CallOnCachedProxy, Succeed, FailTransient,
                Invalidate, Report, Notify, supVars
  <2>2. CASE Invalidate(o) /\ generation = ranOn[o] /\ conn # None
    <3>1. conn = generation
      BY <1>0, <2>2 DEF TypeOK, CycleInv, Reopening, LinkUp, BeingCleared,
                        WakeStored
    <3>2. Losses' = Losses \cup {ranOn[o]}
      BY <1>0, <2>2 DEF Invalidate, Losses, TypeOK
    <3>3. conn' = None
      BY <2>2 DEF Invalidate
    <3> QED
      BY <2>1, <2>2, <3>1, <3>2, <3>3 DEF Losses, None, Link!Next, Link!Lose
  <2>3. CASE Report(o)
    <3>1. Losses' = Losses
      BY <1>0, <2>3 DEF Report, Move, Losses, TypeOK
    <3> QED
      BY <2>1, <2>3, <3>1 DEF Report, Losses
  <2>4. CASE \/ Capture(o) \/ CallOnCachedProxy(o) \/ Succeed(o)
             \/ FailTransient(o) \/ Notify(o)
             \/ Invalidate(o) /\ ~(generation = ranOn[o] /\ conn # None)
    <3>1. /\ UNCHANGED <<conn, reported>>
          /\ op[o] # "cleared" /\ op'[o] # "cleared"
          /\ \A p \in Ops \ {o} : op'[p] = op[p] /\ ranOn'[p] = ranOn[p]
      BY <1>0, <2>4 DEF Capture, CallOnCachedProxy, Succeed, FailTransient,
                        Notify, Invalidate, Move, TypeOK
    <3>2. Losses' = Losses
      BY <3>1 DEF Losses
    <3> QED
      BY <2>1, <3>1, <3>2 DEF Losses
  <2> QED
    BY <1>3, <2>2, <2>3, <2>4 DEF Operation
<1> QED
  BY <1>1, <1>2, <1>3 DEF Next

\* The shared connection implements the abstract link.
THEOREM Refinement == Spec => ImplementsBusLink
<1>1. Init => Link!Init
  BY DEF Init, Link!Init, None
<1>2. IInv /\ [Next]_vars => [Link!Next]_(Link!vars)
  BY StepRefines
<1> QED
  BY Inductive, <1>1, <1>2, PTL DEF Spec, ImplementsBusLink, Link!Spec

-----------------------------------------------------------------------------
(* The name.  While the task claims it, by the broker's answer or by its   *)
(* own state, at most one loss is unread, and on a live connection one is  *)
(* unread exactly when the name is gone (LossIsTrue).  While it does not   *)
(* claim it, we are not the owner and no loss of ours is left to read: the *)
(* answer that starts a claim always finds the stream without one.         *)

\* The broker has made us the owner, as far as the task has or will be told.
Claims == pc = "held" \/ (pc = "asked" /\ reply = "owner")

Unread == 1..Len(signals)

\* An unread signal that we lost the name.
IsLoss(i) == signals[i].old = Us

NoLoss == \A i \in Unread : ~IsLoss(i)

OursIsClaimed == owner = Us => up /\ Claims

LossIsTrue ==
  IF Claims
  THEN /\ \A i, j \in Unread : IsLoss(i) /\ IsLoss(j) => i = j
       /\ up => (owner = Us <=> NoLoss)
  ELSE NoLoss

\* A signal is a change: the name never passes to the one who has it.
ChangesOnly == \A i \in Unread : signals[i].old # signals[i].new

NameIInv == NameTypeOK /\ ChangesOnly /\ OursIsClaimed /\ LossIsTrue

Signal == [old : Names, new : Names]

\* What a step does to the unread signals.
StreamRests == UNCHANGED signals /\ arrived' \in {arrived, arrived + 1}

StreamGrows ==
  /\ \E new \in Names \ {owner} :
       signals' = Append(signals, [old |-> owner, new |-> new])
  /\ UNCHANGED arrived

StreamIsCut == signals' = SubSeq(signals, 1, arrived) /\ UNCHANGED arrived

StreamIsRead == \E n \in 1..arrived : Consume(n)

\* The new signal is the last one and the others stay where they are.
LEMMA GrownStream ==
  ASSUME NameTypeOK, NEW new \in Names,
         signals' = Append(signals, [old |-> owner, new |-> new])
  PROVE  /\ signals' \in Seq(Signal)
         /\ Len(signals') = Len(signals) + 1
         /\ \A i \in Unread : signals'[i] = signals[i]
         /\ signals'[Len(signals) + 1] = [old |-> owner, new |-> new]
<1>1. signals \in Seq(Signal) /\ [old |-> owner, new |-> new] \in Signal
  BY DEF NameTypeOK, Signal
<1> QED
  BY <1>1, AppendProperties DEF Unread

\* What is left of a cut stream is its beginning.
LEMMA CutStream ==
  ASSUME NameTypeOK, StreamIsCut
  PROVE  /\ signals' \in Seq(Signal)
         /\ Len(signals') = arrived
         /\ \A i \in 1..arrived : i \in Unread /\ signals'[i] = signals[i]
<1>1. signals \in Seq(Signal) /\ arrived \in 0..Len(signals)
      /\ Len(signals) \in Nat
  BY LenProperties DEF NameTypeOK, Signal
<1>2. SubSeq(signals, 1, arrived) \in Seq(Signal)
      /\ Len(SubSeq(signals, 1, arrived)) = arrived
      /\ \A i \in 1..arrived : SubSeq(signals, 1, arrived)[i] = signals[i]
  BY <1>1, SubSeqProperties
<1> QED
  BY <1>1, <1>2 DEF StreamIsCut, Unread

\* What is left after n signals have been read.
LEMMA ReadStream ==
  ASSUME NameTypeOK, NEW n \in 1..arrived, Consume(n)
  PROVE  /\ signals' \in Seq(Signal)
         /\ Len(signals') = Len(signals) - n
         /\ \A i \in 1..(Len(signals) - n) :
              i + n \in Unread /\ signals'[i] = signals[i + n]
<1>1. signals \in Seq(Signal) /\ arrived \in 0..Len(signals)
      /\ Len(signals) \in Nat
  BY LenProperties DEF NameTypeOK, Signal
<1> DEFINE rest == SubSeq(signals, n + 1, Len(signals))
<1>2. rest \in Seq(Signal)
      /\ Len(rest) = Len(signals) - n
      /\ \A i \in 1..(Len(signals) - n) : rest[i] = signals[i + n]
  BY <1>1, SubSeqProperties
<1> QED
  BY <1>1, <1>2 DEF Consume, Unread

StreamType ==
  /\ signals \in Seq(Signal)
  /\ arrived \in 0..Len(signals) /\ arrived <= MaxQueued

\* Every step does one of five things to the stream.
LEMMA StreamSteps ==
  ASSUME NameIInv, NameNext
  PROVE  \/ StreamRests /\ arrived' <= MaxQueued /\ arrived' <= Len(signals')
         \/ StreamGrows
         \/ StreamIsCut
         \/ StreamIsRead
         \/ DropStream
<1>0. arrived \in Nat /\ arrived <= MaxQueued /\ arrived <= Len(signals)
      /\ Len(signals) \in Nat
  BY LenProperties DEF NameIInv, NameTypeOK
<1>1. ASSUME NEW new \in Names, Pass(new), UNCHANGED arrived
      PROVE  \/ StreamRests /\ arrived' <= MaxQueued /\ arrived' <= Len(signals')
             \/ StreamGrows
  BY <1>0, <1>1 DEF Pass, StreamRests, StreamGrows
<1>2. CASE Environment
  <2>1. CASE \E p \in Peers : PeerTakes(p)
    BY <1>1, <2>1 DEF PeerTakes, Names
  <2>2. CASE PeerReleases
    BY <1>1, <2>2 DEF PeerReleases, Names
  <2>3. CASE Deliver
    <3>1. signals' = signals /\ arrived' = arrived + 1 /\ arrived < Len(signals)
          /\ arrived < MaxQueued
      BY <2>3 DEF Deliver
    <3>2. arrived' <= MaxQueued /\ arrived' <= Len(signals')
      BY <1>0, <3>1, OwnNameAssumption
    <3> QED
      BY <3>1, <3>2 DEF StreamRests
  <2>4. CASE Die
    BY <2>4 DEF Die, StreamIsCut
  <2> QED
    BY <1>2, <2>1, <2>2, <2>3, <2>4 DEF Environment
<1>3. CASE Ask
  <2>1. CASE Pass(Us)
    BY <1>1, <1>3, <2>1 DEF Ask, Names
  <2>2. CASE UNCHANGED signals
    BY <1>0, <1>3, <2>2 DEF Ask, StreamRests
  <2> QED
    BY <1>3, <2>1, <2>2 DEF Ask
<1>4. CASE \/ Connect \/ ConnectFails \/ SleepEnds \/ AskRefused \/ ReplyExists
           \/ Lookup \/ ReplyHolder \/ LookupLost \/ RetryEnds \/ ReplyOwner
  BY <1>0, <1>4
  DEF Connect, ConnectFails, SleepEnds, AskRefused, ReplyExists, Lookup,
      ReplyHolder, LookupLost, RefusedBy, RetryEnds, ReplyOwner, streamVars,
      StreamRests
<1>5. CASE \/ AskFails \/ AskLost \/ ReplyError \/ ReplyDenied \/ HeldEnds
           \/ Cooldown
  BY <1>5
  DEF AskFails, AskLost, ReplyError, ReplyDenied, HeldEnds, Cooldown, BackOff,
      Reconnect
<1>6. CASE RetryDrains \/ StepOver \/ Displaced \/ Fold
  BY <1>0, <1>6 DEF RetryDrains, StepOver, Displaced, Fold, StreamIsRead
<1> QED
  BY <1>2, <1>3, <1>4, <1>5, <1>6 DEF NameNext, Task

\* The stream stays a sequence of changes, as far as it has arrived.
LEMMA StreamKeeps ==
  ASSUME NameIInv, NameNext
  PROVE  StreamType' /\ ChangesOnly'
<1>0. /\ StreamType /\ ChangesOnly /\ arrived \in Nat /\ Len(signals) \in Nat
      /\ NameTypeOK
  BY LenProperties DEF NameIInv, NameTypeOK, StreamType, Signal
<1>1. CASE StreamRests /\ arrived' <= MaxQueued /\ arrived' <= Len(signals')
  BY <1>0, <1>1 DEF StreamRests, StreamType, ChangesOnly, Unread
<1>2. CASE StreamGrows
  <2>1. PICK new \in Names \ {owner} :
          signals' = Append(signals, [old |-> owner, new |-> new])
    BY <1>2 DEF StreamGrows
  <2>2. /\ signals' \in Seq(Signal) /\ Len(signals') = Len(signals) + 1
        /\ \A i \in Unread : signals'[i] = signals[i]
        /\ signals'[Len(signals) + 1] = [old |-> owner, new |-> new]
    BY <1>0, <2>1, GrownStream
  <2>3. ChangesOnly'
    <3> SUFFICES ASSUME NEW i \in 1..(Len(signals) + 1)
                 PROVE  signals'[i].old # signals'[i].new
      BY <2>2 DEF ChangesOnly, Unread
    <3> QED
      BY <1>0, <2>1, <2>2 DEF ChangesOnly, Unread
  <2> QED
    BY <1>0, <1>2, <2>2, <2>3 DEF StreamGrows, StreamType
<1>3. CASE StreamIsCut
  BY <1>0, <1>3, CutStream DEF StreamIsCut, StreamType, ChangesOnly, Unread
<1>4. CASE StreamIsRead
  <2>1. PICK n \in 1..arrived : Consume(n)
    BY <1>4 DEF StreamIsRead
  <2>2. /\ signals' \in Seq(Signal) /\ Len(signals') = Len(signals) - n
        /\ \A i \in 1..(Len(signals) - n) :
             i + n \in Unread /\ signals'[i] = signals[i + n]
        /\ arrived' = arrived - n
    BY <1>0, <2>1, ReadStream DEF Consume
  <2>3. ChangesOnly'
    BY <1>0, <2>2 DEF ChangesOnly, Unread
  <2>4. StreamType'
    BY <1>0, <2>2, OwnNameAssumption DEF StreamType
  <2> QED
    BY <2>3, <2>4
<1>5. CASE DropStream
  BY <1>5, EmptySeq, OwnNameAssumption
  DEF DropStream, StreamType, ChangesOnly, Unread
<1> QED
  BY <1>1, <1>2, <1>3, <1>4, <1>5, StreamSteps

TaskType ==
  /\ pc \in {"connect", "down", "ask", "asked", "lookup", "looking", "held",
             "retry", "waiting", "backoff", "denied"}
  /\ state \in {"Acquiring", "Owned", "Lost", "PermanentlyTaken", "Denied"}

CallType ==
  /\ reply \in {"none", "owner", "exists", "denied", "error", Nobody} \cup Peers
  /\ before \in Nat

TallyType == tally \in [holder : Peers \cup {Nobody}, count : 0..MaxTally]

\* A loss that names a peer, or nobody, leaves a tally.
LEMMA LossIsTallied ==
  ASSUME TallyType, NEW holder \in Peers \cup {Nobody}
  PROVE  RecordLoss(holder) \in [holder : Peers \cup {Nobody}, count : 0..MaxTally]
  BY OwnNameAssumption DEF TallyType, RecordLoss

\* Typing.
LEMMA NameTypeStep ==
  ASSUME NameIInv, NameNext
  PROVE  NameTypeOK'
<1>0. /\ StreamType /\ TaskType /\ CallType /\ TallyType
      /\ owner \in Names /\ up \in BOOLEAN
      /\ Len(signals) \in Nat
  BY LenProperties
  DEF NameIInv, NameTypeOK, StreamType, TaskType, CallType, TallyType, Signal
<1>1. owner' \in Names /\ up' \in BOOLEAN
  BY <1>0
  DEF NameNext, Environment, Task, PeerTakes, PeerReleases, Deliver, Die, Pass,
      Connect, ConnectFails, SleepEnds, Ask, AskRefused, AskFails, AskLost,
      ReplyError, ReplyDenied, ReplyExists, Lookup, ReplyHolder, LookupLost,
      RetryDrains, RetryEnds, ReplyOwner, StepOver, Displaced, HeldEnds, Fold,
      Cooldown, BackOff, Reconnect, RefusedBy, brokerVars, Names
<1>2. TaskType'
  BY <1>0
  DEF NameNext, Environment, Task, PeerTakes, PeerReleases, Deliver, Die, Pass,
      Connect, ConnectFails, SleepEnds, Ask, AskRefused, AskFails, AskLost,
      ReplyError, ReplyDenied, ReplyExists, Lookup, ReplyHolder, LookupLost,
      RetryDrains, RetryEnds, ReplyOwner, StepOver, Displaced, HeldEnds, Fold,
      Cooldown, BackOff, Reconnect, RefusedBy, Lose, taskVars, TaskType
<1>3. CallType'
  <2>1. pc = "lookup" => owner \in Peers \cup {Nobody}
    BY <1>0 DEF NameIInv, OursIsClaimed, Claims, Names
  <2> QED
    BY <1>0, <2>1
    DEF NameNext, Environment, Task, PeerTakes, PeerReleases, Deliver, Die,
        Connect, ConnectFails, SleepEnds, Ask, AskRefused, AskFails, AskLost,
        ReplyError, ReplyDenied, ReplyExists, Lookup, ReplyHolder, LookupLost,
        RetryDrains, RetryEnds, ReplyOwner, StepOver, Displaced, HeldEnds,
        Fold, Cooldown, BackOff, Reconnect, RefusedBy, DropReply, Answer,
        callVars, CallType
<1>4. TallyType'
  <2>1. ASSUME StreamType, arrived > 0, Head(signals).old = Us, ChangesOnly
        PROVE  Head(signals).new \in Peers \cup {Nobody}
    <3>1. Head(signals) = signals[1] /\ signals[1] \in Signal /\ 1 \in Unread
      BY <1>0, <2>1, HeadTailProperties, ElementOfSeq DEF StreamType, Unread
    <3> QED
      BY <2>1, <3>1 DEF ChangesOnly, Signal, Names
  <2>2. CASE Displaced
    BY <1>0, <2>1, <2>2, LossIsTallied DEF Displaced, Lose, NameIInv, TallyType
  <2>3. CASE ReplyHolder \/ LookupLost
    BY <1>0, <2>3, LossIsTallied
    DEF ReplyHolder, LookupLost, RefusedBy, Lose, TallyType
  <2>4. CASE HeldEnds
    BY <2>4, OwnNameAssumption DEF HeldEnds, NoLosses, TallyType
  <2>5. ASSUME ~Displaced, ~ReplyHolder, ~LookupLost, ~HeldEnds
        PROVE  UNCHANGED tally
    BY <2>5
    DEF NameNext, Environment, Task, PeerTakes, PeerReleases, Deliver, Die,
        Connect, ConnectFails, SleepEnds, Ask, AskRefused, AskFails, AskLost,
        ReplyError, ReplyDenied, ReplyExists, Lookup, RetryDrains, RetryEnds,
        ReplyOwner, StepOver, Fold, Cooldown, BackOff, taskVars
  <2> QED
    BY <1>0, <2>2, <2>3, <2>4, <2>5 DEF TallyType
<1>5. StreamType'
  BY StreamKeeps
<1> QED
  BY <1>1, <1>2, <1>3, <1>4, <1>5
  DEF NameTypeOK, StreamType, TaskType, CallType, TallyType, Signal

\* What a step does to the claim.
Unmoved == UNCHANGED owner /\ (up' <=> up) /\ (Claims' <=> Claims)

\* The name passes from one to another, while the task is where it was.
PassesBy ==
  /\ \E new \in Peers \cup {Nobody} : new # owner /\ Pass(new)
  /\ (up' <=> up) /\ (Claims' <=> Claims)

Wins == up /\ up' /\ Subscribed /\ ~Claims /\ Claims' /\ Pass(Us)

Unclaimed ==
  /\ ~Claims /\ ~Claims' /\ UNCHANGED owner
  /\ UNCHANGED signals \/ DropStream \/ StreamIsRead

Yields ==
  /\ Claims /\ ~Claims' /\ UNCHANGED owner
  /\ arrived > 0 /\ IsLoss(1) /\ Consume(1)

Severed == ~up /\ ~Claims' /\ UNCHANGED owner /\ DropStream

ClaimMoves ==
  \/ Unmoved /\ UNCHANGED signals
  \/ PassesBy
  \/ Die /\ (Claims' <=> Claims)
  \/ Wins
  \/ Unclaimed
  \/ Yields
  \/ Severed
  \/ Unmoved /\ arrived > 0 /\ ~IsLoss(1) /\ Consume(1)

\* Every step is one of those.
LEMMA NameMoves ==
  ASSUME NameIInv, NameNext
  PROVE  ClaimMoves
<1>0. /\ up \in BOOLEAN /\ pc = "asked" /\ reply = "error" => ~Claims
      /\ pc \notin {"held", "asked"} => ~Claims
  BY DEF Claims, NameIInv, NameTypeOK
<1>1. ASSUME Environment
      PROVE  (Claims' <=> Claims)
  BY <1>1 DEF Environment, PeerTakes, PeerReleases, Deliver, Die, Claims,
              callVars, taskVars
<1>2. CASE \E p \in Peers : PeerTakes(p)
  <2>1. PassesBy
    BY <1>1, <1>2 DEF PeerTakes, PassesBy, Environment
  <2> QED
    BY <2>1 DEF ClaimMoves
<1>3. CASE PeerReleases
  <2>1. PassesBy
    BY <1>1, <1>3, NamesAssumption DEF PeerReleases, PassesBy, Environment
  <2> QED
    BY <2>1 DEF ClaimMoves
<1>4. CASE Deliver
  BY <1>1, <1>4 DEF Deliver, Unmoved, ClaimMoves, Environment, brokerVars
<1>5. CASE Die
  BY <1>1, <1>5 DEF ClaimMoves, Environment
<1>6. CASE Ask
  <2>1. Subscribed /\ up /\ up' /\ ~Claims
    BY <1>6 DEF Ask, Subscribed, Claims
  <2>2. CASE Pass(Us) /\ Answer("owner")
    <3>1. Claims'
      BY <1>6, <2>2 DEF Ask, Answer, Claims
    <3> QED
      BY <2>1, <2>2, <3>1 DEF Wins, ClaimMoves
  <2>3. CASE Answer("exists") /\ UNCHANGED <<owner, signals>>
    <3>1. ~Claims'
      BY <1>6, <2>3 DEF Ask, Answer, Claims
    <3> QED
      BY <2>1, <2>3, <3>1 DEF Unclaimed, ClaimMoves
  <2> QED
    BY <1>6, <2>2, <2>3 DEF Ask
<1>7. CASE \/ Connect \/ ConnectFails \/ SleepEnds \/ AskRefused \/ ReplyExists
           \/ Lookup \/ ReplyHolder \/ LookupLost \/ RetryEnds \/ AskFails
           \/ ReplyError \/ ReplyDenied \/ Cooldown
  <2>1. ~Claims /\ UNCHANGED owner
    BY <1>7
    DEF Connect, ConnectFails, SleepEnds, AskRefused, ReplyExists, Lookup,
        ReplyHolder, LookupLost, RefusedBy, RetryEnds, AskFails, ReplyError,
        ReplyDenied, Cooldown, BackOff, Received, Claims, brokerVars
  <2>2. ~Claims'
    BY <1>7
    DEF Connect, ConnectFails, SleepEnds, AskRefused, ReplyExists, Lookup,
        ReplyHolder, LookupLost, RefusedBy, Lose, RetryEnds, AskFails,
        ReplyError, ReplyDenied, Cooldown, BackOff, Reconnect, Answer, Claims
  <2>3. UNCHANGED signals \/ DropStream
    BY <1>7
    DEF Connect, ConnectFails, SleepEnds, AskRefused, ReplyExists, Lookup,
        ReplyHolder, LookupLost, RefusedBy, RetryEnds, AskFails, ReplyError,
        ReplyDenied, Cooldown, BackOff, Reconnect, streamVars
  <2> QED
    BY <2>1, <2>2, <2>3 DEF Unclaimed, ClaimMoves
<1>8. CASE AskLost \/ HeldEnds
  <2>1. ~up /\ ~Claims' /\ UNCHANGED owner /\ DropStream
    BY <1>8 DEF AskLost, HeldEnds, BackOff, Reconnect, Claims, brokerVars
  <2> QED
    BY <2>1 DEF Severed, ClaimMoves
<1>9. CASE RetryDrains \/ Fold
  <2>1. ~Claims /\ ~Claims' /\ UNCHANGED owner
    BY <1>9 DEF RetryDrains, Fold, Claims, brokerVars, taskVars
  <2>2. StreamIsRead
    BY <1>9 DEF RetryDrains, Fold, StreamIsRead, NameIInv, NameTypeOK
  <2> QED
    BY <2>1, <2>2 DEF Unclaimed, ClaimMoves
<1>10. CASE ReplyOwner
  BY <1>10 DEF ReplyOwner, Received, Claims, brokerVars, streamVars, Unmoved,
               ClaimMoves
<1>11. ASSUME arrived > 0
       PROVE  Head(signals) = signals[1]
  BY <1>11, HeadTailProperties, EmptySeq, LenProperties DEF NameIInv, NameTypeOK
<1>12. CASE StepOver
  <2>1. Unmoved
    BY <1>12 DEF StepOver, Claims, brokerVars, callVars, taskVars, Unmoved
  <2> QED
    BY <1>11, <1>12, <2>1 DEF StepOver, IsLoss, ClaimMoves
<1>13. CASE Displaced
  <2>1. Claims /\ ~Claims' /\ UNCHANGED owner
    BY <1>13 DEF Displaced, Lose, Claims, brokerVars
  <2> QED
    BY <1>11, <1>13, <2>1 DEF Displaced, IsLoss, Yields, ClaimMoves
<1> QED
  BY <1>2, <1>3, <1>4, <1>5, <1>6, <1>7, <1>8, <1>9, <1>10, <1>12, <1>13
  DEF NameNext, Environment, Task

\* A claim that goes on, or none: the stream grows, is cut or is read.
LEMMA LossIsTrueStep ==
  ASSUME NameIInv, NameNext
  PROVE  LossIsTrue'
<1>0. /\ NameTypeOK /\ LossIsTrue /\ OursIsClaimed
      /\ Len(signals) \in Nat /\ arrived \in 0..Len(signals)
      /\ owner \in Names /\ up \in BOOLEAN
  BY LenProperties DEF NameIInv, NameTypeOK
<1> DEFINE one == \A i, j \in Unread : IsLoss(i) /\ IsLoss(j) => i = j
<1>1. /\ Claims => one /\ (up => (owner = Us <=> NoLoss))
      /\ ~Claims => NoLoss /\ owner # Us
      /\ NoLoss => one
      /\ ~up => owner # Us
  BY <1>0 DEF LossIsTrue, OursIsClaimed, NoLoss
<1>2. ASSUME one', Claims' => (up' => (owner' = Us <=> NoLoss')),
             ~Claims' => NoLoss'
      PROVE  LossIsTrue'
  BY <1>2 DEF LossIsTrue
<1> HIDE DEF one
<1>3. CASE Unmoved /\ UNCHANGED signals
  <2>1. (one' <=> one) /\ (NoLoss' <=> NoLoss)
    BY <1>3 DEF one, NoLoss, IsLoss, Unread
  <2> QED
    BY <1>1, <1>2, <1>3, <2>1 DEF Unmoved
<1>4. ASSUME NEW new \in Names, Subscribed, up,
             signals' = Append(signals, [old |-> owner, new |-> new])
      PROVE  /\ owner # Us => (NoLoss' <=> NoLoss) /\ (one => one')
             /\ owner = Us /\ NoLoss => ~NoLoss' /\ one'
  <2>1. /\ Len(signals') = Len(signals) + 1
        /\ \A i \in Unread : signals'[i] = signals[i]
        /\ signals'[Len(signals) + 1] = [old |-> owner, new |-> new]
    BY <1>0, <1>4, GrownStream
  <2>2. Unread' = Unread \cup {Len(signals) + 1} /\ Len(signals) + 1 \notin Unread
    BY <1>0, <2>1 DEF Unread
  <2>3. /\ \A i \in Unread : signals'[i].old = signals[i].old
        /\ signals'[Len(signals) + 1].old = owner
    BY <2>1
  <2> QED
    BY <2>2, <2>3 DEF NoLoss, one, IsLoss
<1>5. CASE PassesBy
  <2>1. PICK new \in Peers \cup {Nobody} : new # owner /\ Pass(new)
    BY <1>5 DEF PassesBy
  <2>2. new \in Names /\ new # Us /\ owner' = new
    BY <2>1, NamesAssumption DEF Names, Pass
  <2>3. CASE Subscribed /\ up
    <3>1. signals' = Append(signals, [old |-> owner, new |-> new])
      BY <2>1, <2>3 DEF Pass
    <3> QED
      BY <1>1, <1>2, <1>4, <1>5, <2>2, <2>3, <3>1 DEF PassesBy
  <2>4. CASE ~(Subscribed /\ up)
    <3>1. owner # Us
      BY <1>1, <2>4 DEF Claims, Subscribed, OursIsClaimed, NameIInv
    <3>2. UNCHANGED signals
      BY <2>1, <2>4 DEF Pass
    <3>3. (one' <=> one) /\ (NoLoss' <=> NoLoss)
      BY <3>2 DEF one, NoLoss, IsLoss, Unread
    <3> QED
      BY <1>1, <1>2, <1>5, <2>2, <3>1, <3>3 DEF PassesBy
  <2> QED
    BY <2>3, <2>4
<1>6. CASE Die /\ (Claims' <=> Claims)
  <2>1. StreamIsCut /\ ~up'
    BY <1>6 DEF Die, StreamIsCut
  <2>2. (NoLoss => NoLoss') /\ (one => one')
    BY <1>0, <2>1, CutStream DEF NoLoss, one, IsLoss, Unread
  <2> QED
    BY <1>1, <1>2, <1>6, <2>1, <2>2
<1>7. CASE Wins
  <2>1. NoLoss /\ owner # Us /\ Us \in Names
    BY <1>1, <1>7 DEF Wins, Names
  <2>2. owner' = Us /\ signals' = Append(signals, [old |-> owner, new |-> Us])
    BY <1>7, <2>1 DEF Wins, Pass
  <2> QED
    BY <1>1, <1>2, <1>4, <1>7, <2>1, <2>2 DEF Wins
<1>8. ASSUME NEW n \in 1..arrived, Consume(n)
      PROVE  /\ Unread' = 1..(Len(signals) - n)
             /\ \A i \in Unread' : i + n \in Unread /\ (IsLoss(i)' <=> IsLoss(i + n))
  BY <1>0, <1>8, ReadStream DEF Unread, IsLoss
<1>9. CASE Unclaimed
  <2>1. NoLoss /\ ~Claims'
    BY <1>1, <1>9 DEF Unclaimed
  <2>2. CASE UNCHANGED signals
    BY <1>2, <2>1, <2>2 DEF NoLoss, one, IsLoss, Unread
  <2>3. CASE DropStream
    BY <1>2, <2>1, <2>3 DEF DropStream, NoLoss, one, Unread
  <2>4. CASE StreamIsRead
    <3>1. NoLoss'
      BY <1>8, <2>1, <2>4 DEF StreamIsRead, NoLoss
    <3> QED
      BY <1>2, <2>1, <3>1 DEF one, NoLoss
  <2> QED
    BY <1>9, <2>2, <2>3, <2>4 DEF Unclaimed
<1>10. CASE Yields
  <2>1. ~Claims' /\ IsLoss(1) /\ one /\ 1 \in 1..arrived /\ Consume(1)
        /\ 1 \in Unread
    BY <1>0, <1>1, <1>10 DEF Yields, Unread
  <2>2. \A i \in Unread' : i \in 1..(Len(signals) - 1) /\ i + 1 # 1
    BY <1>0, <1>8, <2>1
  <2>3. NoLoss'
    BY <1>8, <2>1, <2>2 DEF NoLoss, one
  <2> QED
    BY <1>2, <2>1, <2>3 DEF one, NoLoss
<1>11. CASE Severed
  <2>1. NoLoss' /\ one' /\ ~Claims'
    BY <1>11 DEF Severed, DropStream, NoLoss, one, Unread
  <2> QED
    BY <1>2, <2>1
<1>12. CASE Unmoved /\ arrived > 0 /\ ~IsLoss(1) /\ Consume(1)
  <2>1. 1 \in 1..arrived
    BY <1>0, <1>12
  <2>2. /\ Unread' = 1..(Len(signals) - 1) /\ Unread = 1..Len(signals)
        /\ \A i \in Unread' : i + 1 \in Unread /\ (IsLoss(i)' <=> IsLoss(i + 1))
    BY <1>8, <1>12, <2>1 DEF Unread
  <2>3. ASSUME NEW i \in Unread, IsLoss(i)
        PROVE  i - 1 \in Unread' /\ IsLoss(i - 1)'
    <3>1. i # 1 /\ i \in 1..Len(signals)
      BY <1>12, <2>2, <2>3
    <3>2. i - 1 \in Unread' /\ (i - 1) + 1 = i
      BY <1>0, <2>2, <3>1
    <3> QED
      BY <2>2, <2>3, <3>2
  <2>4. NoLoss' <=> NoLoss
    BY <2>2, <2>3 DEF NoLoss
  <2>5. one => one'
    <3> SUFFICES ASSUME one, NEW i \in Unread', NEW j \in Unread',
                        IsLoss(i)', IsLoss(j)'
                 PROVE  i = j
      BY DEF one
    <3>1. i + 1 = j + 1
      BY <2>2 DEF one
    <3> QED
      BY <2>2, <3>1
  <2> QED
    BY <1>1, <1>2, <1>12, <2>4, <2>5 DEF Unmoved
<1> QED
  BY <1>3, <1>5, <1>6, <1>7, <1>9, <1>10, <1>11, <1>12, NameMoves DEF ClaimMoves

\* The owner is us only while the task claims it, on a connection that is up.
LEMMA OursIsClaimedStep ==
  ASSUME NameIInv, NameNext
  PROVE  OursIsClaimed'
<1>0. OursIsClaimed /\ up \in BOOLEAN
  BY DEF NameIInv, NameTypeOK
<1>1. owner' = Us => (owner = Us /\ up /\ Claims) \/ Wins
  <2>1. CASE PassesBy
    BY <2>1, NamesAssumption DEF PassesBy, Pass
  <2>2. CASE ~PassesBy
    BY <1>0, <2>2, NameMoves, NamesAssumption
    DEF ClaimMoves, Unmoved, Die, Unclaimed, Yields, Severed, OursIsClaimed
  <2> QED
    BY <2>1, <2>2
<1>2. ASSUME owner' = Us, owner = Us, up, Claims
      PROVE  up' /\ Claims'
  <2>1. NoLoss /\ ~Severed /\ ~Unclaimed
    BY <1>2 DEF NameIInv, LossIsTrue, Severed, Unclaimed
  <2>2. arrived > 0 => ~IsLoss(1)
    BY <2>1, LenProperties DEF NoLoss, Unread, NameIInv, NameTypeOK
  <2>3. ~Die /\ ~PassesBy
    BY <1>2, NamesAssumption DEF Die, PassesBy, Pass
  <2> QED
    BY <1>2, <2>1, <2>2, <2>3, NameMoves DEF ClaimMoves, Unmoved, Wins, Yields
<1> QED
  BY <1>1, <1>2 DEF OursIsClaimed, Wins

\* The claim is inductive.
LEMMA StepNameIInv == NameIInv /\ [NameNext]_nameVars => NameIInv'
<1>1. ASSUME NameIInv, UNCHANGED nameVars
      PROVE  NameIInv'
  BY <1>1
  DEF nameVars, brokerVars, streamVars, callVars, taskVars, NameIInv,
      NameTypeOK, ChangesOnly, OursIsClaimed, LossIsTrue, NoLoss, IsLoss,
      Unread, Claims
<1> QED
  BY <1>1, NameTypeStep, StreamKeeps, OursIsClaimedStep, LossIsTrueStep
  DEF NameIInv

LEMMA InitNameIInv == NameInit => NameIInv
<1> SUFFICES ASSUME NameInit PROVE NameIInv
  OBVIOUS
<1>1. signals = <<>> /\ Len(signals) = 0 /\ signals \in Seq([old : Names, new : Names])
  BY EmptySeq DEF NameInit
<1>2. NameTypeOK
  BY <1>1, OwnNameAssumption DEF NameInit, NameTypeOK, NoLosses, Names
<1> QED
  BY <1>1, <1>2, NamesAssumption
  DEF NameInit, NameIInv, ChangesOnly, OursIsClaimed, LossIsTrue, NoLoss,
      Unread, Claims

\* The task's claim, the broker's owner and the unread signals agree, for any
\* set of peers, any queue size and any threshold.
THEOREM NameInductive == NameSpec => []NameIInv
  BY InitNameIInv, StepNameIInv, PTL DEF NameSpec

\* While the task believes it owns the name on a live connection, it owns it
\* exactly when no loss is left to read: none is missed and none is invented.
THEOREM NoLossMissed == NameSpec => []OwnedIsTrue
<1>1. NameIInv => OwnedIsTrue
  BY DEF NameIInv, NameTypeOK, LossIsTrue, NoLoss, IsLoss, Unread, Claims,
         OwnedIsTrue
<1> QED
  BY NameInductive, <1>1, PTL
=============================================================================
