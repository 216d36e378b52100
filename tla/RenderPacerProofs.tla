------------------------- MODULE RenderPacerProofs -------------------------
(***************************************************************************)
(* Proofs about RenderPacer, for any frames, burst and miss limit.         *)
(*                                                                         *)
(* The two invariants about the frames are inductive with the type.  That  *)
(* a connection is dropped as hung for a reason needs PingInv, which says  *)
(* how many pings the misses counted so far stand for.                     *)
(***************************************************************************)
EXTENDS RenderPacer, TLAPS

\* While no pong was seen since the last tick, each miss and the ping now out
\* are pings of their own without an answer.
PingInv ==
  session = "serving" =>
    /\ ~pinged => unanswered = 0
    /\ ~pong => pings >= unanswered
    /\ ~pong /\ pinged => pings >= unanswered + 1

IInv == TypeOK /\ NewestIsOwedOrParked /\ MailboxesFollowTheGate /\ PingInv

\* The initial states satisfy the inductive invariant.
LEMMA InitIInv == Init => IInv
<1> SUFFICES ASSUME Init PROVE IInv
  OBVIOUS
<1>1. TypeOK
  <2>1. tokens \in 0..Burst /\ pings \in 0..MaxPings /\ unanswered \in Nat
    BY PacerAssumption DEF Init
  <2> QED
    BY <2>1, Zenon DEF Init, TypeOK, Slots
<1>2. Nothing \notin WithPanel
  BY PacerAssumption
<1> QED
  BY <1>1, <1>2
  DEF Init, IInv, NewestIsOwedOrParked, MailboxesFollowTheGate, PingInv

\* A frame that comes in leaves the invariant as it was.
LEMMA RenderKeeps ==
  ASSUME IInv, NEW f \in Frames, Render(f)
  PROVE  IInv'
<1> USE DEF IInv, TypeOK, Slots, NewestIsOwedOrParked, MailboxesFollowTheGate,
            PingInv, gateVars, flushVars, mailVars, pingVars, Shows
<1>0. f # Nothing
  BY PacerAssumption
<1>1. CASE RepeatsPending(f)
  BY <1>0, <1>1 DEF RepeatsPending
<1>2. CASE RepeatsParked(f)
  BY <1>0, <1>2 DEF RepeatsParked
<1>3. CASE ParksNow(f)
  BY <1>0, <1>3, PacerAssumption DEF ParksNow, Park
<1>4. CASE Defers(f)
  BY <1>0, <1>4 DEF Defers
<1> QED
  BY <1>1, <1>2, <1>3, <1>4 DEF Render

\* So do the flusher and the refill of the bucket it waits for.
LEMMA FlusherKeeps ==
  ASSUME IInv, Flusher \/ Refill
  PROVE  IInv'
<1> USE DEF IInv, TypeOK, Slots, NewestIsOwedOrParked, MailboxesFollowTheGate,
            PingInv, gateVars, flushVars, mailVars, pingVars
<1>1. CASE Refill
  <2>1. tokens' \in 0..Burst /\ due' \in BOOLEAN
    BY <1>1, PacerAssumption DEF Refill
  <2>2. flusher = "asleep" => due'
    BY <1>1, Zenon DEF Refill
  <2> QED
    BY <1>1, <2>1, <2>2 DEF Refill
<1>2. CASE Sleep
  <2>1. ~(tokens > 0) => tokens = 0
    BY PacerAssumption
  <2>2. due' = (tokens > 0)
    BY <1>2, Zenon DEF Sleep
  <2>3. due' \in BOOLEAN
    BY ONLY <2>2
  <2>4. ~due' => tokens = 0
    BY ONLY <2>1, <2>2, Zenon
  <2> QED
    BY <1>2, <2>3, <2>4, Zenon DEF Sleep
<1>3. CASE Rest
  BY <1>3 DEF Rest
<1>4. CASE Notified
  BY <1>4 DEF Notified
<1>5. CASE Flushes
  <2>1. tokens' \in 0..Burst
    BY <1>5, PacerAssumption DEF Flushes
  <2> QED
    BY <1>5, <2>1 DEF Flushes, Park
<1>6. CASE FlushesNothing
  BY <1>6 DEF FlushesNothing
<1> QED
  BY <1>1, <1>2, <1>3, <1>4, <1>5, <1>6 DEF Flusher

\* A ping and its answer count as PingInv says.
LEMMA PingKeeps ==
  ASSUME IInv, Liveness \/ Pong \/ Hang
  PROVE  IInv'
<1> USE DEF IInv, TypeOK, Slots, NewestIsOwedOrParked, MailboxesFollowTheGate,
            PingInv, gateVars, flushVars, mailVars, pingVars
<1>0. Misses \in Nat
  <2>1. unanswered \in Nat /\ unanswered + 1 \in Nat
    OBVIOUS
  <2> QED
    BY ONLY <2>1, Zenon DEF Misses
<1>1. CASE Tick
  <2>1. pings' \in 0..MaxPings /\ pings' >= unanswered' + 1
    BY <1>0, <1>1, PacerAssumption DEF Tick, Misses
  <2>2. Misses \in Nat /\ pings' >= unanswered'
    BY <1>0, <1>1, <2>1 DEF Tick
  <2> QED
    BY <1>1, <2>1, <2>2, Zenon DEF Tick
<1>2. CASE DropsHung
  BY <1>0, <1>2 DEF DropsHung
<1>3. CASE DropsFull
  BY <1>0, <1>3 DEF DropsFull
<1>4. CASE Pong
  BY <1>4, PacerAssumption DEF Pong
<1>5. CASE Hang
  BY <1>5 DEF Hang
<1> QED
  BY <1>1, <1>2, <1>3, <1>4, <1>5 DEF Liveness, PingTick

\* The invariant holds in every reachable state.
LEMMA Inductive == Spec => []IInv
<1>1. IInv /\ [Next]_vars => IInv'
  <2> SUFFICES ASSUME IInv, [Next]_vars PROVE IInv'
    OBVIOUS
  <2> USE DEF IInv, TypeOK, Slots, NewestIsOwedOrParked,
              MailboxesFollowTheGate, PingInv, gateVars, flushVars, mailVars,
              pingVars
  <2>1. CASE Leave
    BY <2>1 DEF Leave
  <2>2. CASE Clear
    BY <2>2 DEF Clear
  <2>3. CASE UNCHANGED vars
    BY <2>3 DEF vars
  <2> QED
    BY <2>1, <2>2, <2>3, RenderKeeps, FlusherKeeps, PingKeeps DEF Next
<1> QED
  BY InitIInv, <1>1, PTL DEF Spec

\* Every reachable state is well typed.
THEOREM TypeCorrect == Spec => []TypeOK
<1>1. IInv => TypeOK
  BY DEF IInv
<1> QED
  BY Inductive, <1>1, PTL

\* The newest frame is on the screen or waits for a flusher that will come,
\* whatever the order of frames, refills, wake-ups and deadlines.
THEOREM NewestSafe == Spec => []NewestIsOwedOrParked
<1>1. IInv => NewestIsOwedOrParked
  BY DEF IInv
<1> QED
  BY Inductive, <1>1, PTL

\* The two mailboxes agree with the gate, and hold nothing after the teardown.
THEOREM MailboxesSafe == Spec => []MailboxesFollowTheGate
<1>1. IInv => MailboxesFollowTheGate
  BY DEF IInv
<1> QED
  BY Inductive, <1>1, PTL

\* Who is dropped as hung left as many pings unanswered as may be missed.
THEOREM HungSafe == Spec => HungMeansUnanswered
<1>1. IInv /\ [Next]_vars => [DropsHung => pings >= MaxMissed]_vars
  <2> SUFFICES ASSUME IInv, DropsHung PROVE pings >= MaxMissed
    OBVIOUS
  <2> QED
    BY PacerAssumption DEF IInv, TypeOK, PingInv, DropsHung, Misses
<1> QED
  BY Inductive, <1>1, PTL DEF Spec, HungMeansUnanswered
=============================================================================
