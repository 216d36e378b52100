-------------------------- MODULE WifiSwitchProofs --------------------------
(***************************************************************************)
(* Proofs about WifiSwitch, for any daemons, buffer and bounds.            *)
(***************************************************************************)
EXTENDS WifiSwitch, SequenceTheorems, TLAPS

-----------------------------------------------------------------------------
(* Type correctness.                                                       *)

\* Lives change by a field of one of them, by a map over them, or by one more.
LEMMA OneLifeChanges ==
  ASSUME NEW s \in Seq(Lives), NEW i \in DOMAIN s, NEW v \in Lives
  PROVE  [s EXCEPT ![i] = v] \in Seq(Lives) /\ DOMAIN [s EXCEPT ![i] = v] = DOMAIN s
<1>1. i \in 1..Len(s)
  BY LenProperties
<1> QED BY <1>1, ExceptSeq

LEMMA CutLives ==
  ASSUME life \in Seq(Lives), Cut
  PROVE  life' \in Seq(Lives) /\ DOMAIN life' = DOMAIN life
<1>1. life' = [i \in DOMAIN life |-> [life[i] EXCEPT !.registrar = Err(@)]]
  BY DEF Cut
<1>2. \A i \in DOMAIN life : [life[i] EXCEPT !.registrar = Err(@)] \in Lives
  <2> SUFFICES ASSUME NEW i \in DOMAIN life
               PROVE  [life[i] EXCEPT !.registrar = Err(@)] \in Lives
    OBVIOUS
  <2>1. life[i] \in Lives
    OBVIOUS
  <2> QED BY <2>1 DEF Lives, Err
<1>3. DOMAIN life = 1..Len(life) /\ Len(life) \in Nat
  BY LenProperties
<1>4. life' \in [1..Len(life) -> Lives]
  BY <1>1, <1>2, <1>3
<1> QED BY <1>3, <1>4

LEMMA CommitLives ==
  ASSUME life \in Seq(Lives), NEW kind \in Kinds, Commit(kind)
  PROVE  /\ life' \in Seq(Lives) /\ DOMAIN life' = DOMAIN life \cup {live'}
         /\ live' \notin DOMAIN life /\ live' \in Nat \ {0}
         /\ \A i \in DOMAIN life : life'[i] = life[i]
         /\ life'[live'] = Started(kind)
<1>1. Started(kind) \in Lives
  BY DEF Started, Lives, Kinds, Daemons
<1>2. DOMAIN life = 1..Len(life) /\ Len(life) \in Nat
  BY LenProperties
<1>3. life' = Append(life, Started(kind)) /\ live' = Len(life) + 1
  BY DEF Commit
<1> QED BY <1>1, <1>2, <1>3, AppendProperties, LenProperties

LEMMA RetireLives ==
  ASSUME life \in Seq(Lives), live \in DOMAIN life, NEW kind, Retire(kind)
  PROVE  life' \in Seq(Lives) /\ DOMAIN life' = DOMAIN life
<1> DEFINE v == [life[live] EXCEPT !.watcher = IF @ = "runs" THEN "stopping" ELSE @]
<1>0. life[live] \in Lives
  OBVIOUS
<1>1. v \in Lives
  BY <1>0 DEF Lives
<1>2. life' = [life EXCEPT ![live] = v]
  BY DEF Retire
<1> QED BY <1>1, <1>2, OneLifeChanges

LEMMA RenewLives ==
  ASSUME life \in Seq(Lives), live \in {0} \cup DOMAIN life, Renew
  PROVE  life' \in Seq(Lives) /\ DOMAIN life' = DOMAIN life
<1>1. CASE life' = life
  BY <1>1
<1>2. CASE live # 0 /\ life' = [life EXCEPT ![live] = [life[live] EXCEPT !.wake = TRUE]]
  <2>1. life[live] \in Lives
    BY <1>2
  <2>2. [life[live] EXCEPT !.wake = TRUE] \in Lives
    BY <2>1 DEF Lives
  <2> QED BY <1>2, <2>2, OneLifeChanges
<1> QED BY <1>1, <1>2 DEF Renew

\* A life stays one when its registrar moves, is told to halt, or stops.
LEMMA FieldsStay ==
  ASSUME life \in Seq(Lives), NEW i \in DOMAIN life,
         \/ \E to \in {"settle", "first", "withdraw", "again", "second", "parked",
                       "retry", "stopped"} :
              life' = [life EXCEPT ![i].registrar = to]
         \/ life' = [life EXCEPT ![i].registrar = "settle", ![i].wake = FALSE]
         \/ life' = [life EXCEPT ![i].watcher = "stopped"]
         \/ life' = [life EXCEPT ![i].halt = TRUE]
  PROVE  life' \in Seq(Lives) /\ DOMAIN life' = DOMAIN life
<1>1. life[i] \in Lives
  OBVIOUS
<1>2. ASSUME NEW to \in {"settle", "first", "withdraw", "again", "second",
                        "parked", "retry", "stopped"},
             life' = [life EXCEPT ![i].registrar = to]
      PROVE  life' \in Seq(Lives) /\ DOMAIN life' = DOMAIN life
  <2>1. [life[i] EXCEPT !.registrar = to] \in Lives
    BY <1>1 DEF Lives
  <2> QED BY <1>2, <2>1, OneLifeChanges
<1>3. CASE life' = [life EXCEPT ![i].registrar = "settle", ![i].wake = FALSE]
  <2>1. [life[i] EXCEPT !.registrar = "settle", !.wake = FALSE] \in Lives
    BY <1>1 DEF Lives
  <2>2. life' = [life EXCEPT ![i] = [life[i] EXCEPT !.registrar = "settle", !.wake = FALSE]]
    BY <1>3
  <2> QED BY <2>1, <2>2, OneLifeChanges
<1>4. CASE life' = [life EXCEPT ![i].watcher = "stopped"]
  <2>1. [life[i] EXCEPT !.watcher = "stopped"] \in Lives
    BY <1>1 DEF Lives
  <2> QED BY <1>4, <2>1, OneLifeChanges
<1>5. CASE life' = [life EXCEPT ![i].halt = TRUE]
  <2>1. [life[i] EXCEPT !.halt = TRUE] \in Lives
    BY <1>1 DEF Lives
  <2> QED BY <1>5, <2>1, OneLifeChanges
<1> QED BY <1>2, <1>3, <1>4, <1>5

\* The lives a step leaves behind.
LivesStay == life' \in Seq(Lives) /\ DOMAIN life \subseteq DOMAIN life'

LEMMA LivesStayTyped ==
  ASSUME TypeOK, Next
  PROVE  LivesStay
<1> USE DEF LivesStay
<1>0. /\ life \in Seq(Lives) /\ live \in {0} \cup DOMAIN life
      /\ outgoing \in {0} \cup DOMAIN life
      /\ \A k \in DOMAIN wire : wire[k].life \in DOMAIN life
  BY DEF TypeOK
<1>1. CASE UNCHANGED life
  BY <1>0, <1>1
<1>2. CASE Reconnect
  BY <1>0, <1>2, CutLives DEF Reconnect
<1>3. ASSUME NEW d \in Daemons, DaemonStops(d) PROVE LivesStay
  BY <1>0, <1>1, <1>3, CutLives DEF DaemonStops
<1>4. CASE Panic
  <2>1. CASE outgoing = 0
    BY <1>1, <1>4, <2>1 DEF Panic
  <2>2. CASE outgoing # 0
    BY <1>0, <1>4, <2>2, FieldsStay DEF Panic
  <2> QED BY <2>1, <2>2
<1>5. CASE Answer
  <2> DEFINE m == Head(wire)
             ok == agent = IF m.op = "register" THEN 0 ELSE m.by
             told == Reply(m.op, ok, life[m.life].registrar)
  <2>1. m.life \in DOMAIN life
    <3>1. wire # <<>> /\ wire \in Seq(Calls)
      BY <1>5 DEF Answer, TypeOK
    <3>2. 1 \in DOMAIN wire /\ m = wire[1]
      BY <3>1
    <3> QED BY <1>0, <3>2
  <2>2. told \in {"parked", "again", "retry", "withdraw"}
    BY DEF Reply
  <2>3. CASE life' = [life EXCEPT ![m.life].registrar = told]
    BY <1>0, <2>1, <2>2, <2>3, FieldsStay
  <2> QED BY <1>1, <1>5, <2>3 DEF Answer
<1>6. ASSUME NEW i \in DOMAIN life, WatcherStops(i) \/ RegistrarStops(i)
      PROVE  LivesStay
  BY <1>0, <1>6, FieldsStay DEF WatcherStops, RegistrarStops
<1>7. ASSUME NEW i \in DOMAIN life, Register(i) \/ Unpark(i)
      PROVE  LivesStay
  <2>1. CASE Register(i)
    <3> DEFINE to == IF life[i].registrar = "settle" THEN "first" ELSE "second"
    <3>1. to \in {"first", "second"}
      OBVIOUS
    <3>2. \/ life' = [life EXCEPT ![i].registrar = to]
          \/ life' = [life EXCEPT ![i].registrar = "retry"]
      BY <2>1 DEF Register
    <3> QED BY <1>0, <1>7, <3>1, <3>2, FieldsStay
  <2>2. CASE Unpark(i)
    <3>1. \/ life' = [life EXCEPT ![i].registrar = "settle"]
          \/ life' = [life EXCEPT ![i].registrar = "settle", ![i].wake = FALSE]
      BY <2>2 DEF Unpark
    <3> QED BY <1>0, <1>7, <3>1, FieldsStay
  <2> QED BY <1>7, <2>1, <2>2
<1>8. ASSUME NEW deaf \in SUBSET Queries, Probe(deaf) PROVE LivesStay
  <2>1. Verdict(deaf) \in Kinds
    BY DEF Verdict, Kinds, Daemons
  <2>2. CASE live = 0
    BY <1>0, <1>8, <2>1, <2>2, CommitLives DEF Probe
  <2>3. CASE live # 0 /\ SwitchNeeded(Verdict(deaf))
    BY <1>0, <1>8, <2>3, RetireLives DEF Probe
  <2>4. CASE live # 0 /\ ~SwitchNeeded(Verdict(deaf))
    BY <1>1, <1>8, <2>4 DEF Probe
  <2> QED BY <2>2, <2>3, <2>4
<1>9. ASSUME NEW deaf \in SUBSET Queries, Recheck(deaf) PROVE LivesStay
  <2>1. CASE SwitchNeeded(Verdict(deaf))
    <3>1. CASE live = 0
      <4>1. live \notin DOMAIN life
        BY <1>0, <3>1, LenProperties
      <4>2. life' = life
        BY <1>0, <1>9, <2>1, <4>1 DEF Recheck, Retire
      <4> QED BY <1>1, <4>2
    <3>2. CASE live # 0
      BY <1>0, <1>9, <2>1, <3>2, RetireLives DEF Recheck
    <3> QED BY <3>1, <3>2
  <2>2. CASE ~SwitchNeeded(Verdict(deaf))
    BY <1>0, <1>9, <2>2, RenewLives DEF Recheck
  <2> QED BY <2>1, <2>2
<1>10. ASSUME NEW deaf \in SUBSET Queries, RecheckFails(deaf) PROVE LivesStay
  BY <1>0, <1>10, RenewLives DEF RecheckFails
<1>11. CASE WatcherDown
  <2>1. CASE outgoing = 0
    <3>1. outgoing \notin DOMAIN life
      BY <1>0, <2>1, LenProperties
    <3>2. life' = life
      BY <1>0, <1>11, <3>1 DEF WatcherDown
    <3> QED BY <1>1, <3>2
  <2>2. CASE outgoing # 0
    BY <1>0, <1>11, <2>2, FieldsStay DEF WatcherDown
  <2> QED BY <2>1, <2>2
<1>12. CASE Start
  <2>1. choice \in Kinds
    BY DEF TypeOK
  <2> QED BY <1>0, <1>12, <2>1, CommitLives DEF Start
<1>13. ASSUME NEW d \in Daemons, DaemonStarts(d) PROVE LivesStay
  BY <1>1, <1>13 DEF DaemonStarts
<1>14. CASE NmForgets \/ Subscribes \/ Watch \/ Take \/ RegistrarDown \/ UnregisterExpires
  BY <1>1, <1>14 DEF NmForgets, Subscribes, Watch, Take, RegistrarDown, UnregisterExpires
<1>15. ASSUME NEW i \in DOMAIN life, Write(i) PROVE LivesStay
  BY <1>1, <1>15 DEF Write
<1>16. ASSUME NEW i \in DOMAIN life, CallExpires(i) PROVE LivesStay
  <2> DEFINE to == Err(life[i].registrar)
  <2>1. to \in {"retry", "again"} /\ life' = [life EXCEPT ![i].registrar = to]
    BY <1>16 DEF CallExpires, Err
  <2> HIDE DEF to
  <2> QED BY <1>0, <2>1, FieldsStay
<1> QED BY <1>2, <1>3, <1>4, <1>5, <1>6, <1>7, <1>8, <1>9, <1>10, <1>11, <1>12,
           <1>13, <1>14, <1>15, <1>16
    DEF Next, Outside, Stops, Registering, Expires, Task, Asking

\* Every action by name, once.
LEMMA Actions ==
  ASSUME Next
  PROVE  \/ Reconnect \/ Panic \/ Answer \/ NmForgets \/ Subscribes
         \/ \E d \in Daemons : DaemonStarts(d) \/ DaemonStops(d)
         \/ \E i \in DOMAIN life : \/ WatcherStops(i) \/ RegistrarStops(i)
                                  \/ Register(i) \/ Unpark(i) \/ Write(i)
                                  \/ CallExpires(i)
         \/ Asking \/ Watch \/ Take \/ UnregisterExpires
         \/ WatcherDown \/ RegistrarDown \/ Start
BY DEF Next, Outside, Stops, Registering, Expires, Task

BusType ==
  /\ running \subseteq Daemons /\ activatable \subseteq Daemons
  /\ epoch \in Nat \ {0} /\ sub \in {"none", "starting", "up", "down"}
  /\ items \in Seq({"renew", "look"}) /\ lagged \in BOOLEAN

LEMMA BusTyped ==
  ASSUME TypeOK, Next
  PROVE  BusType'
<1> DEFINE Items == {"renew", "look"}
<1> USE DEF BusType
<1>0. /\ items \in Seq(Items) /\ lagged \in BOOLEAN
      /\ running \subseteq Daemons /\ activatable \subseteq Daemons
      /\ epoch \in Nat \ {0} /\ sub \in {"none", "starting", "up", "down"}
      /\ Capacity \in Nat \ {0}
  BY WifiSwitchAssumption DEF TypeOK
<1>1. ASSUME NEW x \in Items
      PROVE  /\ Append(items, x) \in Seq(Items)
             /\ Len(items) # 0 => /\ Tail(items) \in Seq(Items)
                                 /\ Append(Tail(items), x) \in Seq(Items)
  <2>1. Append(items, x) \in Seq(Items)
    BY <1>0, <1>1, AppendProperties
  <2>2. CASE Len(items) # 0
    <3>1. items # <<>>
      BY <2>2
    <3>2. Tail(items) \in Seq(Items)
      BY <1>0, <3>1, HeadTailProperties
    <3> QED BY <1>1, <2>1, <3>2, AppendProperties
  <2> QED BY <2>1, <2>2
<1>2. ASSUME NEW x \in Items, Emit(x)
      PROVE  items' \in Seq(Items) /\ lagged' \in BOOLEAN /\ sub' = sub
  <2>1. items' \in Seq(Items)
    <3>1. Len(items) \in Nat
      BY <1>0, LenProperties
    <3>2. Len(items) = 0 => Len(items) < Capacity
      BY <1>0, <3>1
    <3> QED BY <1>0, <1>1, <1>2, <3>2 DEF Emit
  <2>2. lagged' \in BOOLEAN
    BY <1>0, <1>2 DEF Emit
  <2> QED BY <1>2, <2>1, <2>2 DEF Emit
<1>3. ASSUME NEW d \in Daemons, DaemonStarts(d) \/ DaemonStops(d)
      PROVE  BusType'
  <2>1. \E x \in Items : Emit(x)
    BY <1>3 DEF DaemonStarts, DaemonStops
  <2>2. running' \subseteq Daemons /\ UNCHANGED <<activatable, epoch>>
    BY <1>0, <1>3 DEF DaemonStarts, DaemonStops
  <2>3. items' \in Seq(Items) /\ lagged' \in BOOLEAN /\ sub' = sub
    BY <1>2, <2>1
  <2> QED BY <1>0, <2>2, <2>3
<1>4. CASE Subscribes
  <2>1. items' \in Seq(Items)
    <3>1. "renew" \in Items
      OBVIOUS
    <3>2. Len(items) \in Nat
      BY <1>0, LenProperties
    <3>3. CASE sub = "starting"
      BY <1>0, <1>4, <3>3 DEF Subscribes
    <3>4. CASE sub # "starting" /\ Len(items) < Capacity
      BY <1>1, <1>4, <3>1, <3>4 DEF Subscribes
    <3>5. CASE sub # "starting" /\ ~(Len(items) < Capacity)
      <4>1. Len(items) # 0
        BY <1>0, <3>2, <3>5
      <4> QED BY <1>1, <1>4, <3>1, <3>5, <4>1 DEF Subscribes
    <3> QED BY <3>3, <3>4, <3>5
  <2>2. lagged' \in BOOLEAN
    BY <1>0, <1>4 DEF Subscribes
  <2> QED BY <1>0, <1>4, <2>1, <2>2 DEF Subscribes, worldVars
<1>5. CASE Take
  <2>1. items' \in Seq(Items)
    <3>1. CASE lagged
      BY <1>0, <1>5, <3>1 DEF Take
    <3>2. CASE ~lagged
      BY <1>0, <1>5, <3>2, HeadTailProperties DEF Take
    <3> QED BY <3>1, <3>2
  <2>2. lagged' \in BOOLEAN
    BY <1>0, <1>5 DEF Take
  <2> QED BY <1>0, <1>5, <2>1, <2>2 DEF Take, worldVars
<1>6. CASE Reconnect \/ Panic
  <2>1. CASE Reconnect
    BY <1>0, <2>1 DEF Reconnect
  <2>2. CASE Panic
    <3>1. items' = <<>> /\ lagged' = FALSE /\ sub' = "none" /\ UNCHANGED worldVars
      BY <2>2, Zenon DEF Panic
    <3>2. items' \in Seq(Items)
      BY <3>1
    <3>3. UNCHANGED <<running, activatable, epoch>>
      BY <3>1 DEF worldVars
    <3>4. lagged' \in BOOLEAN /\ sub' \in {"none", "starting", "up", "down"}
      BY <3>1
    <3> QED BY <1>0, <3>2, <3>3, <3>4
  <2> QED BY <1>6, <2>1, <2>2
<1>7. CASE Watch
  BY <1>0, <1>7 DEF Watch, worldVars
<1>8. CASE UNCHANGED <<worldVars, subVars>>
  BY <1>0, <1>8 DEF worldVars, subVars
<1>9. ASSUME NEW i \in DOMAIN life,
             \/ WatcherStops(i) \/ RegistrarStops(i) \/ Register(i)
             \/ Unpark(i) \/ Write(i) \/ CallExpires(i)
      PROVE  BusType'
  <2>1. UNCHANGED <<worldVars, subVars>>
    BY <1>9 DEF WatcherStops, RegistrarStops, Register, Unpark, Write, CallExpires
  <2> QED BY <1>8, <2>1
<1>10. CASE \/ Answer \/ NmForgets \/ Asking \/ UnregisterExpires
            \/ WatcherDown \/ RegistrarDown \/ Start
  <2>1. UNCHANGED <<worldVars, subVars>>
    BY <1>10 DEF Answer, NmForgets, Asking, Probe, Recheck, RecheckFails,
                 UnregisterExpires, WatcherDown, RegistrarDown, Start
  <2> QED BY <1>8, <2>1
<1> HIDE DEF BusType
<1> QED BY <1>3, <1>4, <1>5, <1>6, <1>7, <1>9, <1>10, Actions

-----------------------------------------------------------------------------
(* Where the task is, and what it then holds.                              *)

Tearing == {"watcher", "registrar", "unregister", "start"}
Phases ==
  /\ outgoing # 0 <=> pc \in Tearing
  /\ pc \in Tearing => live = 0
  /\ live = 0 => pc \in Tearing \cup {"probing"}

WireType ==
  wire \in Seq(Calls) /\ \A k \in DOMAIN wire : wire[k].life \in DOMAIN life

\* Calls join the wire at its end, one at a time, and leave it at its head.
LEMMA WireGrows ==
  ASSUME wire \in Seq(Calls), NEW c \in Calls, wire' = Append(wire, c)
  PROVE  /\ wire' \in Seq(Calls) /\ wire' # <<>>
         /\ Len(wire') = Len(wire) + 1 /\ wire'[Len(wire')] = c
         /\ \A k \in DOMAIN wire' :
              (k \in DOMAIN wire /\ wire'[k] = wire[k]) \/ (k = Len(wire') /\ wire'[k] = c)
<1>1. /\ Len(wire) \in Nat /\ DOMAIN wire = 1..Len(wire)
  BY LenProperties
<1>2. /\ wire' \in Seq(Calls) /\ Len(wire') = Len(wire) + 1 /\ wire' # <<>>
      /\ \A k \in 1..Len(wire) : wire'[k] = wire[k]
      /\ wire'[Len(wire) + 1] = c
  BY AppendProperties
<1>3. DOMAIN wire' = 1..Len(wire')
  BY <1>2, LenProperties
<1> QED BY <1>1, <1>2, <1>3

LEMMA WireShrinks ==
  ASSUME wire \in Seq(Calls), wire # <<>>
  PROVE  /\ Head(wire) \in Calls /\ 1 \in DOMAIN wire /\ Head(wire) = wire[1]
         /\ Tail(wire) \in Seq(Calls) /\ Len(Tail(wire)) = Len(wire) - 1
         /\ \A k \in DOMAIN Tail(wire) :
              k + 1 \in DOMAIN wire /\ Tail(wire)[k] = wire[k + 1]
<1>1. /\ Len(wire) \in Nat /\ DOMAIN wire = 1..Len(wire)
  BY LenProperties
<1>2. /\ Head(wire) \in Calls /\ Tail(wire) \in Seq(Calls)
      /\ Len(Tail(wire)) = Len(wire) - 1
      /\ \A k \in 1..Len(Tail(wire)) : Tail(wire)[k] = wire[k + 1]
  BY HeadTailProperties
<1>3. DOMAIN Tail(wire) = 1..Len(Tail(wire))
  BY <1>2, LenProperties
<1>4. Len(wire) # 0 /\ Head(wire) = wire[1]
  OBVIOUS
<1> QED BY <1>1, <1>2, <1>3, <1>4

\* What an answer leaves on the wire.
LEMMA WireAnswered ==
  ASSUME TypeOK, Answer
  PROVE  \/ wire' = Tail(wire)
         \/ /\ life[Head(wire).life].registrar \in {"first", "withdraw", "second"}
            /\ Head(wire).op # "unregister"
            /\ wire' = Append(Tail(wire), Call("withdraw", Head(wire).life))
<1>1. Tail(wire) \in Seq(Calls) /\ wire # <<>>
  BY WireShrinks DEF TypeOK, Answer
<1>2. Head(wire).life \in Nat /\ epoch \in Nat
  BY <1>1, WireShrinks DEF TypeOK, Calls
<1>3. Call("withdraw", Head(wire).life) \in Calls
  BY <1>2 DEF Call, Calls
<1>4. /\ Tail(wire) \o <<>> = Tail(wire)
      /\ Tail(wire) \o <<Call("withdraw", Head(wire).life)>>
           = Append(Tail(wire), Call("withdraw", Head(wire).life))
  BY <1>1, <1>3, ConcatEmptySeq, AppendIsConcat
<1> QED BY <1>4 DEF Answer

\* Which calls are added, and by whom.
LEMMA WireSteps ==
  ASSUME TypeOK, Phases, Next
  PROVE  \/ UNCHANGED wire
         \/ wire' = <<>>
         \/ Answer
         \/ \E i \in DOMAIN life : Register(i) /\ wire' = Append(wire, Call("register", i))
         \/ /\ RegistrarDown /\ outgoing \in DOMAIN life
            /\ wire' = Append(wire, Call("unregister", outgoing))
<1>1. CASE RegistrarDown
  <2>1. outgoing \in DOMAIN life
    BY <1>1 DEF RegistrarDown, TypeOK, Phases, Tearing
  <2> QED BY <1>1, <2>1 DEF RegistrarDown, Unregister
<1>2. ASSUME NEW i \in DOMAIN life, Register(i)
      PROVE  UNCHANGED wire \/ wire' = Append(wire, Call("register", i))
  BY <1>2 DEF Register
<1>3. CASE Reconnect
  BY <1>3 DEF Reconnect, Cut
<1>4. ASSUME NEW d \in Daemons, DaemonStarts(d) \/ DaemonStops(d)
      PROVE  UNCHANGED wire \/ wire' = <<>>
  BY <1>4, Zenon DEF DaemonStarts, DaemonStops, Cut, nmVars
<1>5. ASSUME NEW i \in DOMAIN life,
             \/ WatcherStops(i) \/ RegistrarStops(i) \/ Unpark(i) \/ Write(i)
             \/ CallExpires(i)
      PROVE  UNCHANGED wire
  BY <1>5 DEF WatcherStops, RegistrarStops, Unpark, Write, CallExpires, nmVars
<1>6. CASE \/ Panic \/ NmForgets \/ Subscribes \/ Asking \/ Watch \/ Take
           \/ UnregisterExpires \/ WatcherDown \/ Start
  <2>1. Panic \/ Subscribes \/ Take => UNCHANGED wire
    BY Zenon DEF Panic, Subscribes, Take, nmVars
  <2> QED BY <1>6, <2>1 DEF NmForgets, Asking, Probe, Watch, Recheck, RecheckFails,
                            UnregisterExpires, WatcherDown, Start, nmVars
<1> QED BY <1>1, <1>2, <1>3, <1>4, <1>5, <1>6, Actions

LEMMA WireTyped ==
  ASSUME TypeOK, Phases, Next
  PROVE  WireType'
<1>1. /\ wire \in Seq(Calls) /\ life' \in Seq(Lives)
      /\ DOMAIN life \subseteq DOMAIN life' /\ DOMAIN life \subseteq Nat
      /\ \A k \in DOMAIN wire : wire[k].life \in DOMAIN life
      /\ epoch \in Nat
  BY LivesStayTyped, LenProperties DEF TypeOK, LivesStay
<1>2. CASE UNCHANGED wire \/ wire' = <<>>
  <2>1. CASE UNCHANGED wire
    BY <1>1, <2>1 DEF WireType
  <2>2. CASE wire' = <<>>
    <3>1. wire' \in Seq(Calls) /\ DOMAIN wire' = {}
      BY <2>2
    <3> QED BY <3>1 DEF WireType
  <2> QED BY <1>2, <2>1, <2>2
<1>3. ASSUME NEW i \in DOMAIN life, NEW op \in {"register", "withdraw", "unregister"},
             wire' = Append(wire, Call(op, i))
      PROVE  WireType'
  <2> DEFINE c == Call(op, i)
  <2>1. c \in Calls /\ c.life = i
    BY <1>1, <1>3 DEF Call, Calls
  <2> HIDE DEF c
  <2>2. wire' = Append(wire, c)
    BY <1>3 DEF c
  <2>3. /\ wire' \in Seq(Calls)
        /\ \A k \in DOMAIN wire' :
             (k \in DOMAIN wire /\ wire'[k] = wire[k]) \/ wire'[k] = c
    BY <1>1, <2>1, <2>2, WireGrows
  <2>4. \A k \in DOMAIN wire' : wire'[k].life \in DOMAIN life'
    BY <1>1, <2>1, <2>3
  <2> QED BY <2>3, <2>4 DEF WireType
<1>4. CASE Answer
  <2>1. /\ wire # <<>> /\ Tail(wire) \in Seq(Calls) /\ Head(wire).life \in DOMAIN life
        /\ \A k \in DOMAIN Tail(wire) : Tail(wire)[k].life \in DOMAIN life
    BY <1>1, <1>4, WireShrinks DEF Answer
  <2>2. CASE wire' = Tail(wire)
    BY <1>1, <2>1, <2>2 DEF WireType
  <2>3. CASE wire' = Append(Tail(wire), Call("withdraw", Head(wire).life))
    <3> DEFINE c == Call("withdraw", Head(wire).life)
    <3>1. c \in Calls /\ c.life \in DOMAIN life
      BY <1>1, <2>1 DEF Call, Calls
    <3>2. wire' \in Seq(Calls)
      BY <2>1, <2>3, <3>1, AppendProperties
    <3>3. ASSUME NEW k \in DOMAIN wire' PROVE wire'[k].life \in DOMAIN life
      <4>1. k \in 1..Len(Tail(wire)) + 1 /\ Len(Tail(wire)) \in Nat
        BY <2>1, <2>3, <3>1, <3>2, AppendProperties, LenProperties
      <4>2. CASE k \in 1..Len(Tail(wire))
        BY <2>1, <2>3, <3>1, <4>2, AppendProperties, LenProperties
      <4>3. CASE k = Len(Tail(wire)) + 1
        BY <2>1, <2>3, <3>1, <4>3, AppendProperties
      <4> QED BY <4>1, <4>2, <4>3
    <3> QED BY <1>1, <3>2, <3>3 DEF WireType
  <2> QED BY <1>4, <2>2, <2>3, WireAnswered
<1> QED BY <1>2, <1>3, <1>4, WireSteps

-----------------------------------------------------------------------------
(* The inductive invariants.                                               *)

\* A watcher that may still publish is the committed backend's, the one being
\* torn down, or one whose switch did not wait.
WatchersAreKnown ==
  /\ \A i \in DOMAIN life : life[i].watcher \in {"runs", "stopping"} =>
       i \in {live, outgoing} \cup loose
  /\ pc \in Tearing \ {"watcher"} =>
       life[outgoing].watcher # "stopping" \/ outgoing \in loose

\* The object is that of the NetworkManager life in hand.
MountedIsTheLife ==
  mounted = IF live # 0 /\ life[live].kind = "nm" THEN live
            ELSE IF outgoing # 0 /\ life[outgoing].kind = "nm" THEN outgoing ELSE 0

\* Calls are made on the connection we have, to a NetworkManager that is there.
CallsAreOurs ==
  /\ agent <= epoch
  /\ \A k \in DOMAIN wire : wire[k].by = epoch
  /\ "nm" \notin running => wire = <<>> /\ agent = 0

\* No switch went on without NetworkManager's registrar.
Clean == \A i \in loose : life[i].kind # "nm"

\* Nothing that a switch left behind can reach NetworkManager, and the switch
\* has the last word with it: while no object is mounted, or is about to be
\* unmounted, our last call on its way is an Unregister, waited for or not, and
\* with none on its way NetworkManager holds nothing of ours.
RegistrarsAreDone ==
  /\ \A i \in DOMAIN life : i \notin {live, outgoing} =>
       life[i].registrar \in {"none", "stopped"}
  /\ pc \in {"unregister", "start"} =>
       life[outgoing].registrar \in {"none", "stopped"}
Withdrawn == mounted = 0 \/ pc \in {"unregister", "start"}
TheLastWord ==
  Withdrawn => \/ wire = <<>> /\ agent # epoch
               \/ wire # <<>> /\ wire[Len(wire)].op = "unregister"

\* Only NetworkManager's lives have a registrar, and only they are unregistered.
RegistrarByKind ==
  /\ \A i \in DOMAIN life : life[i].kind # "nm" => life[i].registrar = "none"
  /\ pc \in {"registrar", "unregister"} => life[outgoing].kind = "nm"

-----------------------------------------------------------------------------
(* What a step leaves of the lives there were.                             *)

LifeKeeps(r, q) ==
  /\ q.kind = r.kind /\ (r.halt => q.halt)
  /\ r.registrar \in {"none", "stopped"} => q.registrar = r.registrar
  /\ q.watcher = "runs" => r.watcher = "runs"
  /\ q.watcher = "stopping" => r.watcher \in {"runs", "stopping"}
LivesKeep == \A i \in DOMAIN life : LifeKeeps(life[i], life'[i])

LEMMA SameLivesKeep ==
  ASSUME life \in Seq(Lives), UNCHANGED life
  PROVE  LivesKeep
BY DEF LivesKeep, LifeKeeps, Lives

\* One life changes: its watcher, a registrar that runs, or that it is to halt.
LEMMA FieldsKeep ==
  ASSUME life \in Seq(Lives), NEW i \in DOMAIN life,
         \/ /\ life[i].registrar \notin {"none", "stopped"}
            /\ \/ \E to : life' = [life EXCEPT ![i].registrar = to]
               \/ life' = [life EXCEPT ![i].registrar = "settle", ![i].wake = FALSE]
         \/ life' = [life EXCEPT ![i].watcher = "stopped"]
         \/ life' = [life EXCEPT ![i].watcher = IF @ = "runs" THEN "stopping" ELSE @]
         \/ life' = [life EXCEPT ![i].halt = TRUE]
         \/ life' = [life EXCEPT ![i].wake = TRUE]
  PROVE  LivesKeep
<1> SUFFICES ASSUME NEW j \in DOMAIN life PROVE LifeKeeps(life[j], life'[j])
  BY DEF LivesKeep
<1>1. life[j] \in Lives /\ life[i] \in Lives
  OBVIOUS
<1>2. CASE j # i
  <2>1. life'[j] = life[j]
    BY <1>2
  <2> QED BY <1>1, <2>1 DEF LifeKeeps, Lives
<1>3. CASE j = i
  BY <1>1, <1>3 DEF LifeKeeps, Lives
<1> QED BY <1>2, <1>3

LEMMA CutKeeps ==
  ASSUME life \in Seq(Lives), Cut
  PROVE  LivesKeep
<1> SUFFICES ASSUME NEW j \in DOMAIN life PROVE LifeKeeps(life[j], life'[j])
  BY DEF LivesKeep
<1>1. life' = [i \in DOMAIN life |-> [life[i] EXCEPT !.registrar = Err(@)]]
  BY DEF Cut
<1>2. life[j] \in Lives /\ life'[j] = [life[j] EXCEPT !.registrar = Err(@)]
  BY <1>1
<1>3. life[j].registrar \in {"none", "stopped"} => Err(life[j].registrar) = life[j].registrar
  BY DEF Err
<1> QED BY <1>2, <1>3 DEF LifeKeeps, Lives

LEMMA CommitKeeps ==
  ASSUME life \in Seq(Lives), NEW kind \in Kinds, Commit(kind)
  PROVE  LivesKeep
<1>1. \A i \in DOMAIN life : life'[i] = life[i] /\ life[i] \in Lives
  BY CommitLives
<1> QED BY <1>1 DEF LivesKeep, LifeKeeps, Lives

LEMMA LivesAreKept ==
  ASSUME TypeOK, Phases, Next
  PROVE  LivesKeep
<1>0. /\ life \in Seq(Lives) /\ live \in {0} \cup DOMAIN life
      /\ outgoing \in {0} \cup DOMAIN life
      /\ \A k \in DOMAIN wire : wire[k].life \in DOMAIN life
      /\ choice \in Kinds /\ \A deaf \in SUBSET Queries : Verdict(deaf) \in Kinds
  BY DEF TypeOK, Verdict, Kinds, Daemons
<1>1. CASE UNCHANGED life
  BY <1>0, <1>1, SameLivesKeep
<1>2. CASE Reconnect
  BY <1>0, <1>2, CutKeeps DEF Reconnect
<1>3. ASSUME NEW d \in Daemons, DaemonStarts(d) \/ DaemonStops(d) PROVE LivesKeep
  <2>1. UNCHANGED life \/ Cut
    BY <1>3, Zenon DEF DaemonStarts, DaemonStops
  <2> QED BY <1>0, <1>1, <2>1, CutKeeps
<1>4. CASE Panic
  <2>1. UNCHANGED life \/ (outgoing # 0 /\ life' = [life EXCEPT ![outgoing].halt = TRUE])
    BY <1>4, Zenon DEF Panic
  <2> QED BY <1>0, <1>1, <2>1, FieldsKeep
<1>5. CASE Answer
  <2>1. wire \in Seq(Calls) /\ wire # <<>>
    BY <1>5 DEF Answer, TypeOK
  <2>2. Head(wire).life \in DOMAIN life
    BY <1>0, <2>1, WireShrinks
  <2> DEFINE m == Head(wire)
  <2>3. \/ UNCHANGED life
        \/ /\ life[m.life].registrar \in {"first", "withdraw", "second"}
           /\ \E to : life' = [life EXCEPT ![m.life].registrar = to]
    BY <1>5 DEF Answer
  <2> QED BY <1>0, <1>1, <2>2, <2>3, FieldsKeep
<1>6. ASSUME NEW i \in DOMAIN life,
             \/ WatcherStops(i) \/ RegistrarStops(i) \/ Register(i)
             \/ Unpark(i) \/ Write(i)
      PROVE  LivesKeep
  <2>1. CASE WatcherStops(i)
    BY <1>0, <1>6, <2>1, FieldsKeep DEF WatcherStops
  <2>2. CASE RegistrarStops(i)
    BY <1>0, <1>6, <2>2, FieldsKeep DEF RegistrarStops
  <2>3. CASE Register(i)
    <3> DEFINE to == IF life[i].registrar = "settle" THEN "first" ELSE "second"
    <3>1. /\ life[i].registrar \notin {"none", "stopped"}
          /\ \/ life' = [life EXCEPT ![i].registrar = to]
             \/ life' = [life EXCEPT ![i].registrar = "retry"]
      BY <2>3 DEF Register
    <3> HIDE DEF to
    <3> QED BY <1>0, <1>6, <3>1, FieldsKeep
  <2>4. CASE Unpark(i)
    <3>1. /\ life[i].registrar \notin {"none", "stopped"}
          /\ \/ life' = [life EXCEPT ![i].registrar = "settle"]
             \/ life' = [life EXCEPT ![i].registrar = "settle", ![i].wake = FALSE]
      BY <2>4 DEF Unpark
    <3> QED BY <1>0, <1>6, <3>1, FieldsKeep
  <2>5. CASE Write(i)
    BY <1>1, <2>5 DEF Write
  <2> QED BY <1>6, <2>1, <2>2, <2>3, <2>4, <2>5
<1>7. ASSUME NEW kind, Retire(kind), live # 0 PROVE LivesKeep
  BY <1>0, <1>7, FieldsKeep DEF Retire
<1>8. CASE Renew
  <2>1. \/ UNCHANGED life
        \/ live # 0 /\ life' = [life EXCEPT ![live].wake = TRUE]
    BY <1>8 DEF Renew
  <2> QED BY <1>0, <1>1, <2>1, FieldsKeep
<1>9. CASE Start
  BY <1>0, <1>9, CommitKeeps DEF Start
<1>10. ASSUME NEW deaf \in SUBSET Queries,
              Probe(deaf) \/ Recheck(deaf) \/ RecheckFails(deaf)
       PROVE  LivesKeep
  <2>1. CASE Probe(deaf)
    BY <1>0, <1>1, <1>7, <2>1, CommitKeeps DEF Probe
  <2>2. CASE Recheck(deaf) \/ RecheckFails(deaf)
    <3>1. pc = "settling" /\ live # 0
      BY <2>2 DEF Recheck, RecheckFails, Phases, Tearing
    <3> QED BY <1>7, <1>8, <2>2, <3>1 DEF Recheck, RecheckFails
  <2> QED BY <1>10, <2>1, <2>2
<1>11. CASE WatcherDown
  <2>1. outgoing # 0 /\ life' = [life EXCEPT ![outgoing].halt = TRUE]
    BY <1>11 DEF WatcherDown, Phases, Tearing
  <2> QED BY <1>0, <2>1, FieldsKeep
<1>12. CASE NmForgets \/ Subscribes \/ Watch \/ Take \/ RegistrarDown \/ UnregisterExpires
  BY <1>1, <1>12 DEF NmForgets, Subscribes, Watch, Take, RegistrarDown, UnregisterExpires
<1>13. ASSUME NEW i \in DOMAIN life, CallExpires(i) PROVE LivesKeep
  <2>1. /\ life[i].registrar \notin {"none", "stopped"}
        /\ \E to : life' = [life EXCEPT ![i].registrar = to]
    BY <1>13 DEF CallExpires
  <2> QED BY <1>0, <2>1, FieldsKeep
<1> QED BY <1>2, <1>3, <1>4, <1>5, <1>6, <1>9, <1>10, <1>11, <1>12, <1>13, Actions
        DEF Asking

\* The four things a step may do with the slot, and leaving it alone.
Rests ==
  /\ UNCHANGED <<live, outgoing, published, mounted, choice, loose>>
  /\ DOMAIN life' = DOMAIN life
  /\ \/ pc' = pc
     \/ live # 0 /\ pc' \in {"probing", "subscribe", "watching", "settling"}
     \/ pc \in Tearing /\ pc' = "start" /\ pc = "unregister"
  /\ \/ shown' = shown
     \/ \E i \in DOMAIN life :
          life[i].watcher \in {"runs", "stopping"} /\ shown' = i
Commits ==
  /\ \E kind \in Kinds : Commit(kind)
  /\ live = 0 /\ pc \in {"probing", "start"}
  /\ outgoing' = 0 /\ pc' \in {"subscribe", "watching"}
  /\ UNCHANGED <<choice, loose>>
  /\ IF pc = "start" THEN shown' = 0 ELSE shown' = shown
Retires ==
  /\ \E kind \in Kinds : Retire(kind)
  /\ live # 0 /\ pc \notin Tearing /\ UNCHANGED <<loose, shown>>
Advances ==
  /\ WatcherDown \/ RegistrarDown
  /\ DOMAIN life' = DOMAIN life /\ live = 0 /\ outgoing # 0
  /\ pc \in Tearing /\ pc' \in Tearing \ {"watcher"}
  /\ UNCHANGED <<live, outgoing, published, mounted, choice, shown>>
Crashes ==
  /\ pc' = "probing" /\ outgoing' = 0 /\ DOMAIN life' = DOMAIN life
  /\ UNCHANGED <<live, published, choice, shown>>
  /\ loose' = IF outgoing = 0 THEN loose ELSE loose \cup {outgoing}
  /\ mounted' = IF outgoing # 0 /\ mounted = outgoing THEN 0 ELSE mounted
  /\ outgoing # 0 => life'[outgoing].halt

LEMMA SlotSteps ==
  ASSUME TypeOK, Phases, Next
  PROVE  Rests \/ Commits \/ Retires \/ Advances \/ Crashes
<1>0. /\ life \in Seq(Lives) /\ live \in {0} \cup DOMAIN life
      /\ outgoing \in {0} \cup DOMAIN life
      /\ choice \in Kinds /\ \A deaf \in SUBSET Queries : Verdict(deaf) \in Kinds
  BY DEF TypeOK, Verdict, Kinds, Daemons
<1>1. ASSUME UNCHANGED <<life, slotVars, pc, choice, shown, loose>> PROVE Rests
  BY <1>1 DEF Rests, slotVars
<1>2. ASSUME Cut, UNCHANGED <<slotVars, shown, loose>> PROVE Rests
  <2>1. DOMAIN life' = DOMAIN life
    BY <1>0, <1>2, CutLives
  <2>2. choice' = choice /\ pc' = IF pc = "unregister" THEN "start" ELSE pc
    BY <1>2, Zenon DEF Cut
  <2>3. UNCHANGED <<live, outgoing, published, mounted, choice, loose>> /\ shown' = shown
    BY <1>2, <2>2 DEF slotVars
  <2> QED BY <2>1, <2>2, <2>3 DEF Rests, Tearing
<1>3. CASE Reconnect
  BY <1>2, <1>3 DEF Reconnect
<1>4. ASSUME NEW d \in Daemons, DaemonStarts(d) \/ DaemonStops(d) PROVE Rests
  <2>1. /\ Cut \/ UNCHANGED <<life, taskVars>>
        /\ UNCHANGED <<slotVars, shown, loose>>
    BY <1>4, Zenon DEF DaemonStarts, DaemonStops
  <2> QED BY <1>1, <1>2, <2>1 DEF taskVars
<1>5. CASE Answer
  <2>1. /\ UNCHANGED <<slotVars, choice, shown, loose>>
        /\ pc' = pc \/ (pc = "unregister" /\ pc' = "start")
    BY <1>5 DEF Answer
  <2>2. UNCHANGED <<live, outgoing, published, mounted, choice, loose, shown>>
    BY <2>1 DEF slotVars
  <2>3. DOMAIN life' = DOMAIN life
    BY <1>5 DEF Answer
  <2> QED BY <2>1, <2>2, <2>3 DEF Rests, Tearing
<1>6. ASSUME NEW i \in DOMAIN life,
             \/ WatcherStops(i) \/ RegistrarStops(i) \/ Register(i) \/ Unpark(i)
             \/ CallExpires(i)
      PROVE  Rests
  <2>1. UNCHANGED <<slotVars, taskVars, shown, loose>>
    BY <1>6 DEF WatcherStops, RegistrarStops, Register, Unpark, CallExpires
  <2>2. DOMAIN life' = DOMAIN life
    BY <1>6 DEF WatcherStops, RegistrarStops, Register, Unpark, CallExpires
  <2> QED BY <2>1, <2>2 DEF Rests, slotVars, taskVars
<1>7. ASSUME NEW i \in DOMAIN life, Write(i) PROVE Rests
  <2>1. /\ UNCHANGED <<life, slotVars, taskVars, loose>> /\ shown' = i
        /\ life[i].watcher \in {"runs", "stopping"}
    BY <1>7 DEF Write
  <2> QED BY <2>1 DEF Rests, slotVars, taskVars
<1>8. ASSUME Renew, pc = "settling", UNCHANGED <<slotVars, choice, shown, loose>>
      PROVE  Rests
  <2>1. live # 0
    BY <1>8 DEF Phases, Tearing
  <2>2. DOMAIN life' = DOMAIN life /\ pc' = "watching"
    BY <1>0, <1>8, RenewLives DEF Renew
  <2> QED BY <1>8, <2>1, <2>2 DEF Rests, slotVars
<1>9. ASSUME NEW deaf \in SUBSET Queries, Probe(deaf)
      PROVE  Rests \/ Commits \/ Retires
  <2>1. CASE live = 0
    <3>1. /\ Commit(Verdict(deaf)) /\ pc' = "subscribe" /\ pc = "probing"
          /\ UNCHANGED <<outgoing, choice, shown, loose>>
      BY <1>9, <2>1 DEF Probe
    <3>2. outgoing = 0
      BY <3>1 DEF Phases, Tearing
    <3> QED BY <1>0, <2>1, <3>1, <3>2 DEF Commits
  <2>2. CASE live # 0 /\ SwitchNeeded(Verdict(deaf))
    <3>1. Retire(Verdict(deaf)) /\ pc = "probing" /\ UNCHANGED <<loose, shown>>
      BY <1>9, <2>2 DEF Probe
    <3> QED BY <1>0, <2>2, <3>1 DEF Retires, Tearing
  <2>3. CASE live # 0 /\ ~SwitchNeeded(Verdict(deaf))
    <3>1. pc' = "subscribe" /\ UNCHANGED <<life, slotVars, choice, shown, loose>>
      BY <1>9, <2>3 DEF Probe
    <3> QED BY <2>3, <3>1 DEF Rests, slotVars
  <2> QED BY <2>1, <2>2, <2>3
<1>10. ASSUME NEW deaf \in SUBSET Queries, Recheck(deaf) PROVE Rests \/ Retires
  <2>1. pc = "settling" /\ live # 0
    BY <1>10 DEF Recheck, Phases, Tearing
  <2>2. CASE SwitchNeeded(Verdict(deaf))
    BY <1>0, <1>10, <2>1, <2>2 DEF Recheck, Retires, Tearing
  <2>3. CASE ~SwitchNeeded(Verdict(deaf))
    BY <1>8, <1>10, <2>1, <2>3 DEF Recheck
  <2> QED BY <2>2, <2>3
<1>11. ASSUME NEW deaf \in SUBSET Queries, RecheckFails(deaf) PROVE Rests
  BY <1>8, <1>11 DEF RecheckFails
<1>12. CASE Watch \/ Take
  <2>1. /\ pc \in {"subscribe", "watching"} /\ pc' \in {"watching", "settling"}
        /\ UNCHANGED <<life, slotVars, choice, shown, loose>>
    BY <1>12, Zenon DEF Watch, Take
  <2>2. live # 0
    BY <2>1 DEF Phases, Tearing
  <2> QED BY <2>1, <2>2 DEF Rests, slotVars
<1>13. CASE WatcherDown
  <2>1. live = 0 /\ outgoing # 0 /\ pc \in Tearing
    BY <1>13 DEF WatcherDown, Phases, Tearing
  <2>2. /\ pc' \in Tearing \ {"watcher"} /\ UNCHANGED <<slotVars, choice, shown>>
        /\ DOMAIN life' = DOMAIN life
    BY <1>13 DEF WatcherDown, Tearing
  <2> QED BY <1>13, <2>1, <2>2 DEF Advances, slotVars
<1>14. CASE RegistrarDown
  <2>1. live = 0 /\ outgoing # 0 /\ pc \in Tearing
    BY <1>14 DEF RegistrarDown, Phases, Tearing
  <2>2. pc' \in Tearing \ {"watcher"} /\ UNCHANGED <<slotVars, choice, shown, life>>
    BY <1>14 DEF RegistrarDown, Unregister, Tearing
  <2> QED BY <1>14, <2>1, <2>2 DEF Advances, slotVars
<1>15. CASE Start
  <2>1. live = 0
    BY <1>15 DEF Start, Phases, Tearing
  <2>2. /\ Commit(choice) /\ pc = "start" /\ pc' \in {"subscribe", "watching"}
        /\ shown' = 0 /\ outgoing' = 0 /\ UNCHANGED <<choice, loose>>
    BY <1>15 DEF Start
  <2> QED BY <1>0, <2>1, <2>2 DEF Commits
<1>16. CASE Panic
  <2>1. /\ pc' = "probing" /\ outgoing' = 0
        /\ UNCHANGED <<live, published, choice, shown>>
    BY <1>16, Zenon DEF Panic
  <2>2. CASE outgoing = 0
    <3>1. UNCHANGED <<life, loose, mounted>>
      BY <1>16, <2>2, Zenon DEF Panic
    <3> QED BY <2>1, <2>2, <3>1 DEF Crashes
  <2>3. CASE outgoing # 0
    <3>1. /\ life' = [life EXCEPT ![outgoing].halt = TRUE]
          /\ loose' = loose \cup {outgoing}
          /\ mounted' = IF mounted = outgoing THEN 0 ELSE mounted
      BY <1>16, <2>3, Zenon DEF Panic
    <3>2. outgoing \in DOMAIN life /\ life[outgoing] \in Lives
      BY <1>0, <2>3
    <3>3. DOMAIN life' = DOMAIN life /\ life'[outgoing].halt
      BY <3>1, <3>2 DEF Lives
    <3> QED BY <2>1, <2>3, <3>1, <3>3 DEF Crashes
  <2> QED BY <2>2, <2>3
<1>17. CASE NmForgets \/ Subscribes
  <2>1. UNCHANGED <<life, slotVars, taskVars, shown, loose>>
    BY <1>17, Zenon DEF NmForgets, Subscribes
  <2> QED BY <1>1, <2>1 DEF taskVars
<1>18. CASE UnregisterExpires
  <2>1. /\ pc = "unregister" /\ pc' = "start"
        /\ UNCHANGED <<life, slotVars, choice, shown, loose>>
    BY <1>18, Zenon DEF UnregisterExpires
  <2> QED BY <2>1 DEF Rests, Tearing, slotVars
<1> QED BY <1>3, <1>4, <1>5, <1>6, <1>7, <1>9, <1>10, <1>11, <1>12, <1>13, <1>14,
           <1>15, <1>16, <1>17, <1>18, Actions DEF Asking

LEMMA PhasesStay ==
  ASSUME TypeOK, Phases, Next
  PROVE  Phases'
<1>0. /\ live \in {0} \cup DOMAIN life /\ outgoing \in {0} \cup DOMAIN life
      /\ life \in Seq(Lives)
  BY DEF TypeOK
<1>1. CASE Rests
  BY <1>1 DEF Rests, Phases, Tearing
<1>2. CASE Commits
  <2>1. live' # 0
    BY <1>0, <1>2, CommitLives DEF Commits
  <2> QED BY <1>2, <2>1 DEF Commits, Phases, Tearing
<1>3. CASE Retires
  BY <1>3 DEF Retires, Retire, Phases, Tearing
<1>4. CASE Advances
  BY <1>4 DEF Advances, Phases, Tearing
<1>5. CASE Crashes
  BY <1>5 DEF Crashes, Phases, Tearing
<1> QED BY <1>1, <1>2, <1>3, <1>4, <1>5, SlotSteps

SlotType ==
  /\ live \in {0} \cup DOMAIN life /\ outgoing \in {0} \cup DOMAIN life
  /\ pc \in {"probing", "subscribe", "watching", "settling", "watcher",
             "registrar", "unregister", "start"}
  /\ choice \in Kinds /\ published \in Kinds
  /\ shown \in {0} \cup DOMAIN life /\ mounted \in {0} \cup DOMAIN life
  /\ loose \subseteq DOMAIN life

LEMMA SlotTyped ==
  ASSUME TypeOK, Phases, Next
  PROVE  SlotType'
<1>0. SlotType /\ life \in Seq(Lives)
  BY DEF TypeOK, SlotType
<1>1. CASE Rests
  BY <1>0, <1>1 DEF Rests, SlotType
<1>2. CASE Commits
  <2>1. PICK kind \in Kinds : Commit(kind)
    BY <1>2 DEF Commits
  <2>2. DOMAIN life' = DOMAIN life \cup {live'}
    BY <1>0, <2>1, CommitLives
  <2>3. mounted' \in {0, live'} /\ published' = kind
    BY <2>1 DEF Commit
  <2>4. shown' \in {0, shown} /\ loose' = loose /\ choice' = choice /\ outgoing' = 0
    BY <1>2 DEF Commits
  <2>5. pc' \in {"subscribe", "watching"}
    BY <1>2 DEF Commits
  <2> QED BY <1>0, <2>1, <2>2, <2>3, <2>4, <2>5 DEF SlotType
<1>3. CASE Retires
  <2>1. PICK kind \in Kinds : Retire(kind)
    BY <1>3 DEF Retires
  <2>2. DOMAIN life' = DOMAIN life
    BY <2>1 DEF Retire
  <2> QED BY <1>0, <1>3, <2>1, <2>2 DEF Retires, Retire, SlotType, Kinds
<1>4. CASE Advances
  <2>1. loose' = loose \/ loose' = loose \cup {outgoing}
    BY <1>4 DEF Advances, WatcherDown, RegistrarDown, GoesOn
  <2> QED BY <1>0, <1>4, <2>1 DEF Advances, SlotType, Tearing
<1>5. CASE Crashes
  BY <1>0, <1>5 DEF Crashes, SlotType
<1> QED BY <1>1, <1>2, <1>3, <1>4, <1>5, SlotSteps

LEMMA LeftTyped ==
  ASSUME TypeOK, Next
  PROVE  left' \in [Bounds -> Nat]
<1>0. left \in [Bounds -> Nat]
  BY DEF TypeOK
<1>1. ASSUME NEW b \in Bounds, Spend(b) PROVE left' \in [Bounds -> Nat]
  BY <1>0, <1>1 DEF Spend
<1>2. CASE UNCHANGED left
  BY <1>0, <1>2
<1>3. \/ UNCHANGED left
      \/ \E b \in Bounds : Spend(b)
  <2>1. CASE Panic \/ Reconnect \/ UnregisterExpires
    BY <2>1, Zenon DEF Panic, Reconnect, UnregisterExpires, Bounds
  <2>2. ASSUME NEW d \in Daemons, DaemonStarts(d) \/ DaemonStops(d)
        PROVE  Spend("daemons")
    BY <2>2, Zenon DEF DaemonStarts, DaemonStops
  <2>3. CASE WatcherDown \/ RegistrarDown
    BY <2>3, Zenon DEF WatcherDown, RegistrarDown, GoesOn, Bounds
  <2>4. ASSUME NEW i \in DOMAIN life,
               \/ WatcherStops(i) \/ RegistrarStops(i) \/ Register(i)
               \/ Unpark(i) \/ Write(i)
        PROVE  UNCHANGED left
    BY <2>4, Zenon DEF WatcherStops, RegistrarStops, Register, Unpark, Write
  <2>5. CASE Answer \/ NmForgets \/ Subscribes \/ Watch \/ Take \/ Start
    BY <2>5, Zenon DEF Answer, NmForgets, Subscribes, Watch, Take, Start
  <2>6. {"daemons", "deaf", "timeouts"} \subseteq Bounds
    BY DEF Bounds
  <2>7. ASSUME NEW deaf \in SUBSET Queries,
               Probe(deaf) \/ Recheck(deaf) \/ RecheckFails(deaf)
        PROVE  UNCHANGED left \/ Spend("deaf")
    <3>1. Ask(deaf)
      BY <2>7, Zenon DEF Probe, Recheck, RecheckFails
    <3> QED BY <3>1 DEF Ask
  <2>8. ASSUME NEW i \in DOMAIN life, CallExpires(i) PROVE Spend("timeouts")
    BY <2>8, Zenon DEF CallExpires
  <2> QED BY <2>1, <2>2, <2>3, <2>4, <2>5, <2>6, <2>7, <2>8, Actions DEF Asking
<1> QED BY <1>1, <1>2, <1>3

LEMMA AgentTyped ==
  ASSUME TypeOK, Next
  PROVE  agent' \in Nat /\ renews' \in BOOLEAN
<1>0. agent \in Nat /\ renews \in BOOLEAN /\ wire \in Seq(Calls)
  BY DEF TypeOK
<1>1. CASE Answer
  <2>1. Head(wire) \in Calls
    BY <1>0, <1>1, WireShrinks DEF Answer
  <2>2. Head(wire).by \in Nat
    BY <2>1 DEF Calls
  <2>3. agent' \in {agent, Head(wire).by, 0}
    BY <1>1 DEF Answer
  <2>4. renews' = renews
    BY <1>1, Zenon DEF Answer
  <2> QED BY <1>0, <2>2, <2>3, <2>4
<1>2. ASSUME NEW d \in Daemons, DaemonStarts(d) \/ DaemonStops(d)
      PROVE  agent' \in {agent, 0} /\ renews' = renews
  <2>1. CASE DaemonStarts(d)
    BY <2>1 DEF DaemonStarts, nmVars, taskVars
  <2>2. CASE DaemonStops(d)
    <3>1. \/ agent' = 0 /\ Cut
          \/ UNCHANGED <<nmVars, life, taskVars>>
      BY <2>2, Zenon DEF DaemonStops
    <3>2. Cut => renews' = renews
      BY Zenon DEF Cut
    <3> QED BY <3>1, <3>2 DEF nmVars, taskVars
  <2> QED BY <1>2, <2>1, <2>2
<1>3. CASE Take
  <2>1. agent' = agent
    BY <1>3, Zenon DEF Take, nmVars
  <2>2. renews' = TRUE \/ renews' = (Head(items) = "renew")
    BY <1>3, Zenon DEF Take
  <2>3. renews' \in BOOLEAN
    BY <2>2, Zenon
  <2> QED BY <1>0, <2>1, <2>3, Zenon
<1>4. CASE NmForgets
  <2>1. agent' = 0 /\ renews' = renews
    BY <1>4, Zenon DEF NmForgets, taskVars
  <2>2. 0 \in Nat
    OBVIOUS
  <2> QED BY <1>0, <2>1, <2>2, Zenon
<1>5. ASSUME NEW i \in DOMAIN life,
             \/ WatcherStops(i) \/ RegistrarStops(i) \/ Register(i)
             \/ Unpark(i) \/ Write(i) \/ CallExpires(i)
      PROVE  UNCHANGED <<agent, renews>>
  BY <1>5, Zenon DEF WatcherStops, RegistrarStops, Register, Unpark, Write,
                     CallExpires, nmVars, taskVars
<1>6. ASSUME Asking \/ Watch \/ UnregisterExpires \/ WatcherDown \/ Start
      PROVE  UNCHANGED <<agent, renews>>
  BY <1>6, Zenon DEF Asking, Probe, Watch, Recheck, RecheckFails, UnregisterExpires,
                     WatcherDown, Start, nmVars
<1>7. ASSUME Panic \/ Subscribes \/ Reconnect \/ RegistrarDown
      PROVE  UNCHANGED <<agent, renews>>
  <2>1. Panic => UNCHANGED <<agent, renews>>
    BY Zenon DEF Panic, nmVars
  <2>2. Subscribes => UNCHANGED <<agent, renews>>
    BY Zenon DEF Subscribes, nmVars, taskVars
  <2>3. Reconnect => UNCHANGED <<agent, renews>>
    BY Zenon DEF Reconnect, Cut
  <2>4. RegistrarDown => UNCHANGED <<agent, renews>>
    BY Zenon DEF RegistrarDown
  <2> QED BY <1>7, <2>1, <2>2, <2>3, <2>4, Zenon
<1>8. agent' \in {agent, 0} /\ renews' = renews => agent' \in Nat /\ renews' \in BOOLEAN
  <2>1. agent' \in {agent, 0} => agent' \in Nat
    BY <1>0
  <2> QED BY <1>0, <2>1, Zenon
<1>9. CASE UNCHANGED <<agent, renews>>
  BY <1>8, <1>9, Zenon
<1> QED BY <1>1, <1>2, <1>3, <1>4, <1>5, <1>6, <1>7, <1>8, <1>9, Actions, Zenon

Typed == TypeOK /\ Phases

LEMMA TypedInitially == Init => Typed
<1> SUFFICES ASSUME Init PROVE Typed
  OBVIOUS
<1>1. /\ wire \in Seq(Calls) /\ items \in Seq({"renew", "look"})
      /\ life \in Seq(Lives)
      /\ DOMAIN wire = {}
  BY DEF Init
<1>2. running \subseteq Daemons /\ activatable \subseteq Daemons
      /\ left \in [Bounds -> Nat]
  BY WifiSwitchAssumption DEF Init
<1>3. Phases
  BY DEF Init, Phases, Tearing
<1>4. "none" \in Kinds
  BY DEF Kinds
<1>5. BusType
  <2>1. lagged \in BOOLEAN
    BY Zenon DEF Init
  <2>2. epoch \in Nat \ {0} /\ sub = "none"
    BY DEF Init
  <2> QED BY <1>1, <1>2, <2>1, <2>2 DEF BusType
<1>6. WireType /\ left \in [Bounds -> Nat]
  BY <1>1, <1>2 DEF WireType
<1>7. SlotType
  BY <1>4 DEF Init, SlotType
<1>8. agent \in Nat /\ renews \in BOOLEAN
  <2>1. agent = 0 /\ renews = FALSE
    BY Zenon DEF Init
  <2> QED BY <2>1
<1> QED BY <1>1, <1>3, <1>5, <1>6, <1>7, <1>8
  DEF Typed, TypeOK, BusType, WireType, SlotType

LEMMA TypedStays == Typed /\ [Next]_vars => Typed'
<1> SUFFICES ASSUME TypeOK, Phases, [Next]_vars PROVE Typed'
  BY DEF Typed
<1>1. CASE Next
  <2>1. life' \in Seq(Lives)
    BY <1>1, LivesStayTyped DEF LivesStay
  <2>2. BusType' /\ WireType' /\ SlotType' /\ Phases'
    BY <1>1, BusTyped, WireTyped, SlotTyped, PhasesStay
  <2>3. left' \in [Bounds -> Nat] /\ agent' \in Nat /\ renews' \in BOOLEAN
    BY <1>1, LeftTyped, AgentTyped
  <2> QED BY <2>1, <2>2, <2>3
    DEF Typed, TypeOK, BusType, WireType, SlotType
<1>2. CASE UNCHANGED vars
  BY <1>2 DEF Typed, TypeOK, Phases, vars, worldVars, nmVars, subVars, slotVars,
             taskVars
<1> QED BY <1>1, <1>2

\* Every variable keeps its type: each call on the wire and each slot names a
\* backend that was started.
THEOREM TypeCorrect == Spec => []TypeOK
<1>1. Typed => TypeOK
  BY DEF Typed
<1> QED BY <1>1, TypedInitially, TypedStays, PTL DEF Spec

-----------------------------------------------------------------------------
(* One backend runs.                                                       *)

Told(i) ==
  /\ life[i].watcher # "runs"
  /\ \/ life[i].registrar \in {"none", "stopped"} \/ life[i].halt
     \/ i = outgoing /\ pc = "watcher"

\* Whoever was told stays told, unless the task leaves the wait for the watcher.
LEMMA ToldStays ==
  ASSUME LivesKeep, NEW i \in DOMAIN life, Told(i),
         i = outgoing /\ pc = "watcher" => \/ i = outgoing' /\ pc' = "watcher"
                                           \/ life'[i].halt
  PROVE  Told(i)'
<1>1. LifeKeeps(life[i], life'[i])
  BY DEF LivesKeep
<1> QED BY <1>1 DEF Told, LifeKeeps

LEMMA OneBackendStays ==
  ASSUME Typed, OneBackendRuns, Next
  PROVE  OneBackendRuns'
<1>0. /\ TypeOK /\ Phases /\ LivesKeep /\ life \in Seq(Lives)
      /\ live \in {0} \cup DOMAIN life /\ outgoing \in {0} \cup DOMAIN life
      /\ 0 \notin DOMAIN life
  <2>1. TypeOK /\ Phases
    BY DEF Typed
  <2>2. life \in Seq(Lives) /\ live \in {0} \cup DOMAIN life
        /\ outgoing \in {0} \cup DOMAIN life
    BY <2>1 DEF TypeOK
  <2> QED BY <2>1, <2>2, LivesAreKept, LenProperties
<1>1. /\ \A i \in DOMAIN life \ {live} : Told(i)
      /\ published # "none" => live # 0 /\ life[live].kind = published
  BY DEF OneBackendRuns, Told
<1>2. \A i \in DOMAIN life : life'[i].kind = life[i].kind
  BY <1>0 DEF LivesKeep, LifeKeeps
<1> SUFFICES /\ \A i \in DOMAIN life' \ {live'} : Told(i)'
             /\ published' # "none" => live' # 0 /\ life'[live'].kind = published'
  BY DEF OneBackendRuns, Told
<1>3. CASE Rests
  <2>1. ASSUME NEW i \in DOMAIN life \ {live} PROVE Told(i)'
    <3>1. i = outgoing /\ pc = "watcher" => outgoing' = outgoing /\ pc' = "watcher"
      BY <1>0, <1>3 DEF Rests, Phases, Tearing
    <3> QED BY <1>0, <1>1, <3>1, ToldStays
  <2> QED BY <1>0, <1>1, <1>2, <1>3, <2>1 DEF Rests
<1>4. CASE Commits
  <2>1. PICK kind \in Kinds : Commit(kind)
    BY <1>4 DEF Commits
  <2>2. /\ DOMAIN life' = DOMAIN life \cup {live'} /\ live' # 0
        /\ life'[live'].kind = kind /\ published' = kind
    BY <1>0, <2>1, CommitLives DEF Commit, Started
  <2>3. ASSUME NEW i \in DOMAIN life PROVE Told(i)'
    <3>1. live = 0 /\ pc # "watcher"
      BY <1>4 DEF Commits
    <3> QED BY <1>0, <1>1, <3>1, ToldStays
  <2> QED BY <2>2, <2>3
<1>5. CASE Retires
  <2>1. PICK kind \in Kinds : Retire(kind)
    BY <1>5 DEF Retires
  <2>2. live \in DOMAIN life /\ outgoing = 0
    BY <1>0, <1>5 DEF Retires, Phases
  <2>3. ASSUME NEW i \in DOMAIN life, i = live PROVE Told(i)'
    <3>1. life[live] \in Lives
      BY <1>0, <2>2
    <3>2. life'[live].watcher # "runs" /\ outgoing' = live /\ pc' = "watcher"
      BY <2>1, <2>2, <3>1 DEF Retire, Lives
    <3> QED BY <2>3, <3>2 DEF Told
  <2>4. ASSUME NEW i \in DOMAIN life, i # live PROVE Told(i)'
    BY <1>0, <1>1, <2>2, <2>4, ToldStays
  <2>5. DOMAIN life' = DOMAIN life /\ published' = "none"
    BY <2>1 DEF Retire
  <2> QED BY <2>3, <2>4, <2>5
<1>6. CASE Advances
  <2>1. ASSUME NEW i \in DOMAIN life PROVE Told(i)'
    <3>1. i = outgoing /\ pc = "watcher" => life'[i].halt
      <4>1. CASE WatcherDown
        <5>1. life[i] \in Lives
          BY <1>0
        <5> QED BY <4>1, <5>1 DEF WatcherDown, Lives
      <4>2. CASE RegistrarDown
        BY <4>2 DEF RegistrarDown
      <4> QED BY <1>6, <4>1, <4>2 DEF Advances
    <3>2. live = 0
      BY <1>6 DEF Advances
    <3> QED BY <1>0, <1>1, <3>1, <3>2, ToldStays
  <2>2. published' = published /\ live' = live /\ live = 0 /\ DOMAIN life' = DOMAIN life
    BY <1>6 DEF Advances
  <2> QED BY <1>1, <2>1, <2>2
<1>7. CASE Crashes
  <2>1. ASSUME NEW i \in DOMAIN life \ {live} PROVE Told(i)'
    <3>1. i = outgoing => life'[i].halt
      BY <1>0, <1>7 DEF Crashes
    <3> QED BY <1>0, <1>1, <3>1, ToldStays
  <2> QED BY <1>0, <1>1, <1>2, <1>7, <2>1 DEF Crashes
<1> QED BY <1>0, <1>3, <1>4, <1>5, <1>6, <1>7, SlotSteps

LEMMA OneBackendKept ==
  Typed /\ OneBackendRuns /\ [Next]_vars => OneBackendRuns'
<1> SUFFICES ASSUME Typed, OneBackendRuns, [Next]_vars PROVE OneBackendRuns'
  OBVIOUS
<1>1. CASE UNCHANGED vars
  BY <1>1 DEF OneBackendRuns, vars, slotVars, taskVars
<1> QED BY <1>1, OneBackendStays

\* Every backend but the committed one has been told to stop, however its
\* switch or its panic went, and commands go to the committed one alone.
THEOREM OneBackend == Spec => []OneBackendRuns
<1>1. Init => OneBackendRuns
  <2> SUFFICES ASSUME Init PROVE OneBackendRuns
    OBVIOUS
  <2>1. DOMAIN life = {} /\ published = "none"
    BY DEF Init
  <2> QED BY <2>1 DEF OneBackendRuns
<1> QED BY <1>1, TypedInitially, TypedStays, OneBackendKept, PTL DEF Spec

-----------------------------------------------------------------------------
(* The panel shows one backend.                                            *)

ShownInv == /\ Typed /\ OneBackendRuns /\ WatchersAreKnown /\ ShownIsTheBackends

LEMMA ShownStays ==
  ASSUME ShownInv, Next
  PROVE  WatchersAreKnown' /\ ShownIsTheBackends'
<1> DEFINE Writes(i) == life[i].watcher \in {"runs", "stopping"}
<1>0. /\ TypeOK /\ Phases /\ LivesKeep /\ life \in Seq(Lives)
      /\ live \in {0} \cup DOMAIN life /\ outgoing \in {0} \cup DOMAIN life
      /\ 0 \notin DOMAIN life
  <2>1. TypeOK /\ Phases
    BY DEF ShownInv, Typed
  <2>2. life \in Seq(Lives) /\ live \in {0} \cup DOMAIN life
        /\ outgoing \in {0} \cup DOMAIN life
    BY <2>1 DEF TypeOK
  <2> QED BY <2>1, <2>2, LivesAreKept, LenProperties
<1>1. /\ \A i \in DOMAIN life \ {live} : life[i].watcher # "runs"
      /\ \A i \in DOMAIN life : Writes(i) => i \in {live, outgoing} \cup loose
      /\ pc \in Tearing \ {"watcher"} =>
           life[outgoing].watcher # "stopping" \/ outgoing \in loose
      /\ shown \in {0, live, outgoing} \cup loose
  BY DEF ShownInv, OneBackendRuns, WatchersAreKnown, ShownIsTheBackends
<1>2. \A i \in DOMAIN life : Writes(i)' => Writes(i)
  BY <1>0 DEF LivesKeep, LifeKeeps
\* A retired life that still writes is one that is stopping.
<1>3. pc \in Tearing => /\ live = 0 /\ outgoing \in DOMAIN life
                       /\ life[outgoing].watcher # "runs"
  BY <1>0, <1>1 DEF Phases
<1>4. CASE Rests
  <2>1. ASSUME NEW i \in DOMAIN life', Writes(i)' PROVE i \in {live', outgoing'} \cup loose'
    BY <1>1, <1>2, <1>4, <2>1 DEF Rests
  <2>2. ASSUME pc' \in Tearing \ {"watcher"}, outgoing' \notin loose'
        PROVE  life'[outgoing'].watcher # "stopping"
    <3>1. pc \in Tearing \ {"watcher"} /\ outgoing' = outgoing /\ outgoing \notin loose
      BY <1>0, <1>4, <2>2 DEF Rests, Phases, Tearing
    <3>2. outgoing \in DOMAIN life /\ ~Writes(outgoing)
      BY <1>1, <1>3, <3>1
    <3>3. LifeKeeps(life[outgoing], life'[outgoing])
      BY <1>0, <3>2 DEF LivesKeep
    <3> QED BY <3>1, <3>2, <3>3 DEF LifeKeeps
  <2>3. shown' \in {0, live', outgoing'} \cup loose'
    BY <1>1, <1>4 DEF Rests
  <2> QED BY <2>1, <2>2, <2>3 DEF WatchersAreKnown, ShownIsTheBackends
<1>5. CASE Commits
  <2>1. DOMAIN life' = DOMAIN life \cup {live'}
    BY <1>0, <1>5, CommitLives DEF Commits
  <2>2. /\ pc \in {"probing", "start"} /\ pc' \notin Tearing /\ outgoing' = 0
        /\ loose' = loose /\ live = 0
        /\ shown' = IF pc = "start" THEN 0 ELSE shown
    BY <1>5 DEF Commits, Tearing
  <2>3. pc = "probing" => outgoing = 0
    BY <1>0 DEF Phases, Tearing
  <2>4. ASSUME NEW i \in DOMAIN life', Writes(i)' PROVE i \in {live', outgoing'} \cup loose'
    <3>1. CASE i \in DOMAIN life
      <4>1. i \in {0, outgoing} \cup loose /\ i # 0
        BY <1>0, <1>1, <1>2, <2>2, <2>4, <3>1
      <4>2. i = outgoing => outgoing \in loose
        BY <1>1, <1>2, <1>3, <2>2, <2>3, <2>4, <3>1, <4>1 DEF Tearing
      <4> QED BY <2>2, <4>1, <4>2
    <3> QED BY <2>1, <3>1
  <2>5. shown' \in {0, live', outgoing'} \cup loose'
    BY <1>1, <2>2, <2>3
  <2> QED BY <2>2, <2>4, <2>5 DEF WatchersAreKnown, ShownIsTheBackends
<1>6. CASE Retires
  <2>1. live' = 0 /\ outgoing' = live /\ pc' = "watcher" /\ DOMAIN life' = DOMAIN life
    BY <1>6 DEF Retires, Retire
  <2>2. outgoing = 0 /\ loose' = loose /\ shown' = shown
    BY <1>0, <1>6 DEF Retires, Phases
  <2>3. ASSUME NEW i \in DOMAIN life', Writes(i)' PROVE i \in {live', outgoing'} \cup loose'
    BY <1>0, <1>1, <1>2, <2>1, <2>2, <2>3
  <2>4. shown' \in {0, live', outgoing'} \cup loose'
    BY <1>1, <2>1, <2>2
  <2> QED BY <2>1, <2>3, <2>4 DEF WatchersAreKnown, ShownIsTheBackends
<1>7. CASE Advances
  <2>1. /\ UNCHANGED <<live, outgoing, shown>> /\ DOMAIN life' = DOMAIN life
        /\ pc \in Tearing /\ outgoing \in DOMAIN life
    BY <1>3, <1>7 DEF Advances
  <2>2. loose \subseteq loose'
    BY <1>7 DEF Advances, WatcherDown, RegistrarDown, GoesOn
  <2>3. ASSUME NEW i \in DOMAIN life', Writes(i)' PROVE i \in {live', outgoing'} \cup loose'
    BY <1>1, <1>2, <2>1, <2>2, <2>3
  <2>4. life[outgoing].watcher # "stopping" \/ outgoing \in loose'
    <3>1. CASE WatcherDown
      BY <3>1 DEF WatcherDown, GoesOn
    <3>2. CASE RegistrarDown
      BY <1>1, <2>2, <3>2 DEF RegistrarDown, Tearing
    <3> QED BY <1>7, <3>1, <3>2 DEF Advances
  <2>5. life'[outgoing'].watcher # "stopping" \/ outgoing' \in loose'
    <3>1. LifeKeeps(life[outgoing], life'[outgoing]) /\ life[outgoing].watcher # "runs"
      BY <1>0, <1>3, <2>1 DEF LivesKeep
    <3> QED BY <2>1, <2>4, <3>1 DEF LifeKeeps
  <2>6. shown' \in {0, live', outgoing'} \cup loose'
    BY <1>1, <2>1, <2>2
  <2> QED BY <2>3, <2>5, <2>6 DEF WatchersAreKnown, ShownIsTheBackends
<1>8. CASE Crashes
  <2>1. /\ live' = live /\ outgoing' = 0 /\ pc' = "probing" /\ shown' = shown
        /\ DOMAIN life' = DOMAIN life
        /\ {live, outgoing} \cup loose \subseteq {0, live'} \cup loose'
    BY <1>8 DEF Crashes
  <2>2. ASSUME NEW i \in DOMAIN life', Writes(i)' PROVE i \in {live', outgoing'} \cup loose'
    BY <1>1, <1>2, <2>1, <2>2
  <2>3. shown' \in {0, live', outgoing'} \cup loose'
    BY <1>1, <2>1
  <2> QED BY <2>1, <2>2, <2>3 DEF WatchersAreKnown, ShownIsTheBackends, Tearing
<1> QED BY <1>0, <1>4, <1>5, <1>6, <1>7, <1>8, SlotSteps

LEMMA ShownKept == ShownInv /\ [Next]_vars => ShownInv'
<1> SUFFICES ASSUME ShownInv, [Next]_vars PROVE ShownInv'
  OBVIOUS
<1>1. Typed' /\ OneBackendRuns'
  BY TypedStays, OneBackendKept DEF ShownInv
<1>2. CASE UNCHANGED vars
  BY <1>1, <1>2 DEF ShownInv, WatchersAreKnown, ShownIsTheBackends, vars, slotVars,
                    taskVars
<1> QED BY <1>1, <1>2, ShownStays DEF ShownInv

\* The panel shows what the committed backend published, or the one a switch is
\* tearing down: a retired watcher never writes over its successor, unless its
\* switch did not wait for it.
THEOREM ShownSafe == Spec => []ShownIsTheBackends
<1>1. Init => ShownInv
  <2> SUFFICES ASSUME Init PROVE ShownInv
    OBVIOUS
  <2>1. DOMAIN life = {} /\ published = "none" /\ shown = 0 /\ pc = "probing"
    BY DEF Init
  <2> QED BY <2>1, TypedInitially
    DEF ShownInv, OneBackendRuns, WatchersAreKnown, ShownIsTheBackends, Tearing
<1>2. ShownInv => ShownIsTheBackends
  BY DEF ShownInv
<1> QED BY <1>1, <1>2, ShownKept, PTL DEF Spec

-----------------------------------------------------------------------------
(* NetworkManager's agent is one we serve.                                 *)

Served == /\ Typed /\ MountedIsTheLife /\ CallsAreOurs /\ RegistrarByKind
          /\ Clean => RegistrarsAreDone /\ TheLastWord

\* What a step does with NetworkManager's registrations and the calls to it.
CutOff ==
  /\ wire' = <<>> /\ agent' < epoch' /\ UNCHANGED <<slotVars, loose>>
  /\ pc' = IF pc = "unregister" THEN "start" ELSE pc
  /\ \/ epoch' = epoch + 1 /\ agent' = agent /\ running' = running
     \/ epoch' = epoch /\ agent' = 0

Still ==
  /\ UNCHANGED <<wire, agent, epoch>>
  /\ "nm" \in running => "nm" \in running'

LEMMA NmSteps ==
  ASSUME Typed, CallsAreOurs, Next
  PROVE  \/ Still \/ CutOff \/ NmForgets \/ Answer \/ RegistrarDown
         \/ \E i \in DOMAIN life : Register(i)
<1> USE DEF Still
<1>0. epoch \in Nat \ {0} /\ agent \in Nat /\ agent <= epoch
  BY DEF Typed, TypeOK, CallsAreOurs
<1>1. ASSUME Reconnect PROVE CutOff
  <2>1. /\ epoch' = epoch + 1 /\ wire' = <<>> /\ UNCHANGED <<agent, running, slotVars, loose>>
        /\ pc' = IF pc = "unregister" THEN "start" ELSE pc
    BY <1>1, Zenon DEF Reconnect, Cut
  <2>2. agent' < epoch'
    BY <1>0, <2>1
  <2> QED BY <2>1, <2>2 DEF CutOff
<1>2. ASSUME NEW d \in Daemons, DaemonStops(d) PROVE CutOff \/ Still
  <2>1. CASE d = "nm"
    <3>1. /\ wire' = <<>> /\ agent' = 0 /\ UNCHANGED <<epoch, slotVars, loose>>
          /\ pc' = IF pc = "unregister" THEN "start" ELSE pc
      BY <1>2, <2>1, Zenon DEF DaemonStops, Cut
    <3>2. agent' < epoch'
      BY <1>0, <3>1
    <3> QED BY <3>1, <3>2 DEF CutOff
  <2>2. CASE d # "nm"
    <3>1. UNCHANGED <<nmVars, taskVars, epoch>> /\ running' = running \ {d}
      BY <1>2, <2>2, Zenon DEF DaemonStops
    <3> QED BY <2>2, <3>1 DEF nmVars, taskVars
  <2> QED BY <2>1, <2>2
<1>3. ASSUME NEW d \in Daemons, DaemonStarts(d) PROVE Still
  <2>1. UNCHANGED <<nmVars, taskVars, epoch>> /\ running' = running \cup {d}
    BY <1>3, Zenon DEF DaemonStarts
  <2> QED BY <2>1 DEF nmVars, taskVars
<1>4. ASSUME NEW i \in DOMAIN life,
             \/ WatcherStops(i) \/ RegistrarStops(i) \/ Unpark(i) \/ Write(i)
             \/ CallExpires(i)
      PROVE  Still
  <2>1. UNCHANGED <<nmVars, worldVars>>
    BY <1>4, Zenon DEF WatcherStops, RegistrarStops, Unpark, Write, CallExpires
  <2> QED BY <2>1 DEF nmVars, worldVars
<1>5. ASSUME \/ Panic \/ Subscribes \/ Asking \/ Watch \/ Take \/ UnregisterExpires
             \/ WatcherDown \/ Start
      PROVE  Still
  <2>1. UNCHANGED <<nmVars, worldVars>>
    BY <1>5, Zenon DEF Panic, Subscribes, Asking, Probe, Watch, Take, Recheck,
                       RecheckFails, UnregisterExpires, WatcherDown, Start
  <2> QED BY <2>1 DEF nmVars, worldVars
<1> HIDE DEF Still
<1> QED BY <1>1, <1>2, <1>3, <1>4, <1>5, Actions

LEMMA TypesOfServed ==
  ASSUME Typed
  PROVE  /\ TypeOK /\ Phases /\ life \in Seq(Lives) /\ 0 \notin DOMAIN life
         /\ live \in {0} \cup DOMAIN life /\ outgoing \in {0} \cup DOMAIN life
         /\ epoch \in Nat \ {0} /\ agent \in Nat /\ wire \in Seq(Calls)
         /\ \A k \in DOMAIN wire : wire[k].life \in DOMAIN life
<1>1. TypeOK /\ Phases /\ life \in Seq(Lives)
  BY DEF Typed, TypeOK
<1> QED BY <1>1, LenProperties DEF TypeOK

LEMMA MountedStays ==
  ASSUME Served, Next
  PROVE  MountedIsTheLife'
<1>0. /\ TypeOK /\ Phases /\ LivesKeep /\ life \in Seq(Lives) /\ 0 \notin DOMAIN life
      /\ live \in {0} \cup DOMAIN life /\ outgoing \in {0} \cup DOMAIN life
      /\ MountedIsTheLife
  BY TypesOfServed, LivesAreKept DEF Served
<1>1. \A i \in DOMAIN life : life'[i].kind = life[i].kind
  BY <1>0 DEF LivesKeep, LifeKeeps
<1>2. CASE Rests
  BY <1>0, <1>1, <1>2 DEF Rests, MountedIsTheLife
<1>3. CASE Commits
  <2>1. PICK kind \in Kinds : Commit(kind)
    BY <1>3 DEF Commits
  <2>2. live' # 0 /\ life'[live'].kind = kind /\ outgoing' = 0
    <3>1. live' # 0 /\ life'[live'] = Started(kind)
      BY <1>0, <2>1, CommitLives
    <3>2. Started(kind).kind = kind
      BY DEF Started
    <3> QED BY <1>3, <3>1, <3>2 DEF Commits
  <2>3. mounted' = IF kind = "nm" THEN live' ELSE 0
    BY <2>1 DEF Commit
  <2> QED BY <2>2, <2>3 DEF MountedIsTheLife
<1>4. CASE Retires
  <2>1. outgoing = 0 /\ live \in DOMAIN life
    BY <1>0, <1>4 DEF Retires, Phases
  <2>2. live' = 0 /\ outgoing' = live /\ mounted' = mounted
    BY <1>4 DEF Retires, Retire
  <2> QED BY <1>0, <1>1, <2>1, <2>2 DEF MountedIsTheLife
<1>5. CASE Advances
  BY <1>0, <1>1, <1>5 DEF Advances, MountedIsTheLife
<1>6. CASE Crashes
  <2>1. live # 0 => outgoing = 0
    BY <1>0 DEF Phases
  <2> QED BY <1>0, <1>1, <1>6, <2>1 DEF Crashes, MountedIsTheLife
<1> QED BY <1>0, <1>2, <1>3, <1>4, <1>5, <1>6, SlotSteps

LEMMA ByKindStays ==
  ASSUME Served, Next
  PROVE  RegistrarByKind'
<1>0. /\ TypeOK /\ Phases /\ LivesKeep /\ life \in Seq(Lives) /\ 0 \notin DOMAIN life
      /\ live \in {0} \cup DOMAIN life /\ outgoing \in {0} \cup DOMAIN life
      /\ RegistrarByKind
  BY TypesOfServed, LivesAreKept DEF Served
<1>1. \A i \in DOMAIN life : life'[i].kind # "nm" => life'[i].registrar = "none"
  BY <1>0 DEF LivesKeep, LifeKeeps, RegistrarByKind
<1>2. DOMAIN life' = DOMAIN life =>
        \A i \in DOMAIN life' : life'[i].kind # "nm" => life'[i].registrar = "none"
  BY <1>1
<1>3. pc \in Tearing => outgoing \in DOMAIN life /\ life'[outgoing].kind = life[outgoing].kind
  BY <1>0 DEF Phases, LivesKeep, LifeKeeps
<1>4. CASE Rests
  <2>1. pc' \in {"registrar", "unregister"} => pc' = pc /\ outgoing' = outgoing
    BY <1>4 DEF Rests
  <2> QED BY <1>0, <1>2, <1>3, <1>4, <2>1 DEF Rests, RegistrarByKind, Tearing
<1>5. CASE Commits
  <2>1. PICK kind \in Kinds : Commit(kind)
    BY <1>5 DEF Commits
  <2>2. /\ DOMAIN life' = DOMAIN life \cup {live'} /\ life'[live'] = Started(kind)
        /\ pc' \in {"subscribe", "watching"}
    BY <1>0, <1>5, <2>1, CommitLives DEF Commits
  <2>3. Started(kind).kind # "nm" => Started(kind).registrar = "none"
    BY DEF Started
  <2> QED BY <1>1, <2>2, <2>3 DEF RegistrarByKind
<1>6. CASE Retires
  <2>1. DOMAIN life' = DOMAIN life /\ pc' = "watcher"
    BY <1>6 DEF Retires, Retire
  <2> QED BY <1>2, <2>1 DEF RegistrarByKind
<1>7. CASE Advances
  <2>1. /\ DOMAIN life' = DOMAIN life /\ outgoing' = outgoing /\ pc \in Tearing
    BY <1>7 DEF Advances
  <2>2. pc' \in {"registrar", "unregister"} => life[outgoing].kind = "nm"
    <3>1. CASE WatcherDown
      BY <3>1 DEF WatcherDown
    <3>2. CASE RegistrarDown
      BY <1>0, <3>2 DEF RegistrarDown, RegistrarByKind
    <3> QED BY <1>7, <3>1, <3>2 DEF Advances
  <2> QED BY <1>2, <1>3, <2>1, <2>2 DEF RegistrarByKind
<1>8. CASE Crashes
  BY <1>2, <1>8 DEF Crashes, RegistrarByKind
<1> QED BY <1>0, <1>4, <1>5, <1>6, <1>7, <1>8, SlotSteps

LEMMA OursStay ==
  ASSUME Served, Next
  PROVE  CallsAreOurs'
<1>0. /\ Typed /\ CallsAreOurs /\ epoch \in Nat \ {0} /\ agent \in Nat
      /\ wire \in Seq(Calls) /\ TypeOK
      /\ \A k \in DOMAIN wire : wire[k].life \in DOMAIN life
  BY TypesOfServed DEF Served
<1>1. CASE Still
  BY <1>0, <1>1 DEF CallsAreOurs, Still
<1>2. CASE CutOff
  <2>1. wire' = <<>> /\ agent' < epoch' /\ DOMAIN wire' = {}
    BY <1>2 DEF CutOff
  <2>2. "nm" \notin running' => agent' = 0
    BY <1>0, <1>2 DEF CutOff, CallsAreOurs
  <2>3. agent' <= epoch'
    <3>1. agent' \in Nat /\ epoch' \in Nat
      BY <1>0, <1>2 DEF CutOff
    <3> QED BY <2>1, <3>1
  <2> QED BY <2>1, <2>2, <2>3 DEF CallsAreOurs
<1>3. CASE NmForgets
  <2>1. agent' = 0 /\ wire' = wire /\ epoch' = epoch /\ running' = running
    BY <1>3, Zenon DEF NmForgets, worldVars
  <2> QED BY <1>0, <2>1 DEF CallsAreOurs
\* A call is made on our connection, to a NetworkManager that is there.
<1>4. ASSUME NEW op \in {"register", "withdraw", "unregister"}, NEW i \in DOMAIN life,
             NEW w \in Seq(Calls), \A k \in DOMAIN w : w[k].by = epoch,
             wire' = Append(w, Call(op, i)), "nm" \in running,
             UNCHANGED <<running, epoch>>, agent' <= epoch
      PROVE  CallsAreOurs'
  <2> DEFINE c == Call(op, i)
  <2>1. c \in Calls /\ c.by = epoch
    <3>1. i \in Nat
      BY <1>0, LenProperties DEF TypeOK
    <3> QED BY <1>0, <3>1 DEF Call, Calls
  <2> HIDE DEF c
  <2>2. wire' = Append(w, c)
    BY <1>4 DEF c
  <2>3. /\ DOMAIN wire' = 1..Len(w) + 1 /\ Len(w) \in Nat /\ DOMAIN w = 1..Len(w)
        /\ \A k \in 1..Len(w) : wire'[k] = w[k]
        /\ wire'[Len(w) + 1] = c
    BY <1>4, <2>1, <2>2, AppendProperties, LenProperties
  <2>4. ASSUME NEW k \in DOMAIN wire' PROVE wire'[k].by = epoch
    BY <1>4, <2>1, <2>3
  <2> QED BY <1>4, <2>4 DEF CallsAreOurs
<1>5. CASE RegistrarDown
  <2>1. outgoing \in DOMAIN life
    BY <1>0, <1>5, TypesOfServed DEF RegistrarDown, Phases, Tearing
  <2>2. UNCHANGED <<running, epoch, agent>>
    BY <1>5, Zenon DEF RegistrarDown, worldVars
  <2>3. CASE "nm" \in running
    BY <1>0, <1>4, <1>5, <2>1, <2>2, <2>3 DEF RegistrarDown, Unregister, CallsAreOurs
  <2>4. CASE "nm" \notin running
    BY <1>0, <1>5, <2>2, <2>4 DEF RegistrarDown, Unregister, CallsAreOurs
  <2> QED BY <2>3, <2>4
<1>6. ASSUME NEW i \in DOMAIN life, Register(i) PROVE CallsAreOurs'
  <2>1. UNCHANGED <<running, epoch, agent>>
    BY <1>6, Zenon DEF Register, worldVars
  <2>2. CASE "nm" \in running
    BY <1>0, <1>4, <1>6, <2>1, <2>2 DEF Register, CallsAreOurs
  <2>3. CASE "nm" \notin running
    BY <1>0, <1>6, <2>1, <2>3 DEF Register, CallsAreOurs
  <2> QED BY <2>2, <2>3
<1>7. CASE Answer
  <2>1. wire # <<>> /\ UNCHANGED <<running, epoch>> /\ agent' \in {agent, Head(wire).by, 0}
    BY <1>7 DEF Answer, worldVars
  <2>2. Head(wire).by = epoch /\ Head(wire).life \in DOMAIN life
    BY <1>0, <2>1, WireShrinks DEF CallsAreOurs
  <2>3. Tail(wire) \in Seq(Calls) /\ \A k \in DOMAIN Tail(wire) : Tail(wire)[k].by = epoch
    BY <1>0, <2>1, WireShrinks DEF CallsAreOurs
  <2>4. agent' <= epoch /\ "nm" \in running
    BY <1>0, <2>1, <2>2 DEF CallsAreOurs
  <2>5. CASE wire' = Tail(wire)
    BY <2>1, <2>3, <2>4, <2>5 DEF CallsAreOurs
  <2>6. CASE wire' = Append(Tail(wire), Call("withdraw", Head(wire).life))
    BY <1>4, <2>1, <2>2, <2>3, <2>4, <2>6
  <2> QED BY <1>0, <1>7, <2>5, <2>6, WireAnswered
<1> QED BY <1>0, <1>1, <1>2, <1>3, <1>5, <1>6, <1>7, NmSteps

\* A switch that went on without NetworkManager's registrar is not forgotten.
LEMMA CleanBefore ==
  ASSUME Served, Next, Clean'
  PROVE  /\ Clean /\ loose \subseteq loose' /\ loose' \subseteq DOMAIN life'
         /\ \A i \in DOMAIN life \cap loose' : life[i].kind # "nm"
<1>0. Typed /\ TypeOK /\ Phases /\ LivesKeep
  BY TypesOfServed, LivesAreKept DEF Served
<1>1. \A i \in DOMAIN life : life'[i].kind = life[i].kind
  BY <1>0 DEF LivesKeep, LifeKeeps
<1>2. loose \subseteq DOMAIN life
  BY <1>0 DEF TypeOK
<1>3. loose \subseteq loose'
  <2>1. Rests \/ Commits \/ Retires \/ Crashes => loose \subseteq loose'
    BY DEF Rests, Commits, Retires, Crashes
  <2>2. Advances => loose \subseteq loose'
    BY DEF Advances, WatcherDown, RegistrarDown, GoesOn
  <2> QED BY <1>0, <2>1, <2>2, SlotSteps
<1>4. loose' \subseteq DOMAIN life'
  BY <1>0, SlotTyped DEF SlotType
<1> QED BY <1>1, <1>2, <1>3, <1>4 DEF Clean

LEMMA DoneStays ==
  ASSUME Served, Next, Clean'
  PROVE  RegistrarsAreDone'
<1> DEFINE Done(i) == life[i].registrar \in {"none", "stopped"}
<1>0. /\ TypeOK /\ Phases /\ LivesKeep /\ life \in Seq(Lives) /\ 0 \notin DOMAIN life
      /\ live \in {0} \cup DOMAIN life /\ outgoing \in {0} \cup DOMAIN life
      /\ RegistrarByKind
  BY TypesOfServed, LivesAreKept DEF Served
<1>1. /\ \A i \in DOMAIN life : i \notin {live, outgoing} => Done(i)
      /\ pc \in {"unregister", "start"} => Done(outgoing)
  BY CleanBefore DEF Served, RegistrarsAreDone
<1>2. \A i \in DOMAIN life : life[i].kind # "nm" => Done(i)
  BY <1>0 DEF RegistrarByKind
<1>3. ASSUME NEW i \in DOMAIN life, Done(i) PROVE Done(i)'
  BY <1>0, <1>3 DEF LivesKeep, LifeKeeps
<1>4. \A i \in DOMAIN life \cap loose' : life[i].kind # "nm"
  BY CleanBefore
<1>5. pc \in Tearing => outgoing \in DOMAIN life /\ live = 0
  BY <1>0 DEF Phases
<1> SUFFICES /\ \A i \in DOMAIN life' : i \notin {live', outgoing'} => Done(i)'
             /\ pc' \in {"unregister", "start"} =>
                  life'[outgoing'].registrar \in {"none", "stopped"}
  BY DEF RegistrarsAreDone
<1>6. CASE Rests
  <2>1. \A i \in DOMAIN life' : i \notin {live', outgoing'} => Done(i)'
    BY <1>1, <1>3, <1>6 DEF Rests
  <2>2. pc' \in {"unregister", "start"} => pc \in {"unregister", "start"}
    BY <1>6 DEF Rests
  <2>3. ASSUME NEW i \in DOMAIN life, i = outgoing, pc' \in {"unregister", "start"}
        PROVE  Done(i)'
    BY <1>1, <1>3, <2>2, <2>3
  <2>4. outgoing' = outgoing
    BY <1>6 DEF Rests
  <2> QED BY <1>5, <2>1, <2>2, <2>3, <2>4 DEF Tearing
<1>7. CASE Commits
  <2>1. /\ DOMAIN life' = DOMAIN life \cup {live'} /\ live = 0
        /\ pc \in {"probing", "start"} /\ pc' \in {"subscribe", "watching"}
    BY <1>0, <1>7, CommitLives DEF Commits
  <2>2. ASSUME NEW i \in DOMAIN life PROVE Done(i)
    <3>1. CASE i = outgoing
      <4>1. pc = "start"
        BY <1>0, <2>1, <3>1 DEF Phases, Tearing
      <4> QED BY <1>1, <3>1, <4>1
    <3>2. CASE i # outgoing
      BY <1>0, <1>1, <2>1, <3>2
    <3> QED BY <3>1, <3>2
  <2> QED BY <1>3, <2>1, <2>2
<1>8. CASE Retires
  <2>1. /\ DOMAIN life' = DOMAIN life /\ pc' = "watcher" /\ outgoing' = live
        /\ outgoing = 0
    BY <1>0, <1>8 DEF Retires, Retire, Phases
  <2> QED BY <1>0, <1>1, <1>3, <2>1
<1>9. CASE Advances
  <2>1. /\ DOMAIN life' = DOMAIN life /\ UNCHANGED <<live, outgoing>>
        /\ outgoing \in DOMAIN life
    BY <1>5, <1>9 DEF Advances
  <2>2. ASSUME pc' \in {"unregister", "start"} PROVE Done(outgoing)
    <3>1. CASE WatcherDown
      BY <1>2, <2>1, <2>2, <3>1 DEF WatcherDown
    <3>2. CASE RegistrarDown
      BY <1>2, <1>4, <2>1, <3>2 DEF RegistrarDown, GoesOn
    <3> QED BY <1>9, <3>1, <3>2 DEF Advances
  <2>3. ASSUME NEW i \in DOMAIN life, i = outgoing, pc' \in {"unregister", "start"}
        PROVE  Done(i)'
    BY <1>3, <2>2, <2>3
  <2> QED BY <1>1, <1>3, <2>1, <2>3
<1>10. CASE Crashes
  <2>1. /\ DOMAIN life' = DOMAIN life /\ live' = live /\ pc' = "probing"
        /\ outgoing # 0 => outgoing \in loose'
    BY <1>10 DEF Crashes
  <2>2. ASSUME NEW i \in DOMAIN life, i # live PROVE Done(i)
    <3>1. CASE i = outgoing
      BY <1>0, <1>2, <1>4, <2>1, <3>1
    <3>2. CASE i # outgoing
      BY <1>1, <2>2, <3>2
    <3> QED BY <3>1, <3>2
  <2> QED BY <1>3, <2>1, <2>2
<1> QED BY <1>0, <1>6, <1>7, <1>8, <1>9, <1>10, SlotSteps

\* Nothing moves on the wire: what the slot does keeps the switch's last word.
LEMMA LastWordRests ==
  ASSUME Served, Next, Clean', Still
  PROVE  TheLastWord'
<1>0. /\ TypeOK /\ Phases /\ RegistrarByKind /\ MountedIsTheLife
      /\ UNCHANGED <<wire, agent, epoch>> /\ wire \in Seq(Calls)
      /\ live \in {0} \cup DOMAIN life /\ outgoing \in {0} \cup DOMAIN life
      /\ 0 \notin DOMAIN life
  BY TypesOfServed DEF Served, Still
<1>1. TheLastWord /\ \A i \in DOMAIN life \cap loose' : life[i].kind # "nm"
  BY CleanBefore DEF Served
<1>2. ASSUME Withdrawn' => Withdrawn PROVE TheLastWord'
  BY <1>0, <1>1, <1>2 DEF TheLastWord
<1>3. ASSUME wire = <<>>, agent # epoch PROVE TheLastWord'
  BY <1>0, <1>3 DEF TheLastWord
<1>4. CASE Rests
  <2>1. mounted' = mounted /\ (pc' \in {"unregister", "start"} => pc \in {"unregister", "start"})
    BY <1>4 DEF Rests
  <2> QED BY <1>2, <2>1 DEF Withdrawn
<1>5. CASE Commits
  <2>1. live = 0 /\ pc \in {"probing", "start"}
    BY <1>5 DEF Commits
  <2>2. pc = "probing" => mounted = 0
    BY <1>0, <2>1 DEF MountedIsTheLife, Phases, Tearing
  <2> QED BY <1>2, <2>1, <2>2 DEF Withdrawn
<1>6. CASE Retires
  BY <1>2, <1>6 DEF Retires, Retire, Withdrawn
<1>7. CASE Advances
  <2>1. /\ UNCHANGED <<outgoing, mounted>> /\ live = 0 /\ outgoing # 0
    BY <1>7 DEF Advances
  <2>2. CASE WatcherDown
    <3>1. CASE life[outgoing].kind = "nm"
      BY <1>2, <2>1, <2>2, <3>1 DEF WatcherDown, Withdrawn
    <3>2. CASE life[outgoing].kind # "nm"
      <4>1. mounted = 0
        BY <1>0, <2>1, <3>2 DEF MountedIsTheLife
      <4> QED BY <1>2, <4>1 DEF Withdrawn
    <3> QED BY <3>1, <3>2
  <2>3. CASE RegistrarDown
    <3>1. "nm" \notin running
      <4>1. CASE "nm" \in running
        <5>1. Len(wire') = Len(wire) + 1
          <6>1. wire' = Append(wire, Call("unregister", outgoing)) /\ outgoing \in DOMAIN life
            BY <1>0, <2>1, <2>3, <4>1 DEF RegistrarDown, Unregister
          <6>2. Call("unregister", outgoing) \in Calls
            BY <1>0, <6>1, LenProperties, TypesOfServed DEF Served, Call, Calls
          <6> QED BY <1>0, <6>1, <6>2, WireGrows
        <5>2. Len(wire') = Len(wire) /\ Len(wire) \in Nat
          BY <1>0, LenProperties
        <5> QED BY <5>1, <5>2
      <4> QED BY <4>1
    <3>2. wire = <<>> /\ agent # epoch
      BY <3>1, TypesOfServed DEF Served, CallsAreOurs
    <3> QED BY <1>3, <3>2
  <2> QED BY <1>7, <2>2, <2>3 DEF Advances
<1>8. CASE Crashes
  <2>1. pc' = "probing"
    BY <1>8 DEF Crashes
  <2>2. CASE outgoing = 0
    BY <1>2, <1>8, <2>1, <2>2 DEF Crashes, Withdrawn
  <2>3. CASE outgoing # 0
    <3>1. outgoing \in loose' /\ live = 0
      BY <1>0, <1>8, <2>3 DEF Crashes, Phases
    <3>2. mounted = 0
      BY <1>0, <1>1, <2>3, <3>1 DEF MountedIsTheLife
    <3> QED BY <1>2, <3>2 DEF Withdrawn
  <2> QED BY <2>2, <2>3
<1> QED BY <1>0, <1>4, <1>5, <1>6, <1>7, <1>8, SlotSteps

\* A call joins the wire: an Unregister, or another while its object is mounted
\* and no switch has got as far as its own.
LEMMA LastWordSent ==
  ASSUME Served, NEW op \in {"register", "unregister"}, NEW i \in DOMAIN life,
         wire' = Append(wire, Call(op, i)),
         op = "register" => ~Withdrawn'
  PROVE  TheLastWord'
<1>0. wire \in Seq(Calls) /\ epoch \in Nat /\ i \in Nat
  BY TypesOfServed, LenProperties DEF Served
<1> DEFINE c == Call(op, i)
<1>1. c \in Calls /\ c.op = op
  BY <1>0 DEF Call, Calls
<1>2. wire' = Append(wire, c)
  OBVIOUS
<1> HIDE DEF c
<1>3. wire' # <<>> /\ wire'[Len(wire')] = c
  BY <1>0, <1>1, <1>2, WireGrows
<1> QED BY <1>1, <1>3 DEF TheLastWord

\* Whoever still hears an answer has a registrar that runs, and so an object.
LEMMA WhoHearsIsMounted ==
  ASSUME Served, RegistrarsAreDone, NEW i \in DOMAIN life,
         life[i].registrar \notin {"none", "stopped"}
  PROVE  ~Withdrawn
<1>0. /\ Phases /\ RegistrarByKind /\ MountedIsTheLife /\ 0 \notin DOMAIN life
  BY TypesOfServed DEF Served
<1>1. i \in {live, outgoing} /\ life[i].kind = "nm" /\ i # 0
  BY <1>0 DEF RegistrarsAreDone, RegistrarByKind
<1>2. pc \notin {"unregister", "start"}
  <2>1. CASE i = outgoing
    BY <2>1 DEF RegistrarsAreDone
  <2>2. CASE i = live
    BY <1>0, <1>1, <2>2 DEF Phases, Tearing
  <2> QED BY <1>1, <2>1, <2>2
<1>3. mounted # 0
  BY <1>0, <1>1 DEF MountedIsTheLife, Phases
<1> QED BY <1>2, <1>3 DEF Withdrawn

\* A call is answered: the last one, or one before it.
LEMMA LastWordAnswered ==
  ASSUME Served, Next, Clean', Answer
  PROVE  TheLastWord'
<1> DEFINE m == Head(wire)
<1>0. /\ TypeOK /\ Phases /\ CallsAreOurs /\ TheLastWord /\ RegistrarsAreDone
      /\ wire \in Seq(Calls) /\ wire # <<>> /\ epoch \in Nat \ {0}
      /\ Len(wire) \in Nat
  <2>1. wire \in Seq(Calls) /\ wire # <<>>
    BY TypesOfServed DEF Served, Answer
  <2> QED BY <2>1, CleanBefore, TypesOfServed, LenProperties DEF Served
<1>1. /\ UNCHANGED <<epoch, mounted>> /\ m = wire[1] /\ m.by = epoch
      /\ m.life \in DOMAIN life
      /\ Tail(wire) \in Seq(Calls) /\ Len(Tail(wire)) = Len(wire) - 1
      /\ \A k \in 1..Len(Tail(wire)) : Tail(wire)[k] = wire[k + 1]
  BY <1>0, WireShrinks, LenProperties
     DEF Answer, worldVars, slotVars, CallsAreOurs, TypeOK
<1>2. Withdrawn' => Withdrawn
  <2>1. pc' = pc \/ pc = "unregister"
    BY DEF Answer
  <2> QED BY <1>1, <2>1 DEF Withdrawn
<1> SUFFICES ASSUME Withdrawn
             PROVE  \/ wire' = <<>> /\ agent' # epoch'
                    \/ wire' # <<>> /\ wire'[Len(wire')].op = "unregister"
  BY <1>2 DEF TheLastWord
<1>3. wire' = Tail(wire)
  <2>1. life[m.life].registrar \in {"none", "stopped"}
    BY <1>0, <1>1, WhoHearsIsMounted
  <2>2. life[m.life].registrar \notin {"first", "withdraw", "second"}
    BY <2>1
  <2> QED BY <1>0, <2>2, WireAnswered
<1>4. wire[Len(wire)].op = "unregister"
  BY <1>0 DEF TheLastWord
<1>5. CASE Len(wire) = 1
  <2>1. m.op = "unregister"
    BY <1>1, <1>4, <1>5
  <2>2. agent' = IF agent = m.by THEN 0 ELSE agent
    BY <2>1 DEF Answer
  <2>3. Len(Tail(wire)) = 0
    BY <1>1, <1>5
  <2>4. wire' = <<>>
    BY <1>1, <1>3, <2>3, EmptySeq
  <2> QED BY <1>0, <1>1, <2>2, <2>4
<1>6. CASE Len(wire) # 1
  <2> DEFINE t == Tail(wire)
  <2>1. Len(t) = Len(wire) - 1 /\ \A k \in 1..Len(t) : t[k] = wire[k + 1]
    BY <1>1
  <2>2. Len(wire) # 0
    BY <1>0, EmptySeq
  <2> HIDE DEF t
  <2>3. Len(t) \in 1..Len(t) /\ Len(t) + 1 = Len(wire)
    BY <1>0, <1>6, <2>1, <2>2
  <2>4. t[Len(t)] = wire[Len(wire)] /\ t # <<>>
    BY <2>1, <2>3
  <2> QED BY <1>3, <1>4, <2>4 DEF t
<1> QED BY <1>5, <1>6

LEMMA LastWordStays ==
  ASSUME Served, Next, Clean'
  PROVE  TheLastWord'
<1>0. /\ Typed /\ TypeOK /\ Phases /\ CallsAreOurs /\ TheLastWord /\ RegistrarsAreDone
      /\ RegistrarByKind /\ MountedIsTheLife /\ wire \in Seq(Calls)
      /\ 0 \notin DOMAIN life /\ epoch \in Nat \ {0} /\ agent \in Nat
      /\ live \in {0} \cup DOMAIN life /\ outgoing \in {0} \cup DOMAIN life
  BY CleanBefore, TypesOfServed DEF Served
<1>1. CASE CutOff
  <2>1. wire' = <<>>
    BY <1>1 DEF CutOff
  <2>2. agent' # epoch'
    BY <1>0, <1>1 DEF CutOff
  <2> QED BY <2>1, <2>2 DEF TheLastWord
<1>2. CASE NmForgets
  <2>1. agent' = 0 /\ UNCHANGED <<wire, epoch, pc, mounted, outgoing>>
    BY <1>2, Zenon DEF NmForgets, worldVars, slotVars, taskVars
  <2> QED BY <1>0, <2>1 DEF TheLastWord, Withdrawn
<1>3. CASE RegistrarDown
  <2>1. /\ pc = "registrar" /\ live = 0 /\ outgoing \in DOMAIN life
        /\ life[outgoing].kind = "nm" /\ UNCHANGED <<epoch, agent, running, mounted, outgoing>>
    BY <1>0, <1>3, Zenon DEF RegistrarDown, Phases, Tearing, RegistrarByKind,
                             worldVars, slotVars
  <2>2. CASE "nm" \in running
    <3>1. wire' = Append(wire, Call("unregister", outgoing))
      BY <1>3, <2>2 DEF RegistrarDown, Unregister
    <3> QED BY <2>1, <3>1, LastWordSent
  <2>3. CASE "nm" \notin running
    <3>1. Still
      BY <1>3, <2>1, <2>3 DEF RegistrarDown, Unregister, Still
    <3> QED BY <3>1, LastWordRests
  <2> QED BY <2>2, <2>3
<1>4. ASSUME NEW i \in DOMAIN life, Register(i) PROVE TheLastWord'
  <2>1. UNCHANGED <<pc, mounted, outgoing, epoch, agent, running>>
    BY <1>4, Zenon DEF Register, worldVars, slotVars, taskVars
  <2>2. life[i].registrar \in {"settle", "again"}
    BY <1>4 DEF Register
  <2>3. ~Withdrawn'
    BY <1>0, <2>1, <2>2, WhoHearsIsMounted DEF Withdrawn
  <2>4. CASE wire' = Append(wire, Call("register", i))
    BY <2>3, <2>4, LastWordSent
  <2>5. CASE UNCHANGED wire
    BY <2>3 DEF TheLastWord
  <2> QED BY <1>4, <2>4, <2>5 DEF Register
<1> QED BY <1>0, <1>1, <1>2, <1>3, <1>4, NmSteps, LastWordRests, LastWordAnswered

LEMMA ServedStays == Served /\ [Next]_vars => Served'
<1> SUFFICES ASSUME Served, [Next]_vars PROVE Served'
  OBVIOUS
<1>1. Typed'
  BY TypedStays DEF Served
<1>2. CASE Next
  BY <1>1, <1>2, MountedStays, OursStay, ByKindStays, DoneStays, LastWordStays DEF Served
<1>3. CASE UNCHANGED vars
  BY <1>1, <1>3 DEF Served, MountedIsTheLife, CallsAreOurs, RegistrarByKind, Clean,
    RegistrarsAreDone, TheLastWord, Withdrawn, vars, worldVars, nmVars, slotVars, taskVars
<1> QED BY <1>2, <1>3

\* NetworkManager holds our connection's agent with no object behind it only
\* until it carries out an Unregister that is still the last of our calls on its
\* way, unless a switch did not wait for the registrar: no registration, in
\* flight or given up, follows the switch's Unregister, waited for or not.
THEOREM AgentSafe == Spec => []AgentIsServed
<1>1. Init => Served
  <2> SUFFICES ASSUME Init PROVE Served
    OBVIOUS
  <2>1. /\ DOMAIN life = {} /\ DOMAIN wire = {} /\ wire = <<>> /\ agent = 0
        /\ epoch = 1 /\ live = 0 /\ outgoing = 0 /\ mounted = 0 /\ pc = "probing"
    BY DEF Init
  <2> QED BY <2>1, TypedInitially
    DEF Served, MountedIsTheLife, CallsAreOurs, RegistrarByKind, RegistrarsAreDone,
        TheLastWord
<1>2. Served => AgentIsServed
  BY DEF Served, AgentIsServed, Clean, TheLastWord, Withdrawn
<1> QED BY <1>1, <1>2, ServedStays, PTL DEF Spec
=============================================================================
