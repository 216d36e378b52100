-------------------------- MODULE SpectrumTapProofs -------------------------
(***************************************************************************)
(* Proofs about SpectrumTap, for any number of connections and any bounds. *)
(***************************************************************************)
EXTENDS SpectrumTap, FiniteSetTheorems, TLAPS

\* An unsent activation belongs to a connection that still demands the tap:
\* it cannot release before it has sent.
OnIsDemanded == \A c \in Conns : edge[c] = "on" => demanding[c]

\* What the tap will be once everything on the channel is handled.
LastAsked == IF commands = <<>> THEN built ELSE commands[Len(commands)]

NoOff == \A c \in Conns : edge[c] # "off"

\* With no demand and no unsent deactivation, the last word is "off".
LastIsOff == count = 0 /\ NoOff => ~LastAsked

DownWithoutSession == ~session => ~built

IInv ==
  /\ TypeOK /\ CountIsDemanders
  /\ OnIsDemanded /\ LastIsOff /\ DownWithoutSession

Demanders == {c \in Conns : demanding[c]}

LEMMA DemandersFinite == ASSUME TypeOK PROVE IsFiniteSet(Demanders)
BY FS_Subset, SpectrumTapAssumption DEF Demanders

\* The counter is zero exactly when nobody demands.
LEMMA ZeroIsNobody ==
  ASSUME TypeOK, CountIsDemanders
  PROVE  count = 0 <=> \A c \in Conns : ~demanding[c]
<1>1. count = Cardinality(Demanders)
  BY DEF CountIsDemanders, Demanders
<1>2. count = 0 <=> Demanders = {}
  BY <1>1, DemandersFinite, FS_EmptySet
<1> QED
  BY <1>2 DEF Demanders

LEMMA InitHolds == Init => IInv
<1> SUFFICES ASSUME Init PROVE IInv
  OBVIOUS
<1> USE SpectrumTapAssumption DEF Init
<1>1. TypeOK
  <2>1. demanding \in [Conns -> BOOLEAN] /\ edge \in [Conns -> {"none", "on", "off"}]
    OBVIOUS
  <2>2. commands \in Seq(BOOLEAN)
    OBVIOUS
  <2>3. /\ restarts \in 0..MaxRestarts /\ panics \in 0..MaxPanics
        /\ failures \in 0..MaxBuildFailures /\ count \in Nat
    OBVIOUS
  <2> QED
    BY <2>1, <2>2, <2>3 DEF TypeOK
<1>2. CountIsDemanders
  <2>1. {c \in Conns : demanding[c]} = {}
    OBVIOUS
  <2> QED
    BY <2>1, FS_EmptySet DEF CountIsDemanders
<1>3. OnIsDemanded /\ LastIsOff /\ DownWithoutSession
  BY DEF OnIsDemanded, LastIsOff, LastAsked, DownWithoutSession
<1> QED
  BY <1>1, <1>2, <1>3 DEF IInv

LEMMA DemandStep ==
  ASSUME IInv, NEW c \in Conns, Demand(c)
  PROVE  IInv'
<1> USE DEF IInv, Demand, gateVars, loopVars, faultVars
<1>1. TypeOK'
  BY DEF TypeOK
<1>2. CountIsDemanders'
  <2>1. Demanders' = Demanders \cup {c}
    BY DEF Demanders, TypeOK
  <2>2. c \notin Demanders
    BY DEF Demanders
  <2> QED
    BY <2>1, <2>2, DemandersFinite, FS_AddElement DEF CountIsDemanders, Demanders
<1>3. OnIsDemanded'
  BY DEF OnIsDemanded, TypeOK
<1>4. count' # 0
  BY DEF TypeOK
<1>5. LastIsOff' /\ DownWithoutSession'
  BY <1>4 DEF LastIsOff, DownWithoutSession
<1> QED
  BY <1>1, <1>2, <1>3, <1>5

LEMMA ReleaseStep ==
  ASSUME IInv, NEW c \in Conns, Release(c)
  PROVE  IInv'
<1> USE DEF IInv, Release, gateVars, loopVars, faultVars
<1>0. count # 0
  BY ZeroIsNobody
<1>1. TypeOK'
  BY <1>0 DEF TypeOK
<1>2. CountIsDemanders'
  <2>1. Demanders' = Demanders \ {c}
    BY DEF Demanders, TypeOK
  <2>2. c \in Demanders
    BY DEF Demanders
  <2> QED
    BY <2>1, <2>2, DemandersFinite, FS_RemoveElement
    DEF CountIsDemanders, Demanders
<1>3. OnIsDemanded'
  BY DEF OnIsDemanded, TypeOK
<1>4. LastIsOff'
  <2>1. CASE count = 1
    BY <2>1 DEF LastIsOff, NoOff, TypeOK
  <2>2. CASE count # 1
    BY <2>2 DEF LastIsOff, TypeOK
  <2> QED
    BY <2>1, <2>2
<1>5. DownWithoutSession'
  BY DEF DownWithoutSession
<1> QED
  BY <1>1, <1>2, <1>3, <1>4, <1>5

LEMMA SendStep ==
  ASSUME IInv, NEW c \in Conns, Send(c)
  PROVE  IInv'
<1> USE DEF IInv, Send, gateVars, loopVars, faultVars
<1>1. TypeOK'
  BY DEF TypeOK
<1>2. CountIsDemanders' /\ OnIsDemanded' /\ DownWithoutSession'
  BY DEF CountIsDemanders, OnIsDemanded, DownWithoutSession, TypeOK
<1>3. LastIsOff'
  <2>1. commands' # <<>> /\ commands'[Len(commands')] = (edge[c] = "on")
    BY DEF TypeOK
  <2>2. CASE edge[c] = "on"
    <3>1. count # 0
      BY <2>2, ZeroIsNobody DEF OnIsDemanded
    <3> QED
      BY <3>1 DEF LastIsOff
  <2>3. CASE edge[c] # "on"
    BY <2>1, <2>3 DEF LastIsOff, LastAsked
  <2> QED
    BY <2>2, <2>3
<1> QED
  BY <1>1, <1>2, <1>3

\* Handling a command keeps the last word, or makes it come true.
LEMMA TailKeepsLast ==
  ASSUME NEW s \in Seq(BOOLEAN), s # <<>>
  PROVE  /\ Tail(s) \in Seq(BOOLEAN)
         /\ Tail(s) = <<>> => s[Len(s)] = Head(s)
         /\ Tail(s) # <<>> => Tail(s)[Len(Tail(s))] = s[Len(s)]
OBVIOUS

LEMMA ApplyStep ==
  ASSUME IInv, ApplyOn \/ ApplyFails \/ ApplyOff
  PROVE  IInv'
<1> USE DEF IInv, gateVars, loopVars, faultVars
<1>0. /\ commands # <<>> /\ commands' = Tail(commands) /\ session
      /\ commands \in Seq(BOOLEAN)
      /\ UNCHANGED <<demanding, count, edge, session>>
  BY DEF ApplyOn, ApplyFails, ApplyOff, TypeOK
<1>1. TypeOK'
  <2>1. commands' \in Seq(BOOLEAN)
    BY <1>0, TailKeepsLast
  <2>2. CASE ApplyOn
    BY <2>1, <2>2 DEF TypeOK, ApplyOn
  <2>3. CASE ApplyFails
    <3>0. /\ failures < MaxBuildFailures /\ failures' = failures + 1
          /\ failures \in 0..MaxBuildFailures
      BY <2>3 DEF TypeOK, ApplyFails
    <3>1. failures' \in 0..MaxBuildFailures
      BY <3>0, SpectrumTapAssumption
    <3> QED
      BY <2>1, <2>3, <3>1 DEF TypeOK, ApplyFails
  <2>4. CASE ApplyOff
    <3>1. frame' \in BOOLEAN
      BY <2>4 DEF ApplyOff
    <3> QED
      BY <2>1, <2>4, <3>1 DEF TypeOK, ApplyOff
  <2> QED
    BY <2>2, <2>3, <2>4
<1>2. CountIsDemanders' /\ OnIsDemanded' /\ DownWithoutSession'
  BY <1>0 DEF CountIsDemanders, OnIsDemanded, DownWithoutSession
<1>3. built' => Head(commands)
  BY DEF ApplyOn, ApplyFails, ApplyOff
<1>4. LastIsOff'
  <2> SUFFICES ASSUME count' = 0, NoOff' PROVE ~LastAsked'
    BY DEF LastIsOff
  <2>1. ~commands[Len(commands)]
    BY <1>0 DEF LastIsOff, LastAsked, NoOff
  <2>2. CASE Tail(commands) = <<>>
    BY <1>0, <1>3, <2>1, <2>2, TailKeepsLast DEF LastAsked
  <2>3. CASE Tail(commands) # <<>>
    BY <1>0, <2>1, <2>3, TailKeepsLast DEF LastAsked
  <2> QED
    BY <2>2, <2>3
<1> QED
  BY <1>1, <1>2, <1>4

LEMMA SessionStep ==
  ASSUME IInv, Process \/ SessionEnds \/ SessionStarts \/ ChannelLost
  PROVE  IInv'
<1> USE DEF IInv, gateVars, loopVars, faultVars
<1>0. UNCHANGED <<demanding, count, edge>>
  BY DEF Process, SessionEnds, SessionStarts, ChannelLost
<1>1. TypeOK'
  <2>1. CASE Process
    BY <2>1 DEF TypeOK, Process
  <2>2. CASE SessionEnds
    <3>1. restarts' \in 0..MaxRestarts
      BY <2>2, SpectrumTapAssumption DEF TypeOK, SessionEnds
    <3> QED
      BY <2>2, <3>1 DEF TypeOK, SessionEnds
  <2>3. CASE SessionStarts
    BY <2>3 DEF TypeOK, SessionStarts
  <2>4. CASE ChannelLost
    <3>1. panics' \in 0..MaxPanics /\ commands' \in Seq(BOOLEAN)
      BY <2>4, SpectrumTapAssumption DEF TypeOK, ChannelLost
    <3> QED
      BY <2>4, <3>1 DEF TypeOK, ChannelLost
  <2> QED
    BY <2>1, <2>2, <2>3, <2>4
<1>2. CountIsDemanders' /\ OnIsDemanded'
  BY <1>0 DEF CountIsDemanders, OnIsDemanded
<1>3. DownWithoutSession'
  BY DEF DownWithoutSession, Process, SessionEnds, SessionStarts, ChannelLost
<1>4. LastIsOff'
  BY DEF LastIsOff, LastAsked, NoOff, DownWithoutSession,
         Process, SessionEnds, SessionStarts, ChannelLost
<1> QED
  BY <1>1, <1>2, <1>3, <1>4

LEMMA StutterStep == IInv /\ UNCHANGED vars => IInv'
BY DEF IInv, TypeOK, CountIsDemanders, OnIsDemanded, LastIsOff, LastAsked,
       NoOff, DownWithoutSession, vars, gateVars, loopVars, faultVars

\* Count, channel and capture agree in every reachable state.
THEOREM Inductive == Spec => []IInv
<1>1. IInv /\ [Next]_vars => IInv'
  BY DemandStep, ReleaseStep, SendStep, ApplyStep, SessionStep, StutterStep
  DEF Next
<1> QED
  BY InitHolds, <1>1, PTL DEF Spec

\* Every value stays in its range.
THEOREM TypeCorrect == Spec => []TypeOK
<1>1. IInv => TypeOK
  BY DEF IInv
<1> QED
  BY Inductive, <1>1, PTL

\* The counter is the number of connections that demand the tap: leaving the
\* screen and disconnecting release one unit once.
THEOREM CountExact == Spec => []CountIsDemanders
<1>1. IInv => CountIsDemanders
  BY DEF IInv
<1> QED
  BY Inductive, <1>1, PTL

\* However the edges of different connections overtake each other, an
\* undemanded tap is down when everything sent was handled.
THEOREM NoUnwantedTap == Spec => []UnwantedTapIsDown
<1>1. IInv => UnwantedTapIsDown
  BY DEF IInv, UnwantedTapIsDown, LastIsOff, LastAsked, NoOff, NoEdge
<1> QED
  BY Inductive, <1>1, PTL
=============================================================================
