---------------------------- MODULE SpectrumTap -----------------------------
(***************************************************************************)
(* Demand for the audio capture tap: the per-connection SpectrumGate over  *)
(* one process-wide counter (trollshell/src/plugins/session.rs), the       *)
(* command channel to the PipeWire thread, and that thread building and    *)
(* destroying the capture across its sessions (hytte-services,             *)
(* audio_native).                                                          *)
(*                                                                         *)
(* SpectrumDemand::set is two steps for the rest of the process: the       *)
(* counter moves, then the edge it crossed is sent.  Connections run on    *)
(* different threads, so a step of another may come between them.          *)
(***************************************************************************)
EXTENDS Integers, Sequences, FiniteSets

CONSTANTS
  Conns,             \* connections of plugins that subscribe to the spectrum
  MaxCommands,       \* bound: commands queued to the PipeWire thread
  MaxRestarts,       \* bound: PipeWire sessions that end
  MaxPanics,         \* bound: panics of the thread between sessions
  MaxBuildFailures   \* bound: captures that cannot be built

ASSUME SpectrumTapAssumption ==
  /\ IsFiniteSet(Conns)
  /\ MaxCommands \in Nat /\ MaxRestarts \in Nat
  /\ MaxPanics \in Nat /\ MaxBuildFailures \in Nat

VARIABLES
  demanding, \* SpectrumGate::demanding of each connection
  count,     \* SPECTRUM_SUBSCRIBERS
  edge,      \* the edge a connection has crossed and not yet sent
  commands,  \* SetSpectrumActive commands on the channel, oldest first
  session,   \* a PipeWire session is running
  built,     \* AudioState::spectrum_capture is there
  frame,     \* PipewireHandles::spectrum holds a frame
  restarts, panics, failures

gateVars == <<demanding, count>>
faultVars == <<restarts, panics, failures>>
loopVars == <<session, built, frame, faultVars>>
vars == <<gateVars, edge, commands, loopVars>>

Init ==
  /\ demanding = [c \in Conns |-> FALSE] /\ count = 0
  /\ edge = [c \in Conns |-> "none"]
  /\ commands = <<>>
  /\ session = FALSE /\ built = FALSE /\ frame = FALSE
  /\ restarts = 0 /\ panics = 0 /\ failures = 0

-----------------------------------------------------------------------------
(* The connections.                                                        *)

\* The card comes on screen: fetch_add, and the 0 -> 1 edge is this one's.
Demand(c) ==
  /\ edge[c] = "none" /\ ~demanding[c]
  /\ demanding' = [demanding EXCEPT ![c] = TRUE]
  /\ count' = count + 1
  /\ edge' = [edge EXCEPT ![c] = IF count = 0 THEN "on" ELSE "none"]
  /\ UNCHANGED <<commands, loopVars>>

\* Mutant: the edge is looked for one too low.
ReleaseOffByOne(c) ==
  /\ edge[c] = "none" /\ demanding[c]
  /\ demanding' = [demanding EXCEPT ![c] = FALSE]
  /\ count' = count - 1
  /\ edge' = [edge EXCEPT ![c] = IF count = 0 THEN "off" ELSE "none"]
  /\ UNCHANGED <<commands, loopVars>>

\* The card goes off screen, or the connection's task is dropped.
Release(c) ==
  /\ edge[c] = "none" /\ demanding[c]
  /\ demanding' = [demanding EXCEPT ![c] = FALSE]
  /\ count' = count - 1
  /\ edge' = [edge EXCEPT ![c] = IF count = 1 THEN "off" ELSE "none"]
  /\ UNCHANGED <<commands, loopVars>>

\* pipewire::set_spectrum_active: fire and forget.
Send(c) ==
  /\ edge[c] # "none" /\ Len(commands) < MaxCommands
  /\ commands' = Append(commands, edge[c] = "on")
  /\ edge' = [edge EXCEPT ![c] = "none"]
  /\ UNCHANGED <<gateVars, loopVars>>

-----------------------------------------------------------------------------
(* The PipeWire thread.                                                    *)

\* true, and the capture exists (Activate) or is built.
ApplyOn ==
  /\ session /\ commands # <<>> /\ Head(commands)
  /\ commands' = Tail(commands)
  /\ built' = TRUE
  /\ UNCHANGED <<gateVars, edge, session, frame, faultVars>>

\* true, and the capture cannot be built: the feature stays dark.
ApplyFails ==
  /\ session /\ commands # <<>> /\ Head(commands) /\ ~built
  /\ failures < MaxBuildFailures /\ failures' = failures + 1
  /\ commands' = Tail(commands)
  /\ UNCHANGED <<gateVars, edge, session, built, frame, restarts,
                 panics>>

\* Mutant: the capture is paused and kept.
ApplyOffPauses ==
  /\ session /\ commands # <<>> /\ ~Head(commands)
  /\ commands' = Tail(commands)
  /\ frame' = FALSE
  /\ UNCHANGED <<gateVars, edge, session, built, faultVars>>

\* false: Teardown, which also clears the published frame, or Nothing.
ApplyOff ==
  /\ session /\ commands # <<>> /\ ~Head(commands)
  /\ commands' = Tail(commands)
  /\ built' = FALSE
  /\ frame' = (frame /\ ~built)
  /\ UNCHANGED <<gateVars, edge, session, faultVars>>

\* The capture delivers a buffer.
Process ==
  /\ session /\ built
  /\ frame' = TRUE
  /\ UNCHANGED <<gateVars, edge, commands, session, built, faultVars>>

\* The daemon goes away: the mainloop quits, its AudioState with it.  The
\* receiver goes back into the slot, so queued commands survive.
SessionEnds ==
  /\ session /\ restarts < MaxRestarts
  /\ session' = FALSE /\ built' = FALSE
  /\ restarts' = restarts + 1
  /\ UNCHANGED <<gateVars, edge, commands, frame, panics, failures>>

\* run_once reaches the mainloop with a new AudioState.
SessionStarts ==
  /\ ~session /\ session' = TRUE
  /\ built' = FALSE
  /\ UNCHANGED <<gateVars, edge, commands, frame, faultVars>>

\* The prologue panics holding the receiver: the supervisor restarts it on a
\* new channel, and what was sent to the old one is lost.
ChannelLost ==
  /\ ~session /\ panics < MaxPanics
  /\ commands' = <<>>
  /\ panics' = panics + 1
  /\ UNCHANGED <<gateVars, edge, session, built, frame, restarts, failures>>

-----------------------------------------------------------------------------
Next ==
  \/ \E c \in Conns : Demand(c) \/ Release(c) \/ Send(c)
  \/ ApplyOn \/ ApplyFails \/ ApplyOff \/ Process
  \/ SessionEnds \/ SessionStarts \/ ChannelLost

Spec == Init /\ [][Next]_vars

\* A crossed edge is sent, commands are handled, and a session that ended is
\* followed by another one.
FairSpec ==
  /\ Spec
  /\ \A c \in Conns : WF_vars(Send(c))
  /\ WF_vars(ApplyOn) /\ WF_vars(ApplyOff) /\ WF_vars(SessionStarts)

-----------------------------------------------------------------------------
(* Properties.                                                             *)

TypeOK ==
  /\ demanding \in [Conns -> BOOLEAN] /\ count \in Nat
  /\ edge \in [Conns -> {"none", "on", "off"}]
  /\ commands \in Seq(BOOLEAN)
  /\ session \in BOOLEAN /\ built \in BOOLEAN /\ frame \in BOOLEAN
  /\ restarts \in 0..MaxRestarts /\ panics \in 0..MaxPanics
  /\ failures \in 0..MaxBuildFailures

\* Each connection contributes one unit exactly while it demands: leaving the
\* screen and then disconnecting releases once.
CountIsDemanders == count = Cardinality({c \in Conns : demanding[c]})

NoEdge == \A c \in Conns : edge[c] = "none"

\* Nothing records an unwatched desktop: when every edge was sent and handled
\* and no card demands the tap, the capture does not exist, whatever the order
\* in which the edges of different connections reached the channel.
UnwantedTapIsDown == NoEdge /\ commands = <<>> /\ count = 0 => ~built

\* Once demand is over for good the capture is gone for good.
TapIsReleased == <>[](count = 0) => <>[](~built)

-----------------------------------------------------------------------------
(* Statements of the comments that the code does not meet.                 *)

\* "The capture tap is toggled active on the 0->1 edge and inactive on the
\* 1->0 edge": with every edge sent and handled, a demanded tap is running.
DemandedTapRuns ==
  session /\ NoEdge /\ commands = <<>> /\ count > 0 => built
=============================================================================
