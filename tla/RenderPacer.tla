---------------------------- MODULE RenderPacer ----------------------------
(***************************************************************************)
(* One plugin connection while it serves (trollshell/src/plugins/          *)
(* session.rs): the gate that paces its render frames and drops repeats,   *)
(* the flusher that parks what the gate deferred, the two mailboxes a      *)
(* frame is parked in, the liveness ping, and the end of the session.      *)
(*                                                                         *)
(* The reader, the flusher and the ping are three arms of one select!:     *)
(* each runs alone from one await to its next, and all are dropped in the  *)
(* step that ends the session.  Time is the refill of the bucket and the   *)
(* tick of the ping.                                                       *)
(***************************************************************************)
EXTENDS Integers

CONSTANTS
  Frames,       \* what can be rendered: tree, panel and hidden_on together
  WithPanel,    \* the frames that carry a drawer panel
  Burst,        \* RENDER_BURST
  MaxMissed,    \* MAX_MISSED_PONGS
  MaxPings,     \* bound: pings outstanding that are counted
  Nothing       \* no frame

ASSUME PacerAssumption ==
  /\ WithPanel \subseteq Frames /\ Nothing \notin Frames
  /\ Burst \in Nat \ {0} /\ MaxMissed \in Nat \ {0}
  /\ MaxPings \in Nat /\ MaxPings >= MaxMissed

VARIABLES
  session,    \* serving, over (the select! is done), or cleared
  parked,     \* RenderGate::parked
  pending,    \* RenderGate::pending
  tokens,     \* whole tokens in the bucket
  owed,       \* a permit is stored in RenderPacer::owed
  flusher,    \* where the flusher is
  due,        \* the deadline the flusher sleeps until is over
  card,       \* the frame in the mailbox of the mount
  panel,      \* the frame in the panels mailbox
  last,       \* the newest frame the plugin sent
  peer,       \* the plugin answers, or hangs
  pings,      \* pings it has not answered
  pong,       \* pong_seen
  pinged,     \* a ping was sent: seq > 0
  unanswered  \* misses in a row

gateVars == <<parked, pending, tokens, owed>>
flushVars == <<flusher, due>>
mailVars == <<card, panel>>
pingVars == <<peer, pings, pong, pinged, unanswered>>
vars == <<session, gateVars, flushVars, mailVars, last, pingVars>>

Init ==
  /\ session = "serving"
  /\ parked = Nothing /\ pending = Nothing /\ tokens = Burst /\ owed = FALSE
  /\ flusher = "looking" /\ due = FALSE
  /\ card = Nothing /\ panel = Nothing /\ last = Nothing
  /\ peer = "answers" /\ pings = 0 /\ pong = FALSE /\ pinged = FALSE
  /\ unanswered = 0

-----------------------------------------------------------------------------
(* The reader.                                                             *)

\* park_render: the panel is upserted or cleared, then the card upserted.
Park(f) ==
  /\ card' = f
  /\ panel' = IF f \in WithPanel THEN f ELSE Nothing

Shows(f) == session = "serving" /\ last' = f

\* The frame that is waiting already.
RepeatsPending(f) ==
  /\ Shows(f) /\ pending = f
  /\ UNCHANGED <<session, gateVars, flushVars, mailVars, pingVars>>

\* Mutant: the frame that was waiting goes on waiting.
RepeatsParkedOnly(f) ==
  /\ Shows(f) /\ pending # f /\ parked = f
  /\ UNCHANGED <<session, gateVars, flushVars, mailVars, pingVars>>

\* The frame on the screen: another one that was waiting is forgotten.
RepeatsParked(f) ==
  /\ Shows(f) /\ pending # f /\ parked = f
  /\ pending' = Nothing
  /\ UNCHANGED <<session, parked, tokens, owed, flushVars, mailVars, pingVars>>

\* The bucket has a token: the frame is parked at once.
ParksNow(f) ==
  /\ Shows(f) /\ pending # f /\ parked # f
  /\ tokens > 0 /\ tokens' = tokens - 1
  /\ pending' = Nothing /\ parked' = f
  /\ Park(f)
  /\ UNCHANGED <<session, owed, flushVars, pingVars>>

\* Mutant: the flusher is not told.
DefersSilently(f) ==
  /\ Shows(f) /\ pending # f /\ parked # f
  /\ tokens = 0
  /\ pending' = f
  /\ UNCHANGED <<session, parked, tokens, owed, flushVars, mailVars, pingVars>>

\* It has none: the frame waits, in place of an older one.
Defers(f) ==
  /\ Shows(f) /\ pending # f /\ parked # f
  /\ tokens = 0
  /\ pending' = f /\ owed' = TRUE
  /\ UNCHANGED <<session, parked, tokens, flushVars, mailVars, pingVars>>

\* RenderGate::admit and what route_render makes of its answer.
Render(f) == RepeatsPending(f) \/ RepeatsParked(f) \/ ParksNow(f) \/ Defers(f)

\* A pong is read.
Pong ==
  /\ session = "serving" /\ peer = "answers" /\ pings > 0
  /\ pings' = pings - 1 /\ pong' = TRUE
  /\ UNCHANGED <<session, gateVars, flushVars, mailVars, last, peer, pinged,
                 unanswered>>

-----------------------------------------------------------------------------
(* The flusher.                                                            *)

\* Another token; a deadline is the moment at which there is one.
Refill ==
  /\ session = "serving" /\ tokens < Burst
  /\ tokens' = tokens + 1
  /\ due' = (due \/ flusher = "asleep")
  /\ UNCHANGED <<session, parked, pending, owed, flusher, mailVars, last,
                 pingVars>>

\* A frame is waiting: sleep until its deadline.
Sleep ==
  /\ session = "serving" /\ flusher = "looking" /\ pending # Nothing
  /\ flusher' = "asleep" /\ due' = (tokens > 0)
  /\ UNCHANGED <<session, gateVars, mailVars, last, pingVars>>

\* None is: wait for owed, whose permit may be stored already.
Rest ==
  /\ session = "serving" /\ flusher = "looking" /\ pending = Nothing
  /\ flusher' = "resting"
  /\ UNCHANGED <<session, gateVars, due, mailVars, last, pingVars>>

Notified ==
  /\ session = "serving" /\ flusher = "resting" /\ owed
  /\ owed' = FALSE /\ flusher' = "looking"
  /\ UNCHANGED <<session, parked, pending, tokens, due, mailVars, last,
                 pingVars>>

\* RenderGate::flush at the deadline: whatever waits now is parked.
Flushes ==
  /\ session = "serving" /\ flusher = "asleep" /\ due
  /\ pending # Nothing /\ tokens > 0
  /\ tokens' = tokens - 1
  /\ parked' = pending /\ pending' = Nothing
  /\ Park(pending)
  /\ flusher' = "looking" /\ due' = FALSE
  /\ UNCHANGED <<session, owed, last, pingVars>>

\* Nothing waits any more, or the token went to a newer frame.
FlushesNothing ==
  /\ session = "serving" /\ flusher = "asleep" /\ due
  /\ pending = Nothing \/ tokens = 0
  /\ flusher' = "looking" /\ due' = FALSE
  /\ UNCHANGED <<session, gateVars, mailVars, last, pingVars>>

-----------------------------------------------------------------------------
(* The liveness ping.                                                      *)

\* Mutant: a miss is not counted.
MissesNever ==
  IF pong THEN 0 ELSE unanswered

\* The misses in a row as of this tick: only a ping that was sent can be missed.
Misses ==
  IF pong THEN 0 ELSE IF pinged THEN unanswered + 1 ELSE unanswered

\* A tick that sends the next ping.
Tick ==
  /\ session = "serving" /\ Misses < MaxMissed
  /\ unanswered' = Misses /\ pong' = FALSE
  /\ pinged' = TRUE
  /\ pings' = IF pings < MaxPings THEN pings + 1 ELSE pings
  /\ UNCHANGED <<session, gateVars, flushVars, mailVars, last, peer>>

\* A tick that ends the session: too many misses in a row.
DropsHung ==
  /\ session = "serving" /\ Misses >= MaxMissed
  /\ session' = "over"
  /\ unanswered' = Misses /\ pong' = FALSE
  /\ UNCHANGED <<gateVars, flushVars, mailVars, last, peer, pings, pinged>>

\* Or a full outbound, which a peer that reads too slowly leaves behind.
DropsFull ==
  /\ session = "serving" /\ Misses < MaxMissed
  /\ session' = "over"
  /\ unanswered' = Misses /\ pong' = FALSE /\ pinged' = TRUE
  /\ UNCHANGED <<gateVars, flushVars, mailVars, last, peer, pings>>

\* The plugin hangs: it answers no ping from here on.
Hang ==
  /\ session = "serving" /\ peer = "answers" /\ peer' = "hangs"
  /\ UNCHANGED <<session, gateVars, flushVars, mailVars, last, pings, pong,
                 pinged, unanswered>>

-----------------------------------------------------------------------------
(* The end of the session.                                                 *)

\* The peer leaves, or sends what is refused: the reader's arm is done.
Leave ==
  /\ session = "serving"
  /\ session' = "over"
  /\ UNCHANGED <<gateVars, flushVars, mailVars, last, pingVars>>

\* clear_region_if_owned on the mount and on the panels.
Clear ==
  /\ session = "over" /\ session' = "cleared"
  /\ card' = Nothing /\ panel' = Nothing
  /\ UNCHANGED <<gateVars, flushVars, last, pingVars>>

-----------------------------------------------------------------------------
Flusher == Sleep \/ Rest \/ Notified \/ Flushes \/ FlushesNothing
PingTick == Tick \/ DropsHung
Liveness == PingTick \/ DropsFull

Next ==
  \/ \E f \in Frames : Render(f)
  \/ Pong \/ Refill \/ Flusher \/ Liveness \/ Hang \/ Leave \/ Clear

Spec == Init /\ [][Next]_vars

\* Time goes on and the runtime polls a task that can go on; nothing is asked
\* of the plugin, and no queue has to fill up.
FairSpec ==
  Spec /\ WF_vars(Refill) /\ WF_vars(Flusher) /\ WF_vars(PingTick)
       /\ WF_vars(Clear)

-----------------------------------------------------------------------------
(* Properties.                                                             *)

Slots == Frames \cup {Nothing}
TypeOK ==
  /\ session \in {"serving", "over", "cleared"}
  /\ parked \in Slots /\ pending \in Slots /\ last \in Slots
  /\ card \in Slots /\ panel \in Slots
  /\ tokens \in 0..Burst /\ owed \in BOOLEAN
  /\ flusher \in {"looking", "resting", "asleep"} /\ due \in BOOLEAN
  /\ peer \in {"answers", "hangs"} /\ pings \in 0..MaxPings
  /\ pong \in BOOLEAN /\ pinged \in BOOLEAN /\ unanswered \in Nat

\* Latest wins and nothing is dropped on the floor: the newest frame is the one
\* that waits, or the one on the screen with none waiting; a frame never waits
\* to replace itself, nor for a flusher that rests and is not woken or sleeps
\* past a token.
NewestIsOwedOrParked ==
  /\ last = IF pending # Nothing THEN pending ELSE parked
  /\ pending # Nothing => pending # parked
  /\ pending # Nothing /\ flusher = "resting" => owed
  /\ flusher = "asleep" /\ ~due => tokens = 0

\* The two mailboxes show one frame, the one the gate compares the next with,
\* and nothing once the connection is torn down: no deferred frame comes after.
MailboxesFollowTheGate ==
  IF session = "cleared"
    THEN card = Nothing /\ panel = Nothing
    ELSE card = parked /\ panel = (IF parked \in WithPanel THEN parked ELSE Nothing)

\* Whatever the plugin sent last is shown without its sending anything more.
LastFrameIsShown ==
  \A f \in Frames :
    (session = "serving" /\ last = f)
      ~> (card = f \/ last # f \/ session # "serving")

\* A connection is dropped as hung only if as many pings as are allowed to be
\* missed are unanswered: a late pong clears every miss before it.
HungMeansUnanswered == [][DropsHung => pings >= MaxMissed]_vars

\* A plugin that hangs loses its card.
HungPeerIsDropped == peer = "hangs" ~> session = "cleared"
=============================================================================
