------------------------------ MODULE OwnName -------------------------------
(***************************************************************************)
(* The ownership task of hytte-bus (own.rs): one well-known name, requested *)
(* over one connection and one NameOwnerChanged subscription, against peers *)
(* that take and release the same name.                                    *)
(*                                                                         *)
(* The broker emits signals and replies in one order, on one socket.  The  *)
(* sequence signals holds the NameOwnerChanged facts emitted since the     *)
(* subscription that the task has not consumed; the first `arrived' of     *)
(* them are in the stream's queue, the rest are in flight.  A reply can be *)
(* received once the `before' signals emitted ahead of it have arrived.    *)
(***************************************************************************)
EXTENDS Integers, Sequences

CONSTANTS
  Peers,           \* unique names of the other connections that want the name
  PermanentAfter,  \* OwnNameBuilder::permanent_after
  MaxTally,        \* the count saturates here (u32::MAX in the code)
  MaxQueued,       \* DEFAULT_MAX_QUEUED: the queue of one subscription
  MaxSignals       \* bound: peers act only while fewer signals are unread

ASSUME OwnNameAssumption ==
  /\ PermanentAfter \in Nat \ {0}
  /\ MaxTally \in Nat /\ MaxTally >= PermanentAfter
  /\ MaxQueued \in Nat \ {0}
  /\ MaxSignals \in Nat

CONSTANTS Us, Nobody

ASSUME NamesAssumption ==
  Us \notin Peers /\ Nobody \notin Peers /\ Us # Nobody

VARIABLES
  owner,    \* broker: who holds the name
  up,       \* the connection the task is on (or would be given) is alive
  signals,  \* NameOwnerChanged facts not yet consumed, oldest first
  arrived,  \* how many of them are in the stream's queue
  reply,    \* the broker's answer to the call in flight
  before,   \* signals emitted ahead of that answer
  pc,       \* where the ownership task is
  state,    \* OwnState
  tally     \* consecutive_losses_to; count 0 is None

brokerVars == <<owner, up>>
streamVars == <<signals, arrived>>
callVars   == <<reply, before>>
taskVars   == <<pc, state, tally>>
nameVars == <<brokerVars, streamVars, callVars, taskVars>>

Subscribed == pc \notin {"connect", "down", "backoff", "denied"}

NoLosses == [holder |-> Nobody, count |-> 0]

NameInit ==
  /\ owner \in {Nobody} \cup Peers /\ up \in BOOLEAN
  /\ signals = <<>> /\ arrived = 0
  /\ reply = "none" /\ before = 0
  /\ pc = "connect" /\ state = "Acquiring"
  /\ tally = NoLosses

-----------------------------------------------------------------------------
(* The broker, the socket and the other connections.                       *)

\* The name passes to `new'; the subscription, if there is one, is told.
Pass(new) ==
  /\ owner' = new
  /\ signals' = IF Subscribed /\ up /\ new # owner
                THEN Append(signals, [old |-> owner, new |-> new])
                ELSE signals

\* A peer takes the name.  From us it always can: we pass AllowReplacement.
PeerTakes(p) ==
  /\ owner # p /\ Len(signals) < MaxSignals
  /\ Pass(p)
  /\ UNCHANGED <<up, arrived, callVars, taskVars>>

PeerReleases ==
  /\ owner \in Peers /\ Len(signals) < MaxSignals
  /\ Pass(Nobody)
  /\ UNCHANGED <<up, arrived, callVars, taskVars>>

\* The socket reader publishes the next signal.  A full queue blocks it, and
\* with it every reply behind that signal.
Deliver ==
  /\ up /\ arrived < Len(signals) /\ arrived < MaxQueued
  /\ arrived' = arrived + 1
  /\ UNCHANGED <<brokerVars, signals, callVars, taskVars>>

\* The connection dies: the broker releases our name, what was in flight is
\* lost, and the stream ends after what it has queued.
Die ==
  /\ up /\ up' = FALSE
  /\ owner' = IF owner = Us THEN Nobody ELSE owner
  /\ signals' = SubSeq(signals, 1, arrived)
  /\ UNCHANGED <<arrived, callVars, taskVars>>

-----------------------------------------------------------------------------
(* Leaving a wait.  Back at the outer loop the stream is dropped.          *)

DropStream == signals' = <<>> /\ arrived' = 0
DropReply  == reply' = "none" /\ before' = 0

\* Drop the first n signals, all of which have arrived.
Consume(n) ==
  /\ signals' = SubSeq(signals, n + 1, Len(signals))
  /\ arrived' = arrived - n

Reconnect ==
  /\ pc' = "connect" /\ state' = "Acquiring"
  /\ DropStream /\ DropReply

\* An error on the way to a RequestName reply: the FailureStreak's delay, with
\* the stream drained and about to be dropped.
BackOff ==
  /\ pc' = "backoff" /\ state' = "Acquiring"
  /\ DropStream /\ DropReply
  /\ UNCHANGED <<brokerVars, tally>>

-----------------------------------------------------------------------------
(* Connecting.                                                             *)

\* with_conn: the interfaces are mounted, then the subscription is made.  The
\* connection is the one we had, or a fresh one.
Connect ==
  /\ pc = "connect"
  /\ up' = TRUE
  /\ pc' = "ask"
  /\ UNCHANGED <<owner, streamVars, callVars, state, tally>>

\* No connection, or the mount or the subscription failed.
ConnectFails ==
  /\ pc = "connect"
  /\ pc' = "down" /\ state' = "Acquiring"
  /\ UNCHANGED <<brokerVars, streamVars, callVars, tally>>

\* Mutant: a refusal by policy is final.
SleepEndsUnlessDenied ==
  /\ pc \in {"down", "backoff"}
  /\ pc' = "connect" /\ state' = "Acquiring"
  /\ UNCHANGED <<brokerVars, streamVars, callVars, tally>>

\* A sleep outside the inner loop ends: the ramp, or the Denied cooldown.
SleepEnds ==
  /\ pc \in {"down", "backoff", "denied"}
  /\ pc' = "connect" /\ state' = "Acquiring"
  /\ UNCHANGED <<brokerVars, streamVars, callVars, tally>>

-----------------------------------------------------------------------------
(* Asking.                                                                 *)

Answer(r) == reply' = r /\ before' = Len(signals)

\* The broker handles RequestName(AllowReplacement, ReplaceExisting,
\* DoNotQueue).  Whether a peer lets itself be replaced is the peer's choice.
Ask ==
  /\ pc = "ask" /\ up
  /\ \/ Pass(Us) /\ Answer("owner")
     \/ /\ owner \in Peers /\ Answer("exists")
        /\ UNCHANGED <<owner, signals>>
  /\ pc' = "asked"
  /\ UNCHANGED <<up, arrived, state, tally>>

\* The broker refuses by policy, or answers with another error.
AskRefused ==
  /\ pc = "ask" /\ up
  /\ \E r \in {"denied", "error"} : Answer(r)
  /\ pc' = "asked"
  /\ UNCHANGED <<brokerVars, streamVars, state, tally>>

\* The DBusProxy cannot be built, or the call cannot be sent.
AskFails == pc = "ask" /\ BackOff

Received(r) == reply = r /\ arrived >= before

\* The connection died under the call.
AskLost == pc = "asked" /\ ~up /\ BackOff

ReplyError == pc = "asked" /\ Received("error") /\ BackOff

ReplyDenied ==
  /\ pc = "asked" /\ Received("denied")
  /\ pc' = "denied" /\ state' = "Denied"
  /\ DropStream /\ DropReply
  /\ UNCHANGED <<brokerVars, tally>>

-----------------------------------------------------------------------------
(* Losing: the tally and what follows from it.                             *)

\* record_loss: consecutive losses to one holder.  A loss nobody could be
\* named for (Nobody) continues the tally in flight and keeps its key.
RecordLoss(holder) ==
  LET continues == tally.count > 0 /\ holder \in {tally.holder, Nobody}
  IN [holder |-> IF holder = Nobody THEN tally.holder ELSE holder,
      count |-> IF ~continues THEN 1
                ELSE IF tally.count < MaxTally THEN tally.count + 1
                ELSE MaxTally]

\* The verdict of record_loss: give_up_and_wait at the threshold, else retry.
Lose(holder, retryAt, retryState) ==
  /\ tally' = RecordLoss(holder)
  /\ IF tally'.count >= PermanentAfter
     THEN pc' = "waiting" /\ state' = "PermanentlyTaken"
     ELSE pc' = retryAt /\ state' = retryState

-----------------------------------------------------------------------------
(* on_name_taken: asked and refused.                                       *)

\* RequestName said Exists; GetNameOwner is on its way.
ReplyExists ==
  /\ pc = "asked" /\ Received("exists")
  /\ pc' = "lookup"
  /\ DropReply
  /\ UNCHANGED <<brokerVars, streamVars, state, tally>>

\* The broker says who holds the name, or that nobody does any more.
Lookup ==
  /\ pc = "lookup" /\ up
  /\ Answer(owner)
  /\ pc' = "looking"
  /\ UNCHANGED <<brokerVars, streamVars, state, tally>>

\* Mutant: whatever the subscription buffered so far is thrown away, as if it
\* were made only now.
RefusedByDrains(holder) ==
  /\ Lose(holder, "retry", "Lost")
  /\ DropStream /\ DropReply
  /\ UNCHANGED brokerVars

RefusedBy(holder) ==
  /\ Lose(holder, "retry", "Lost")
  /\ DropReply
  /\ UNCHANGED <<brokerVars, streamVars>>

ReplyHolder ==
  /\ pc = "looking"
  /\ \E h \in Peers \cup {Nobody} : Received(h) /\ RefusedBy(h)

\* The connection died under GetNameOwner: nobody can be named.
LookupLost ==
  /\ pc \in {"lookup", "looking"} /\ ~up
  /\ RefusedBy(Nobody)

\* sleep_draining reads and discards.
RetryDrains ==
  /\ pc = "retry" /\ arrived > 0
  /\ Consume(arrived)
  /\ UNCHANGED <<brokerVars, callVars, taskVars>>

RetryEnds ==
  /\ pc = "retry"
  /\ pc' = "ask" /\ state' = "Acquiring"
  /\ UNCHANGED <<brokerVars, streamVars, callVars, tally>>

-----------------------------------------------------------------------------
(* on_name_held: we have it, until watch_for_loss says otherwise.          *)

\* Mutant: what was buffered before Owned is drained first.
ReplyOwnerDrains ==
  /\ pc = "asked" /\ Received("owner")
  /\ pc' = "held" /\ state' = "Owned"
  /\ Consume(arrived)
  /\ DropReply
  /\ UNCHANGED <<brokerVars, tally>>

\* on_name_held: Owned, as soon as the answer is read.
ReplyOwner ==
  /\ pc = "asked" /\ Received("owner")
  /\ pc' = "held" /\ state' = "Owned"
  /\ DropReply
  /\ UNCHANGED <<brokerVars, streamVars, tally>>

\* A signal about an ownership that was not ours is stepped over.
StepOver ==
  /\ pc = "held" /\ arrived > 0 /\ Head(signals).old # Us
  /\ Consume(1)
  /\ UNCHANGED <<brokerVars, callVars, taskVars>>

\* The name was taken from our unique name.  Below the threshold it is asked
\* for again at once, on the same connection and subscription.
Displaced ==
  /\ pc = "held" /\ arrived > 0 /\ Head(signals).old = Us
  /\ Lose(Head(signals).new, "ask", "Acquiring")
  /\ Consume(1)
  /\ UNCHANGED <<brokerVars, callVars>>

\* The stream ended: a transient loss, which clears the tally.
HeldEnds ==
  /\ pc = "held" /\ ~up /\ arrived = 0
  /\ tally' = NoLosses
  /\ Reconnect
  /\ UNCHANGED brokerVars

-----------------------------------------------------------------------------
(* give_up_and_wait, wait_for_release_or_cooldown.                         *)

\* Everything queued is folded in and only the latest fact counts: if it says
\* the name is free, ask again on this connection.
Fold ==
  /\ pc = "waiting" /\ arrived > 0
  /\ LET free == signals[arrived].new = Nobody
     IN /\ pc' = IF free THEN "ask" ELSE pc
        /\ state' = IF free THEN "Acquiring" ELSE state
  /\ Consume(arrived)
  /\ UNCHANGED <<brokerVars, callVars, tally>>

\* The cooldown elapsed: rebuild the subscription and try once.
Cooldown ==
  /\ pc = "waiting"
  /\ Reconnect
  /\ UNCHANGED <<brokerVars, tally>>

-----------------------------------------------------------------------------
Environment ==
  \/ \E p \in Peers : PeerTakes(p)
  \/ PeerReleases \/ Deliver \/ Die

Task ==
  \/ Connect \/ ConnectFails \/ SleepEnds
  \/ Ask \/ AskRefused \/ AskFails \/ AskLost \/ ReplyError \/ ReplyDenied
  \/ ReplyExists \/ Lookup \/ ReplyHolder \/ LookupLost
  \/ RetryDrains \/ RetryEnds
  \/ ReplyOwner \/ StepOver \/ Displaced \/ HeldEnds
  \/ Fold \/ Cooldown

NameNext == Environment \/ Task

NameSpec == NameInit /\ [][NameNext]_nameVars

\* Every step the task and the socket can take is taken, every retry sleep
\* ends, and the bus accepts a connection and answers a request if asked often
\* enough.  SleepEnds takes in the wait after a denial, which is as long as the
\* cooldown of a give-up.  Of the latter nothing is assumed (Cooldown): there the
\* five minutes are a backstop.
FairNameSpec ==
  /\ NameSpec
  /\ WF_nameVars(Deliver) /\ WF_nameVars(Fold)
  /\ WF_nameVars(SleepEnds) /\ WF_nameVars(RetryEnds)
  /\ WF_nameVars(ReplyError) /\ WF_nameVars(ReplyDenied)
  /\ WF_nameVars(ReplyExists)
  /\ WF_nameVars(Lookup) /\ WF_nameVars(ReplyHolder) /\ WF_nameVars(ReplyOwner)
  /\ WF_nameVars(AskLost) /\ WF_nameVars(LookupLost)
  /\ WF_nameVars(StepOver) /\ WF_nameVars(Displaced) /\ WF_nameVars(HeldEnds)
  /\ SF_nameVars(Connect) /\ SF_nameVars(Ask)

-----------------------------------------------------------------------------
(* Properties.                                                             *)

Names == Peers \cup {Us, Nobody}

NameTypeOK ==
  /\ owner \in Names /\ up \in BOOLEAN
  /\ signals \in Seq([old : Names, new : Names])
  /\ arrived \in 0..Len(signals) /\ arrived <= MaxQueued
  /\ reply \in {"none", "owner", "exists", "denied", "error", Nobody} \cup Peers
  /\ before \in Nat
  /\ pc \in {"connect", "down", "ask", "asked", "lookup", "looking", "held",
             "retry", "waiting", "backoff", "denied"}
  /\ state \in {"Acquiring", "Owned", "Lost", "PermanentlyTaken", "Denied"}
  /\ tally \in [holder : Peers \cup {Nobody}, count : 0..MaxTally]

\* While the task believes it owns the name on a live connection, it is the
\* owner exactly when no displacement of it is left to read: a loss is never
\* missed, and an old one is never mistaken for a new one (the subscription is
\* made before RequestName, and watch_for_loss reads only our own losses).
OwnedIsTrue ==
  pc = "held" /\ up =>
    (owner = Us <=> \A i \in DOMAIN signals : signals[i].old # Us)

\* A release that nobody else follows up wakes the give-up on the subscription
\* alone: no fairness is assumed of the cooldown.
ReleaseIsNoticed ==
  (pc = "waiting" /\ up /\ owner = Nobody)
    ~> (pc # "waiting" \/ ~up \/ owner # Nobody)

\* Once the connection lasts and the peers leave the name alone, the task ends
\* up owning it for good, wherever it was: backing off, refused by policy and
\* waiting for five minutes to ask again, or given up, which the release ends
\* without waiting for the cooldown.
QuietNameIsOwned ==
  <>[](up /\ owner \in {Nobody, Us}) => <>[](state = "Owned")
=============================================================================
