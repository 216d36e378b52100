-------------------------- MODULE DatasourceRouter --------------------------
(***************************************************************************)
(* The router of datasource queries (trollshell/src/plugins/datasource.rs) *)
(* for one datasource: a plugin asks, the host parks the query under a     *)
(* correlation of its own, forwards it to the plugin that serves the       *)
(* datasource, and sends back what comes first, the answer of that plugin  *)
(* or the host's own refusal.                                              *)
(*                                                                         *)
(* route_query, deliver_result and the timeout are spawned tasks: they     *)
(* run in any order, each holding the lock of the pending table for one    *)
(* step.  What a connection does before and after it serves is PluginHost. *)
(* The timeout is far longer than the moment between arming it and parking *)
(* the query, which are one step here.                                     *)
(***************************************************************************)
EXTENDS ProviderLine, FiniteSets

CONSTANTS
  Queries,         \* DatasourceQuery effects, of any requester
  Plugins,         \* plugins that declare the datasource
  Serves,          \* <<p, q>>: the scope of q is one that p declared
  Capacity,        \* OUTBOUND_CAPACITY
  MaxConnections,  \* bound: connections of all providers together
  MaxAnswers       \* bound: DatasourceResult effects of all plugins together

ASSUME RouterAssumption ==
  /\ IsFiniteSet(Queries) /\ Serves \subseteq Plugins \X Queries
  /\ Capacity \in Nat \ {0}
  /\ MaxConnections \in Nat /\ MaxAnswers \in Nat

VARIABLES
  task,      \* the route_query task of a query
  corr,      \* the correlation minted for a query; 0 for none
  to,        \* the provider entry a query was routed to
  nextCorr,
  pending,   \* DatasourceRouter::pending, by correlation
  timers,    \* correlations whose timeout is armed
  results,   \* what was sent back for a query
  line,      \* DatasourceRouter::providers, of this datasource
  conns,     \* the providers' connections, by generation
  queue,     \* outbound of a connection
  flight,    \* results on their way through the broker, by <<corr, plugin>>
  exempt,    \* results that skipped the effect bucket, by <<corr, plugin>>
  answers    \* results emitted so far

queryVars == <<task, corr, to, nextCorr, results>>
tableVars == <<pending, timers>>
connVars == <<line, conns, queue>>
answerVars == <<flight, exempt, answers>>
vars == <<queryVars, tableVars, connVars, answerVars>>

Corrs == 1..Cardinality(Queries)
Gens == 1..MaxConnections
NoEntry == [plugin |-> "none", gen |-> 0]
NoConn == [plugin |-> "none", session |-> "none", open |-> FALSE]

Init ==
  /\ task = [q \in Queries |-> "none"] /\ corr = [q \in Queries |-> 0]
  /\ to = [q \in Queries |-> NoEntry] /\ nextCorr = 1
  /\ results = [q \in Queries |-> <<>>]
  /\ pending = <<>> /\ timers = {}
  /\ line = <<>> /\ conns = [g \in Gens |-> NoConn]
  /\ queue = [g \in Gens |-> <<>>]
  /\ flight = [a \in Corrs \X Plugins |-> 0]
  /\ exempt = [a \in Corrs \X Plugins |-> 0]
  /\ answers = 0

Parked(k) == k \in DOMAIN pending
Without(k) == [j \in DOMAIN pending \ {k} |-> pending[j]]
Sent(q, kind, by) == [results EXCEPT
  ![q] = Append(@, [kind |-> kind, by |-> by[1], corr |-> by[2]])]
ByHost == <<"host", 0>>

-----------------------------------------------------------------------------
(* The providers' connections, as far as the router sees them.             *)

\* register_provider: one connection per plugin id, a generation of its own.
Connect(p) ==
  \E g \in Gens :
    /\ conns[g] = NoConn /\ \A h \in 1..(g - 1) : conns[h] # NoConn
    /\ \A h \in Gens : conns[h].plugin = p => conns[h].session = "gone"
    /\ conns' = [conns EXCEPT
         ![g] = [plugin |-> p, session |-> "serving", open |-> TRUE]]
    /\ line' = Joined(line, [plugin |-> p, gen |-> g])
    /\ UNCHANGED <<queryVars, tableVars, queue, answerVars>>

\* unregister_provider, in the teardown; the outbound is still open.
Leave(g) ==
  /\ conns[g].session = "serving"
  /\ conns' = [conns EXCEPT
       ![g] = [plugin |-> @.plugin, session |-> "leaving", open |-> @.open]]
  /\ line' = Left(line, g, {h \in Gens : ~conns[h].open})
  /\ UNCHANGED <<queryVars, tableVars, queue, answerVars>>

\* The writer ends, at the end of the teardown or because a write failed: the
\* outbound is closed and what it held is lost.
Close(g) ==
  /\ conns[g].open \/ conns[g].session = "leaving"
  /\ conns' = [conns EXCEPT
       ![g] = [plugin |-> @.plugin, open |-> FALSE,
               session |-> IF @.session = "leaving" THEN "gone"
                                                    ELSE @.session]]
  /\ queue' = [queue EXCEPT ![g] = <<>>]
  /\ UNCHANGED <<queryVars, tableVars, line, answerVars>>

\* The writer takes the next frame to the plugin.
Write(g) ==
  /\ conns[g].open /\ queue[g] # <<>>
  /\ queue' = [queue EXCEPT ![g] = Tail(@)]
  /\ UNCHANGED <<queryVars, tableVars, line, conns, answerVars>>

-----------------------------------------------------------------------------
(* route_query.                                                            *)

\* The broker gets the effect and spawns the task.
Ask(q) ==
  /\ task[q] = "none" /\ task' = [task EXCEPT ![q] = "routing"]
  /\ UNCHANGED <<corr, to, nextCorr, results, tableVars, connVars, answerVars>>

\* Nobody provides the datasource, or not under this scope.
RouteFails(q) ==
  /\ task[q] = "routing" /\ task' = [task EXCEPT ![q] = "done"]
  /\ \/ /\ line = <<>>
        /\ results' = Sent(q, "NotFound", ByHost)
     \/ /\ line # <<>> /\ <<line[1].plugin, q>> \notin Serves
        /\ results' = Sent(q, "ScopeDenied", ByHost)
  /\ UNCHANGED <<corr, to, nextCorr, tableVars, connVars, answerVars>>

\* Mutant: the query is parked with no timeout.
RouteUntimed(q) ==
  /\ task[q] = "routing" /\ task' = [task EXCEPT ![q] = "forwarding"]
  /\ line # <<>> /\ <<line[1].plugin, q>> \in Serves
  /\ to' = [to EXCEPT ![q] = line[1]]
  /\ corr' = [corr EXCEPT ![q] = nextCorr] /\ nextCorr' = nextCorr + 1
  /\ pending' = [k \in DOMAIN pending \cup {nextCorr} |->
       IF k = nextCorr THEN [query |-> q, provider |-> line[1].plugin,
                             admitted |-> FALSE]
                       ELSE pending[k]]
  /\ UNCHANGED <<results, timers, connVars, answerVars>>

\* The holder is looked up, a correlation minted, its timeout armed, the query
\* parked.
Route(q) ==
  /\ task[q] = "routing" /\ task' = [task EXCEPT ![q] = "forwarding"]
  /\ line # <<>> /\ <<line[1].plugin, q>> \in Serves
  /\ to' = [to EXCEPT ![q] = line[1]]
  /\ corr' = [corr EXCEPT ![q] = nextCorr] /\ nextCorr' = nextCorr + 1
  /\ timers' = timers \cup {nextCorr}
  /\ pending' = [k \in DOMAIN pending \cup {nextCorr} |->
       IF k = nextCorr THEN [query |-> q, provider |-> line[1].plugin,
                             admitted |-> FALSE]
                       ELSE pending[k]]
  /\ UNCHANGED <<results, connVars, answerVars>>

\* The send to the outbound of the entry that was looked up; it waits while
\* the queue is full.
Forward(q) ==
  LET g == to[q].gen IN
  /\ task[q] = "forwarding" /\ task' = [task EXCEPT ![q] = "done"]
  /\ conns[g].open /\ Len(queue[g]) < Capacity
  /\ queue' = [queue EXCEPT ![g] = Append(@, corr[q])]
  /\ UNCHANGED <<corr, to, nextCorr, results, tableVars, line, conns,
                 answerVars>>

\* The outbound is closed, before the send or while it waits: the query is
\* taken out if it is still parked, and answered in any case.
ForwardFails(q) ==
  /\ task[q] = "forwarding" /\ task' = [task EXCEPT ![q] = "done"]
  /\ ~conns[to[q].gen].open
  /\ pending' = Without(corr[q])
  /\ timers' = IF Parked(corr[q]) THEN timers \ {corr[q]} ELSE timers
  /\ results' = Sent(q, "NotFound", ByHost)
  /\ UNCHANGED <<corr, to, nextCorr, connVars, answerVars>>

-----------------------------------------------------------------------------
(* The answer.                                                             *)

\* A correlation that may have reached p: it is not waiting in a queue, nor on
\* its way to one.  (One that was lost with its queue is not told apart.)
Reached(p, k) ==
  \E q \in Queries :
    /\ corr[q] = k /\ to[q].plugin = p /\ task[q] = "done"
    /\ \A i \in DOMAIN queue[to[q].gen] : queue[to[q].gen][i] # k

\* What a plugin may echo: a correlation that reached it, or that of another.
Echoable(p, k) ==
  \E q \in Queries : corr[q] = k /\ (to[q].plugin # p \/ Reached(p, k))

\* Mutant: an answer does not mark the query.
EmitUnmarked(p, k) ==
  /\ answers < MaxAnswers /\ answers' = answers + 1
  /\ \E g \in Gens : conns[g].plugin = p /\ conns[g].session = "serving"
  /\ Echoable(p, k)
  /\ Parked(k) /\ pending[k].provider = p
  /\ exempt' = [exempt EXCEPT ![<<k, p>>] = @ + 1]
  /\ flight' = [flight EXCEPT ![<<k, p>>] = @ + 1]
  /\ UNCHANGED <<queryVars, tableVars, connVars>>

\* admit_answer: the first answer to a parked query by the plugin it was
\* routed to skips the effect bucket.
Admits(p, k) ==
  Parked(k) /\ pending[k].provider = p /\ ~pending[k].admitted

\* throttle_effects on a DatasourceResult that is admitted.
EmitAdmitted(p, k) ==
  /\ answers < MaxAnswers /\ answers' = answers + 1
  /\ \E g \in Gens : conns[g].plugin = p /\ conns[g].session = "serving"
  /\ Echoable(p, k) /\ Admits(p, k)
  /\ pending' = [pending EXCEPT ![k] =
       [query |-> @.query, provider |-> p, admitted |-> TRUE]]
  /\ exempt' = [exempt EXCEPT ![<<k, p>>] = @ + 1]
  /\ flight' = [flight EXCEPT ![<<k, p>>] = @ + 1]
  /\ UNCHANGED <<queryVars, timers, connVars>>

\* Any other DatasourceResult spends a token of the bucket; here it has one,
\* and a bucket that has none is an effect that is not emitted.
EmitMetered(p, k) ==
  /\ answers < MaxAnswers /\ answers' = answers + 1
  /\ \E g \in Gens : conns[g].plugin = p /\ conns[g].session = "serving"
  /\ Echoable(p, k) /\ ~Admits(p, k)
  /\ flight' = [flight EXCEPT ![<<k, p>>] = @ + 1]
  /\ UNCHANGED <<queryVars, tableVars, connVars, exempt>>

\* Mutant: whoever echoes the correlation resolves the query.
DeliverFromAnyone(k, p) ==
  /\ flight[<<k, p>>] > 0 /\ flight' = [flight EXCEPT ![<<k, p>>] = @ - 1]
  /\ Parked(k)
  /\ pending' = Without(k) /\ timers' = timers \ {k}
  /\ results' = Sent(pending[k].query, "answer", <<p, k>>)
  /\ UNCHANGED <<task, corr, to, nextCorr, connVars, exempt, answers>>

\* Mutant: the entry stays in the table.
DeliverKeeps(k, p) ==
  /\ flight[<<k, p>>] > 0 /\ flight' = [flight EXCEPT ![<<k, p>>] = @ - 1]
  /\ Parked(k) /\ pending[k].provider = p
  /\ results' = Sent(pending[k].query, "answer", <<p, k>>)
  /\ UNCHANGED <<task, corr, to, nextCorr, tableVars, connVars, exempt,
                 answers>>

\* deliver_result from the plugin the query was routed to.
Deliver(k, p) ==
  /\ flight[<<k, p>>] > 0 /\ flight' = [flight EXCEPT ![<<k, p>>] = @ - 1]
  /\ Parked(k) /\ pending[k].provider = p
  /\ pending' = Without(k) /\ timers' = timers \ {k}
  /\ results' = Sent(pending[k].query, "answer", <<p, k>>)
  /\ UNCHANGED <<task, corr, to, nextCorr, connVars, exempt, answers>>

\* deliver_result of an answer to no parked query, or by another plugin.
Drop(k, p) ==
  /\ flight[<<k, p>>] > 0 /\ flight' = [flight EXCEPT ![<<k, p>>] = @ - 1]
  /\ ~(Parked(k) /\ pending[k].provider = p)
  /\ UNCHANGED <<queryVars, tableVars, connVars, exempt, answers>>

\* QUERY_TIMEOUT is over.
Timeout(k) ==
  /\ k \in timers /\ timers' = timers \ {k}
  /\ pending' = Without(k)
  /\ results' = IF Parked(k)
       THEN Sent(pending[k].query, "Timeout", ByHost) ELSE results
  /\ UNCHANGED <<task, corr, to, nextCorr, connVars, answerVars>>

-----------------------------------------------------------------------------
Query(q) == Ask(q) \/ RouteFails(q) \/ Route(q) \/ Forward(q) \/ ForwardFails(q)
Answer(p, k) ==
  EmitAdmitted(p, k) \/ EmitMetered(p, k) \/ Deliver(k, p) \/ Drop(k, p)

Next ==
  \/ \E p \in Plugins : Connect(p)
  \/ \E g \in Gens : Leave(g) \/ Close(g) \/ Write(g)
  \/ \E q \in Queries : Query(q)
  \/ \E p \in Plugins, k \in Corrs : Answer(p, k)
  \/ \E k \in Corrs : Timeout(k)

Spec == Init /\ [][Next]_vars

\* The runtime polls a spawned task and fires a timer; nothing else is fair:
\* a provider may never read and a full queue never drain.
FairSpec ==
  /\ Spec
  /\ \A q \in Queries : WF_vars(RouteFails(q) \/ Route(q))
  /\ \A k \in Corrs : WF_vars(Timeout(k))

\* The forward of a query waits for room.
Waits(q) ==
  /\ task[q] = "forwarding"
  /\ conns[to[q].gen].open /\ Len(queue[to[q].gen]) = Capacity

\* QUERY_TIMEOUT is ten seconds: a forward that need not wait is over by then.
Prompt == \A k \in Corrs : Timeout(k) =>
  \A q \in Queries : corr[q] = k => task[q] = "done" \/ Waits(q)
PromptSpec == Init /\ [][Next /\ Prompt]_vars

-----------------------------------------------------------------------------
(* Properties.                                                             *)

Outcomes == [kind : {"answer", "NotFound", "ScopeDenied", "Timeout"},
             by : Plugins \cup {"host"}, corr : Nat]

TypeOK ==
  /\ task \in [Queries -> {"none", "routing", "forwarding", "done"}]
  /\ corr \in [Queries -> Nat] /\ nextCorr \in Nat \ {0}
  /\ to \in [Queries -> [plugin : Plugins \cup {"none"}, gen : Nat]]
  /\ DOMAIN pending \subseteq Corrs /\ timers \subseteq Corrs
  /\ \A k \in DOMAIN pending : pending[k] \in
       [query : Queries, provider : Plugins, admitted : BOOLEAN]
  /\ \A q \in Queries : results[q] \in Seq(Outcomes)
  /\ \A g \in Gens : Len(queue[g]) <= Capacity
  /\ flight \in [Corrs \X Plugins -> Nat]
  /\ exempt \in [Corrs \X Plugins -> Nat]
  /\ answers \in 0..MaxAnswers

\* A result that carries an answer answers this very query, and comes from the
\* plugin it was routed to, whoever else echoed its correlation meanwhile.
AnswersComeFromTheProvider ==
  \A q \in Queries : \A i \in DOMAIN results[q] :
    results[q][i].kind = "answer" =>
      results[q][i].by = to[q].plugin /\ results[q][i].corr = corr[q]

\* The answer and the timeout race for the entry in the table, and one of them
\* gets it: a query is never both answered and timed out, nor either twice.
ResolvedOnce ==
  \A q \in Queries : \A i, j \in DOMAIN results[q] :
    results[q][i].kind \in {"answer", "Timeout"}
      /\ results[q][j].kind \in {"answer", "Timeout"} => i = j

\* A timeout is armed exactly as long as its query is parked: none is left
\* sleeping for a query that was resolved, none is missing.
TimersArePaired == timers = DOMAIN pending

\* The bucket is skipped only by a plugin that was asked, once per question.
ExemptionsWerePaidFor ==
  \A k \in Corrs, p \in Plugins : exempt[<<k, p>>] # 0 =>
    /\ exempt[<<k, p>>] = 1
    /\ \E q \in Queries : corr[q] = k /\ to[q].plugin = p

Asked(q) == task[q] # "none"
Settled(q) == results[q] # <<>> /\ (corr[q] # 0 => ~Parked(corr[q]))
\* The requester never hangs: whatever the providers do, every query that was
\* asked gets a result and leaves the table.
EveryQueryIsSettled == \A q \in Queries : Asked(q) ~> Settled(q)

-----------------------------------------------------------------------------
(* A statement of the protocol's documentation, which the code does not    *)
(* meet.                                                                   *)

\* A query and its result are a pair: a query gets at most one result.
OneResultPerQuery == \A q \in Queries : Len(results[q]) <= 1
=============================================================================
