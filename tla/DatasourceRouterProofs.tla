----------------------- MODULE DatasourceRouterProofs -----------------------
(***************************************************************************)
(* Theorems about DatasourceRouter, for any set of queries and plugins and *)
(* any capacity: who resolves a query, how often, and that its timeout is  *)
(* armed meanwhile.                                                        *)
(***************************************************************************)
EXTENDS DatasourceRouter, TLAPS

\* The part of the state the theorems are about.
Types ==
  /\ task \in [Queries -> {"none", "routing", "forwarding", "done"}]
  /\ corr \in [Queries -> Nat] /\ nextCorr \in Nat \ {0}
  /\ to = [q \in Queries |-> to[q]]
  /\ results \in [Queries -> Seq(Outcomes)]
  /\ exempt \in [Corrs \X Plugins -> Nat]

\* A correlation belongs to one query, from its routing on.
Minted ==
  /\ \A q \in Queries : corr[q] < nextCorr
  /\ \A q \in Queries : task[q] \in {"none", "routing"} => corr[q] = 0
  /\ \A q, r \in Queries : corr[q] = corr[r] /\ corr[q] # 0 => q = r

\* An entry of the table is the one of the query that has its correlation.
Owned ==
  \A k \in DOMAIN pending :
    /\ k \in Nat \ {0} /\ pending[k].query \in Queries
    /\ corr[pending[k].query] = k
    /\ pending[k].provider = to[pending[k].query].plugin

\* A query that was answered or timed out has left the table.
Resolved(q) ==
  \E i \in DOMAIN results[q] : results[q][i].kind \in {"answer", "Timeout"}
Gone == \A q \in Queries :
  Resolved(q) => corr[q] # 0 /\ corr[q] \notin DOMAIN pending

\* A query whose answer skipped the bucket is marked as long as it is parked.
Marked == \A k \in Corrs, p \in Plugins :
  exempt[<<k, p>>] # 0 /\ k \in DOMAIN pending => pending[k].admitted

IInv ==
  /\ Types /\ Minted /\ Owned /\ Gone /\ Marked
  /\ AnswersComeFromTheProvider /\ ResolvedOnce /\ TimersArePaired
  /\ ExemptionsWerePaidFor

-----------------------------------------------------------------------------
(* Lemmas about the operators of the model.                                *)

\* What a result appended to one query does to the results of all.
LEMMA SentFacts ==
  ASSUME results \in [Queries -> Seq(Outcomes)], NEW q \in Queries,
         NEW kind \in {"answer", "NotFound", "ScopeDenied", "Timeout"},
         NEW by \in (Plugins \cup {"host"}) \X Nat,
         results' = Sent(q, kind, by)
  PROVE  /\ results' \in [Queries -> Seq(Outcomes)]
         /\ \A r \in Queries : r # q => results'[r] = results[r]
         /\ DOMAIN results'[q] = DOMAIN results[q] \cup {Len(results[q]) + 1}
         /\ \A i \in DOMAIN results[q] : results'[q][i] = results[q][i]
         /\ results'[q][Len(results[q]) + 1].kind = kind
         /\ results'[q][Len(results[q]) + 1].by = by[1]
         /\ results'[q][Len(results[q]) + 1].corr = by[2]
         /\ Len(results[q]) + 1 \notin DOMAIN results[q]
<1> DEFINE e == [kind |-> kind, by |-> by[1], corr |-> by[2]]
<1>1. e \in Outcomes
  BY DEF Outcomes
<1>2. results' = [results EXCEPT ![q] = Append(results[q], e)]
  BY DEF Sent
<1>3. results[q] \in Seq(Outcomes)
  OBVIOUS
<1> HIDE DEF e
<1>4. /\ Append(results[q], e) \in Seq(Outcomes)
      /\ DOMAIN Append(results[q], e) = DOMAIN results[q] \cup {Len(results[q]) + 1}
      /\ \A i \in DOMAIN results[q] : Append(results[q], e)[i] = results[q][i]
      /\ Append(results[q], e)[Len(results[q]) + 1] = e
      /\ Len(results[q]) + 1 \notin DOMAIN results[q]
  BY <1>1, <1>3
<1>5. e.kind = kind /\ e.by = by[1] /\ e.corr = by[2]
  BY DEF e
<1> QED
  BY <1>2, <1>4, <1>5

\* The host's refusals other than the timeout resolve nothing.
LEMMA RefusalResolvesNothing ==
  ASSUME IInv, NEW q \in Queries, NEW kind \in {"NotFound", "ScopeDenied"},
         results' = Sent(q, kind, ByHost)
  PROVE  /\ results' \in [Queries -> Seq(Outcomes)]
         /\ ResolvedOnce'
         /\ \A r \in Queries : Resolved(r)' => Resolved(r)
         /\ \A r \in Queries : \A i \in DOMAIN results'[r] :
              results'[r][i].kind = "answer" =>
                i \in DOMAIN results[r] /\ results'[r][i] = results[r][i]
<1>1. ByHost \in (Plugins \cup {"host"}) \X Nat
  BY DEF ByHost
<1>2. results \in [Queries -> Seq(Outcomes)]
  BY DEF IInv, Types
<1>3. \A r \in Queries : \A i \in DOMAIN results'[r] :
        results'[r][i].kind \in {"answer", "Timeout"} =>
          i \in DOMAIN results[r] /\ results'[r][i] = results[r][i]
  <2>1. /\ \A r \in Queries : r # q => results'[r] = results[r]
        /\ DOMAIN results'[q] = DOMAIN results[q] \cup {Len(results[q]) + 1}
        /\ \A i \in DOMAIN results[q] : results'[q][i] = results[q][i]
        /\ results'[q][Len(results[q]) + 1].kind = kind
    BY <1>1, <1>2, SentFacts
  <2>2. kind \notin {"answer", "Timeout"}
    OBVIOUS
  <2> QED
    BY <2>1, <2>2
<1> QED
  BY <1>1, <1>2, <1>3, SentFacts DEF IInv, ResolvedOnce, Resolved

-----------------------------------------------------------------------------
LEMMA InitInv == Init => IInv
<1> SUFFICES ASSUME Init PROVE IInv
  OBVIOUS
<1>1. Types
  BY DEF Init, Types
<1>2. DOMAIN pending = {}
  BY DEF Init
<1>3. \A q \in Queries : DOMAIN results[q] = {}
  BY DEF Init
<1>4. Minted /\ Owned /\ Gone /\ Marked
  BY <1>2, <1>3 DEF Init, Minted, Owned, Gone, Marked, Resolved
<1>5. AnswersComeFromTheProvider /\ ResolvedOnce /\ TimersArePaired
  BY <1>2, <1>3 DEF Init, AnswersComeFromTheProvider, ResolvedOnce, TimersArePaired
<1>6. ExemptionsWerePaidFor
  BY DEF Init, ExemptionsWerePaidFor
<1> QED
  BY <1>1, <1>4, <1>5, <1>6 DEF IInv

\* The connections, and the answers that are on their way.
LEMMA QuietStep ==
  ASSUME IInv,
         UNCHANGED <<corr, to, nextCorr, results, pending, timers, exempt>>,
         task' \in [Queries -> {"none", "routing", "forwarding", "done"}],
         \A q \in Queries : task'[q] \in {"none", "routing"} =>
           task[q] \in {"none", "routing"}
  PROVE  IInv'
<1>1. Types' /\ Minted'
  BY DEF IInv, Types, Minted
<1> QED
  BY <1>1 DEF IInv, Owned, Gone, Marked, Resolved, AnswersComeFromTheProvider,
     ResolvedOnce, TimersArePaired, ExemptionsWerePaidFor

-----------------------------------------------------------------------------
(* route_query.                                                            *)

LEMMA RouteFailsStep ==
  ASSUME IInv, NEW q \in Queries, RouteFails(q)
  PROVE  IInv'
<1>1. \E kind \in {"NotFound", "ScopeDenied"} : results' = Sent(q, kind, ByHost)
  BY DEF RouteFails
<1>2. /\ results' \in [Queries -> Seq(Outcomes)]
      /\ ResolvedOnce'
      /\ \A r \in Queries : Resolved(r)' => Resolved(r)
      /\ \A r \in Queries : \A i \in DOMAIN results'[r] :
           results'[r][i].kind = "answer" =>
             i \in DOMAIN results[r] /\ results'[r][i] = results[r][i]
  BY <1>1, RefusalResolvesNothing
<1>3. UNCHANGED <<corr, to, nextCorr, pending, timers, exempt>>
  BY DEF RouteFails, tableVars, answerVars
<1>4. Types' /\ Minted'
  BY <1>2, <1>3 DEF IInv, Types, Minted, RouteFails
<1>5. AnswersComeFromTheProvider'
  BY <1>2, <1>3 DEF IInv, AnswersComeFromTheProvider
<1>6. Owned' /\ Gone' /\ Marked'
  BY <1>2, <1>3 DEF IInv, Owned, Gone, Marked
<1> QED
  BY <1>2, <1>3, <1>4, <1>5, <1>6
  DEF IInv, TimersArePaired, ExemptionsWerePaidFor

\* The correlation is new, so no other query and no entry has it.
LEMMA RouteStep ==
  ASSUME IInv, NEW q \in Queries, Route(q)
  PROVE  IInv'
<1>1. /\ task[q] = "routing" /\ corr[q] = 0 /\ nextCorr \in Nat \ {0}
      /\ UNCHANGED <<results, exempt>>
  BY DEF Route, IInv, Types, Minted, answerVars
<1>2. /\ corr'[q] = nextCorr /\ nextCorr' = nextCorr + 1
      /\ \A r \in Queries : r # q => corr'[r] = corr[r] /\ to'[r] = to[r]
      /\ to'[q] = line[1] /\ to' = [r \in Queries |-> to'[r]]
  BY DEF Route, IInv, Types
<1>3. /\ DOMAIN pending' = DOMAIN pending \cup {nextCorr}
      /\ timers' = timers \cup {nextCorr}
      /\ pending'[nextCorr] = [query |-> q, provider |-> line[1].plugin,
                               admitted |-> FALSE]
      /\ \A k \in DOMAIN pending : k # nextCorr => pending'[k] = pending[k]
  BY DEF Route
<1>4. \A k \in DOMAIN pending : k # nextCorr /\ pending[k].query # q
  <2>1. \A r \in Queries : corr[r] \in Nat /\ corr[r] < nextCorr
    BY DEF IInv, Types, Minted
  <2>2. \A k \in DOMAIN pending : /\ pending[k].query \in Queries
                                   /\ k # 0 /\ corr[pending[k].query] = k
    BY DEF IInv, Owned
  <2> QED
    BY <1>1, <2>1, <2>2
<1>5. ~Resolved(q)
  BY <1>1 DEF IInv, Gone
<1>6. Types'
  BY <1>1, <1>2 DEF Route, IInv, Types
<1>7. Minted'
  <2>1. \A r \in Queries : task'[r] \in {"none", "routing"} =>
          r # q /\ task[r] \in {"none", "routing"}
    BY DEF Route, IInv, Types
  <2>2. \A r \in Queries : corr[r] \in Nat /\ corr[r] < nextCorr
    BY DEF IInv, Types, Minted
  <2>3. \A r \in Queries : corr'[r] < nextCorr'
    BY <1>1, <1>2, <2>2
  <2>4. \A r, s \in Queries : corr'[r] = corr'[s] /\ corr'[r] # 0 => r = s
    BY <1>1, <1>2, <2>2 DEF IInv, Minted
  <2> QED
    BY <1>2, <2>1, <2>3, <2>4 DEF IInv, Minted
<1>8. Owned'
  BY <1>1, <1>2, <1>3, <1>4 DEF IInv, Owned
<1>9. Gone'
  <2>1. \A r \in Queries : Resolved(r)' => Resolved(r) /\ r # q
    BY <1>1, <1>5 DEF Resolved
  <2>2. \A r \in Queries : corr[r] # nextCorr
    BY <1>1 DEF IInv, Minted, Types
  <2> QED
    BY <1>2, <1>3, <2>1, <2>2 DEF IInv, Gone
<1>10. AnswersComeFromTheProvider'
  BY <1>1, <1>2, <1>5 DEF IInv, AnswersComeFromTheProvider, Resolved
<1>11. TimersArePaired' /\ ResolvedOnce'
  BY <1>1, <1>3 DEF IInv, TimersArePaired, ResolvedOnce
<1>12. ExemptionsWerePaidFor'
  <2>1. \A k \in Corrs : k # 0
    BY DEF Corrs
  <2> QED
    BY <1>1, <1>2, <2>1 DEF IInv, ExemptionsWerePaidFor
<1>13. Marked'
  <2>1. \A k \in Corrs, p \in Plugins : exempt[<<k, p>>] # 0 => k # nextCorr
    BY <1>1 DEF IInv, ExemptionsWerePaidFor, Minted, Types
  <2> QED
    BY <1>1, <1>3, <1>4, <2>1 DEF IInv, Marked
<1> QED
  BY <1>6, <1>7, <1>8, <1>9, <1>10, <1>11, <1>12, <1>13 DEF IInv

-----------------------------------------------------------------------------
\* An entry leaves the table with its timeout; nothing else changes there.
LEMMA EntryGone ==
  ASSUME IInv, NEW k, pending' = Without(k), timers' = timers \ {k},
         UNCHANGED <<corr, to, exempt>>
  PROVE  Owned' /\ Marked' /\ TimersArePaired' /\ ExemptionsWerePaidFor'
         /\ DOMAIN pending' = DOMAIN pending \ {k}
<1>1. /\ DOMAIN pending' = DOMAIN pending \ {k}
      /\ \A j \in DOMAIN pending' : pending'[j] = pending[j]
  BY DEF Without
<1> QED
  BY <1>1 DEF IInv, Owned, Marked, TimersArePaired, ExemptionsWerePaidFor

LEMMA ForwardFailsStep ==
  ASSUME IInv, NEW q \in Queries, ForwardFails(q)
  PROVE  IInv'
<1>1. /\ results' = Sent(q, "NotFound", ByHost)
      /\ UNCHANGED <<corr, to, nextCorr, exempt>>
      /\ pending' = Without(corr[q])
  BY DEF ForwardFails, answerVars
<1>2. /\ results' \in [Queries -> Seq(Outcomes)]
      /\ ResolvedOnce'
      /\ \A r \in Queries : Resolved(r)' => Resolved(r)
      /\ \A r \in Queries : \A i \in DOMAIN results'[r] :
           results'[r][i].kind = "answer" =>
             i \in DOMAIN results[r] /\ results'[r][i] = results[r][i]
  BY <1>1, RefusalResolvesNothing
<1>3. timers' = timers \ {corr[q]}
  BY DEF ForwardFails, Parked, IInv, TimersArePaired
<1>4. /\ Owned' /\ Marked' /\ TimersArePaired' /\ ExemptionsWerePaidFor'
      /\ DOMAIN pending' = DOMAIN pending \ {corr[q]}
  BY <1>1, <1>3, EntryGone
<1>5. Types' /\ Minted'
  BY <1>1, <1>2 DEF IInv, Types, Minted, ForwardFails
<1>6. AnswersComeFromTheProvider'
  BY <1>1, <1>2 DEF IInv, AnswersComeFromTheProvider
<1>7. Gone'
  BY <1>1, <1>2, <1>4 DEF IInv, Gone
<1> QED
  BY <1>2, <1>4, <1>5, <1>6, <1>7 DEF IInv

\* What resolves a query takes it out of the table, where it was still parked,
\* so nothing has resolved it before.
LEMMA Resolution ==
  ASSUME IInv, NEW k \in DOMAIN pending,
         NEW kind \in {"answer", "Timeout"},
         NEW by \in (Plugins \cup {"host"}) \X Nat,
         kind = "answer" => by[1] = pending[k].provider /\ by[2] = k,
         results' = Sent(pending[k].query, kind, by),
         pending' = Without(k), timers' = timers \ {k},
         UNCHANGED <<task, corr, to, nextCorr, exempt>>
  PROVE  IInv'
<1> DEFINE q == pending[k].query
           n == Len(results[q]) + 1
<1>1. /\ q \in Queries /\ corr[q] = k /\ k # 0
      /\ pending[k].provider = to[q].plugin
  BY DEF IInv, Owned
<1>2. results \in [Queries -> Seq(Outcomes)]
  BY DEF IInv, Types
<1> HIDE DEF q
<1>3. results' = Sent(q, kind, by)
  BY DEF q
<1>4. /\ results' \in [Queries -> Seq(Outcomes)]
      /\ \A r \in Queries : r # q => results'[r] = results[r]
      /\ DOMAIN results'[q] = DOMAIN results[q] \cup {n}
      /\ \A i \in DOMAIN results[q] : results'[q][i] = results[q][i]
      /\ results'[q][n].kind = kind /\ results'[q][n].by = by[1]
      /\ results'[q][n].corr = by[2]
  BY <1>1, <1>2, <1>3, SentFacts
<1> HIDE DEF n
<1>5. ~Resolved(q)
  BY <1>1 DEF IInv, Gone
<1>6. /\ Owned' /\ Marked' /\ TimersArePaired' /\ ExemptionsWerePaidFor'
      /\ DOMAIN pending' = DOMAIN pending \ {k}
  BY EntryGone
<1>7. Types' /\ Minted'
  BY <1>4 DEF IInv, Types, Minted
<1>8. Gone'
  <2>1. \A r \in Queries : Resolved(r)' => r = q \/ Resolved(r)
    BY <1>4 DEF Resolved
  <2> QED
    BY <1>1, <1>6, <2>1 DEF IInv, Gone
<1>9. ResolvedOnce'
  <2>1. SUFFICES ASSUME NEW r \in Queries,
                        NEW i \in DOMAIN results'[r], NEW j \in DOMAIN results'[r],
                        results'[r][i].kind \in {"answer", "Timeout"},
                        results'[r][j].kind \in {"answer", "Timeout"}
                 PROVE  i = j
    BY DEF ResolvedOnce
  <2>2. CASE r = q
    BY <1>4, <1>5, <2>1, <2>2 DEF Resolved
  <2>3. CASE r # q
    BY <1>4, <2>1, <2>3 DEF IInv, ResolvedOnce
  <2> QED
    BY <2>2, <2>3
<1>10. AnswersComeFromTheProvider'
  <2>1. SUFFICES ASSUME NEW r \in Queries, NEW i \in DOMAIN results'[r],
                        results'[r][i].kind = "answer"
                 PROVE  results'[r][i].by = to[r].plugin
                        /\ results'[r][i].corr = corr[r]
    BY DEF AnswersComeFromTheProvider
  <2>2. CASE r = q /\ i = n
    BY <1>1, <1>4, <2>1, <2>2
  <2>3. CASE ~(r = q /\ i = n)
    BY <1>4, <2>1, <2>3 DEF IInv, AnswersComeFromTheProvider
  <2> QED
    BY <2>2, <2>3
<1> QED
  BY <1>6, <1>7, <1>8, <1>9, <1>10 DEF IInv

LEMMA DeliverStep ==
  ASSUME IInv, NEW k \in Corrs, NEW p \in Plugins, Deliver(k, p)
  PROVE  IInv'
<1>1. k \in Nat
  BY DEF Corrs
<1>2. /\ k \in DOMAIN pending /\ pending[k].provider = p
      /\ results' = Sent(pending[k].query, "answer", <<p, k>>)
      /\ pending' = Without(k) /\ timers' = timers \ {k}
      /\ UNCHANGED <<task, corr, to, nextCorr, exempt>>
  BY DEF Deliver, Parked
<1> QED
  BY <1>1, <1>2, Resolution

LEMMA TimeoutStep ==
  ASSUME IInv, NEW k \in Corrs, Timeout(k)
  PROVE  IInv'
<1>1. k \in DOMAIN pending
  BY DEF Timeout, IInv, TimersArePaired
<1>2. /\ results' = Sent(pending[k].query, "Timeout", ByHost)
      /\ pending' = Without(k) /\ timers' = timers \ {k}
      /\ UNCHANGED <<task, corr, to, nextCorr, exempt>>
  BY <1>1 DEF Timeout, Parked, answerVars
<1>3. ByHost \in (Plugins \cup {"host"}) \X Nat
  BY DEF ByHost
<1> QED
  BY <1>1, <1>2, <1>3, Resolution

\* The first answer marks the entry, and an entry that is not marked has had
\* no exemption.
LEMMA EmitAdmittedStep ==
  ASSUME IInv, NEW k \in Corrs, NEW p \in Plugins, EmitAdmitted(p, k)
  PROVE  IInv'
<1>1. /\ k \in DOMAIN pending /\ pending[k].provider = p /\ ~pending[k].admitted
      /\ pending' = [pending EXCEPT
           ![k] = [query |-> pending[k].query, provider |-> p, admitted |-> TRUE]]
      /\ exempt' = [exempt EXCEPT ![<<k, p>>] = exempt[<<k, p>>] + 1]
      /\ UNCHANGED <<task, corr, to, nextCorr, results, timers>>
  BY DEF EmitAdmitted, Admits, Parked, queryVars
<1>2. /\ DOMAIN pending' = DOMAIN pending
      /\ pending'[k].query = pending[k].query /\ pending'[k].provider = p
      /\ pending'[k].admitted
      /\ \A j \in DOMAIN pending : j # k => pending'[j] = pending[j]
  BY <1>1
<1>3. /\ exempt[<<k, p>>] = 0 /\ exempt'[<<k, p>>] = 1
      /\ \A a \in Corrs \X Plugins : a # <<k, p>> => exempt'[a] = exempt[a]
  BY <1>1 DEF IInv, Marked, Types
<1>4. Types'
  BY <1>1 DEF IInv, Types
<1>5. Minted' /\ Gone' /\ ResolvedOnce' /\ AnswersComeFromTheProvider'
      /\ TimersArePaired'
  BY <1>1, <1>2 DEF IInv, Minted, Gone, Resolved, ResolvedOnce,
     AnswersComeFromTheProvider, TimersArePaired
<1>6. Owned' /\ Marked'
  BY <1>1, <1>2, <1>3 DEF IInv, Owned, Marked
<1>7. ExemptionsWerePaidFor'
  <2>1. \E q \in Queries : corr[q] = k /\ to[q].plugin = p
    BY <1>1 DEF IInv, Owned
  <2> QED
    BY <1>1, <1>3, <2>1 DEF IInv, ExemptionsWerePaidFor
<1> QED
  BY <1>4, <1>5, <1>6, <1>7 DEF IInv

-----------------------------------------------------------------------------
LEMMA NextStep ==
  ASSUME IInv, [Next]_vars
  PROVE  IInv'
<1> USE DEF queryVars, tableVars, connVars, answerVars
<1>0. task \in [Queries -> {"none", "routing", "forwarding", "done"}]
  BY DEF IInv, Types
<1>1. CASE UNCHANGED vars
  BY <1>0, <1>1, QuietStep DEF vars
<1>2. CASE \E p \in Plugins : Connect(p)
  BY <1>0, <1>2, QuietStep DEF Connect
<1>3. CASE \E g \in Gens : Leave(g) \/ Close(g) \/ Write(g)
  BY <1>0, <1>3, QuietStep DEF Leave, Close, Write
<1>4. CASE \E q \in Queries : Query(q)
  <2>1. PICK q \in Queries : Query(q)
    BY <1>4
  <2>2. CASE Ask(q)
    BY <1>0, <2>2, QuietStep DEF Ask
  <2>3. CASE Forward(q)
    BY <1>0, <2>3, QuietStep DEF Forward
  <2> QED
    BY <2>1, <2>2, <2>3, RouteFailsStep, RouteStep, ForwardFailsStep DEF Query
<1>5. CASE \E p \in Plugins, k \in Corrs : Answer(p, k)
  <2>1. PICK p \in Plugins, k \in Corrs : Answer(p, k)
    BY <1>5
  <2>2. CASE EmitMetered(p, k)
    BY <1>0, <2>2, QuietStep DEF EmitMetered
  <2>3. CASE Drop(k, p)
    BY <1>0, <2>3, QuietStep DEF Drop
  <2> QED
    BY <2>1, <2>2, <2>3, EmitAdmittedStep, DeliverStep DEF Answer
<1>6. CASE \E k \in Corrs : Timeout(k)
  BY <1>6, TimeoutStep
<1> QED
  BY <1>1, <1>2, <1>3, <1>4, <1>5, <1>6 DEF Next

\* The invariant holds of every behaviour.
THEOREM Inductive == Spec => []IInv
<1> QED
  BY InitInv, NextStep, PTL DEF Spec

\* Every answer a requester gets is the routed provider's answer to its query.
THEOREM AnswersAreTheProviders == Spec => []AnswersComeFromTheProvider
<1>1. IInv => AnswersComeFromTheProvider
  BY DEF IInv
<1> QED
  BY Inductive, <1>1, PTL

\* The answer and the timeout of a query exclude each other.
THEOREM OneResolution == Spec => []ResolvedOnce
<1>1. IInv => ResolvedOnce
  BY DEF IInv
<1> QED
  BY Inductive, <1>1, PTL

\* No query is parked without a timeout, and no timeout outlives its query.
THEOREM TimersBelongToQueries == Spec => []TimersArePaired
<1>1. IInv => TimersArePaired
  BY DEF IInv
<1> QED
  BY Inductive, <1>1, PTL

\* A plugin skips its effect bucket once per query that was routed to it.
THEOREM OneExemptionPerQuery == Spec => []ExemptionsWerePaidFor
<1>1. IInv => ExemptionsWerePaidFor
  BY DEF IInv
<1> QED
  BY Inductive, <1>1, PTL
=============================================================================
