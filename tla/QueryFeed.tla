----------------------------- MODULE QueryFeed -----------------------------
(***************************************************************************)
(* What the exporter promises the reader of /metrics about one query, and  *)
(* nothing of how: a query that is known either shows nothing or shows the *)
(* newest of the results delivered to it, however late the older ones come *)
(* in; failures in a row never replace what is shown and take it away only *)
(* once there are `Limit` of them; a new query of the same name starts     *)
(* with nothing.                                                           *)
(***************************************************************************)
EXTENDS Naturals

CONSTANTS Queries,
          Results,  \* positive numbers, newer ones being larger
          Limit

VARIABLES known,      \* the queries there are
          delivered,  \* the results delivered to each
          fails,      \* failures in a row since the newest result
          shown       \* the result on /metrics, or Nothing

feedVars == << known, delivered, fails, shown >>

Nothing == 0

IsNewest(n, S) == n \in S /\ \A m \in S : m <= n

FeedInit ==
    /\ known = {}
    /\ delivered = [q \in Queries |-> {}]
    /\ fails = [q \in Queries |-> 0]
    /\ shown = [q \in Queries |-> Nothing]

Add(q) ==
    /\ q \notin known
    /\ known' = known \cup {q}
    /\ UNCHANGED << delivered, fails, shown >>

Drop(q) ==
    /\ q \in known
    /\ known' = known \ {q}
    /\ delivered' = [delivered EXCEPT ![q] = {}]
    /\ fails' = [fails EXCEPT ![q] = 0]
    /\ shown' = [shown EXCEPT ![q] = Nothing]

\* A result that arrives late changes nothing; a newer one is shown, unless it
\* is empty or the query is invalid by now.
Deliver(q, n) ==
    /\ q \in known
    /\ n \notin delivered[q]
    /\ delivered' = [delivered EXCEPT ![q] = @ \cup {n}]
    /\ IF IsNewest(n, delivered'[q])
       THEN /\ fails' = [fails EXCEPT ![q] = 0]
            /\ \E m \in {n, Nothing} : shown' = [shown EXCEPT ![q] = m]
       ELSE UNCHANGED << fails, shown >>
    /\ UNCHANGED known

Fail(q) ==
    /\ q \in known
    /\ fails' = [fails EXCEPT ![q] = @ + 1]
    /\ \/ UNCHANGED shown
       \/ fails'[q] >= Limit /\ shown' = [shown EXCEPT ![q] = Nothing]
    /\ UNCHANGED << known, delivered >>

\* An edit may make the query invalid or valid again.
Edit(q) ==
    /\ q \in known
    /\ \E m \in delivered[q] \cup {Nothing} :
          /\ m = Nothing \/ IsNewest(m, delivered[q])
          /\ shown' = [shown EXCEPT ![q] = m]
    /\ UNCHANGED << known, delivered, fails >>

FeedNext == \E q \in Queries : \/ Add(q) \/ Drop(q) \/ Fail(q) \/ Edit(q)
                               \/ \E n \in Results : Deliver(q, n)

FeedSpec == FeedInit /\ [][FeedNext]_feedVars
=============================================================================
