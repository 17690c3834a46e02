----------------------------- MODULE MCOptimizer ----------------------------
(***************************************************************************)
(* An instance of Optimizer for TLC: one keyword with a bid and one        *)
(* search query.                                                           *)
(***************************************************************************)
EXTENDS Optimizer, TLC

MCKind == [e \in {"keyword", "query"} |->
             IF e = "keyword" THEN "KEYWORD" ELSE "QUERY"]

\* Twice the target, and a little more of it later in the day; half of it; a query nobody clicks.
Dear == [impressions |-> 400, clicks |-> 20, spend |-> 200, conversions |-> 1, days |-> 5]
Dearer == [Dear EXCEPT !.spend = 210]
Cheap == [impressions |-> 400, clicks |-> 20, spend |-> 50, conversions |-> 1, days |-> 5]
Unclicked == [impressions |-> 2000, clicks |-> 6, spend |-> 6, conversions |-> 0, days |-> 5]

MCStatistics == {
    "keyword" :> Dear,
    "keyword" :> Dearer,
    "keyword" :> Cheap,
    "query" :> Unclicked}

\* Far below the daily budget, and above it.
MCSpending == {[Dear EXCEPT !.spend = 50], [Dear EXCEPT !.spend = 600]}

\* Bound: two runs overlap only in the first tick and while nothing has failed.
Overlap ==
    Cardinality({w \in Workers : run[w].at # "idle"}) > 1 => clock = 0 /\ faults = 0

\* Bound: the keyword is dear on the first day, and may be dearer in its second half.
Later ==
    \A w \in Workers : run[w].at = "history" =>
        /\ run[w].stats.of = ("keyword" :> Dearer) => clock = 1
        /\ run[w].stats.of = ("keyword" :> Dear) => clock \in {0, 1}

Symmetry == Permutations(Workers)
=============================================================================
