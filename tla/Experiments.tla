----------------------------- MODULE Experiments -----------------------------
(***************************************************************************)
(* The A/B test of the texts of one ad group (src/src/creatives: ab/, and   *)
(* scheduled.ts): every night the texts are compared over what they were    *)
(* shown, and a card asks to pause the losers.  An approved card pauses     *)
(* them in the cabinet and then in the database; statuses also come back    *)
(* from the cabinet with the hourly load, unless it fails.                  *)
(*                                                                         *)
(* Rates are compared by cross multiplication; the z-test by its square.    *)
(***************************************************************************)
EXTENDS Integers, FiniteSets, FiniteSetsExt

CONSTANTS Ads,               \* the ads of the group with a text of ours
          VariantOf,         \* [Ads -> their llmVariant]
          Outcomes,          \* what an ad is shown in a day: [impressions, clicks]
          MinImpressions, MinExpected,
          CriticalZ2,        \* [comparisons -> z^2 of the adjusted alpha]
          MinLiftPct, MaxCollectingDays,
          LastDay,           \* bound: days, fewer than the window of the test
          MaxFaults          \* bound: failed updates and loads

VARIABLES day, phase,        \* what of the day is next
          cabinet,           \* the ads running in the cabinet
          status,            \* the ads our database takes for running
          shown,             \* [Ads -> [impressions, clicks, since]] within the window
          rewritten,         \* ads whose text moderation rewrote within the window
          keys,              \* idempotency keys: sets of losers asked about
          pending,           \* cards nobody has answered
          ours,              \* ads that stand paused by a card of ours
          faults

experimentVars == <<day, phase, cabinet, status, shown, rewritten, keys, pending, ours, faults>>

Fault == faults < MaxFaults /\ faults' = faults + 1

-----------------------------------------------------------------------------
(* The test. *)

Sum(ads, f) == MapThenSumSet(LAMBDA a : shown[a][f], ads)
AdsOf(ads, v) == {a \in ads : VariantOf[a] = v}
Counts(ads) ==
    [v \in {VariantOf[a] : a \in ads} |->
       [impressions |-> Sum(AdsOf(ads, v), "impressions"), clicks |-> Sum(AdsOf(ads, v), "clicks")]]

\* z^2 of the difference of two rates against the critical one, and whether the
\* normal approximation holds.
Significant(a, b, comparisons) ==
    LET n == a.impressions + b.impressions
        s == a.clicks + b.clicks
        d == a.clicks * b.impressions - b.clicks * a.impressions
    IN  0 < s /\ s < n
        /\ d * d * n > CriticalZ2[comparisons] * a.impressions * b.impressions * s * (n - s)
ApproximationValid(a, b) ==
    LET n == a.impressions + b.impressions
        s == a.clicks + b.clicks
    IN  \A x \in {a, b}, k \in {s, n - s} : x.impressions * k >= MinExpected * n
LiftIsSmall(a, b) == b.clicks > 0 /\ 100 * a.clicks * b.impressions < (100 + MinLiftPct) * b.clicks * a.impressions

Verdict(st, reason, losers) == [status |-> st, reason |-> reason, losers |-> losers]
Collecting(reason, elapsed) ==
    IF elapsed >= MaxCollectingDays THEN Verdict("inconclusive", "COLLECTION_TIMEOUT", {})
    ELSE Verdict("collecting", reason, {})

\* selectWinner: one leader, ahead of every text that was shown enough.
SelectWinner(counts, elapsed) ==
    LET ready == {v \in DOMAIN counts : counts[v].impressions >= MinImpressions}
        rateAtLeast(v, w) ==
            counts[v].clicks * counts[w].impressions >= counts[w].clicks * counts[v].impressions
        leaders == {v \in ready : \A w \in ready : rateAtLeast(v, w)}
        leader == CHOOSE v \in leaders : TRUE
        rivals == ready \ {leader}
    IN  IF Cardinality(DOMAIN counts) < 2 THEN Verdict("inconclusive", "NOT_ENOUGH_VARIANTS", {})
        ELSE IF Cardinality(ready) < 2 THEN Collecting("MIN_IMPRESSIONS", elapsed)
        ELSE IF Cardinality(leaders) # 1 THEN Verdict("inconclusive", "TIE", {})
        ELSE IF \E v \in rivals : ~ApproximationValid(counts[leader], counts[v])
        THEN Collecting("TOO_FEW_CLICKS", elapsed)
        ELSE IF \E v \in rivals : ~Significant(counts[leader], counts[v], Cardinality(rivals))
        THEN Verdict("inconclusive", "NOT_SIGNIFICANT", {})
        ELSE IF \E v \in rivals : LiftIsSmall(counts[leader], counts[v])
        THEN Verdict("inconclusive", "LIFT_TOO_SMALL", {})
        ELSE Verdict("winner", "WINNER", rivals)

\* evaluateAdExperiment: what was paused no longer competes, though it was shown
\* within the window; neither does a text that is not the one it was.
CompetingOnceShown == Ads \ rewritten
Competing == status \ rewritten
\* The age of the comparison: since the youngest of the texts shown was first shown.
ElapsedDays(ads) ==
    LET seen(v) == {shown[a].since : a \in AdsOf(ads, v)} \ {0}
        began == {Min(seen(v)) : v \in {w \in {VariantOf[a] : a \in ads} : seen(w) # {}}}
    IN  IF began = {} THEN 0 ELSE day - Max(began)
Losers == {a \in Competing :
             VariantOf[a] \in SelectWinner(Counts(Competing), ElapsedDays(Competing)).losers}

-----------------------------------------------------------------------------
(* A day. *)

At(p) == phase = p
Then(p) == phase' = p

\* The platform shows the running ads, each some of the time.
Serve ==
    /\ At("serve") /\ Then("load")
    /\ \E got \in [Ads -> Outcomes] :
         shown' = [a \in Ads |->
             IF a \in cabinet
             THEN [impressions |-> shown[a].impressions + got[a].impressions,
                   clicks |-> shown[a].clicks + got[a].clicks,
                   since |-> IF shown[a].since = 0 THEN day ELSE shown[a].since]
             ELSE shown[a]]
    /\ UNCHANGED <<day, cabinet, status, rewritten, keys, pending, ours, faults>>

\* The load of the entities; all of the day's may fail.
Load ==
    /\ At("load") /\ Then("evaluate")
    /\ \/ status' = cabinet /\ faults' = faults
       \/ status' = status /\ Fault
    /\ UNCHANGED <<day, cabinet, shown, rewritten, keys, pending, ours>>

\* runAbEvaluation for the group: the key is taken first and given back when the
\* card cannot be made.
Evaluate ==
    /\ At("evaluate") /\ Then("cards")
    /\ IF Cardinality(status) < 2 \/ Losers = {} \/ Losers \in keys
       THEN UNCHANGED <<keys, pending, faults>>
       ELSE \/ /\ keys' = keys \cup {Losers}
               /\ pending' = pending \cup {Losers}
               /\ faults' = faults
            \/ Fault /\ UNCHANGED <<keys, pending>>
    /\ UNCHANGED <<day, cabinet, status, shown, rewritten, ours>>

\* The executor pauses in the cabinet, then syncLocalEntities, which may fail.
Approve(losers) ==
    /\ At("cards")
    /\ pending' = pending \ {losers}
    /\ cabinet' = cabinet \ losers
    /\ ours' = ours \cup losers
    /\ \/ status' = status \ losers /\ faults' = faults
       \/ status' = status /\ Fault
    /\ UNCHANGED <<day, phase, shown, rewritten, keys>>

Reject(losers) ==
    /\ At("cards")
    /\ pending' = pending \ {losers}
    /\ UNCHANGED <<day, phase, cabinet, status, shown, rewritten, keys, ours, faults>>

\* An expired card gives its key back: the night asks again.
Expire(losers) ==
    /\ At("cards")
    /\ pending' = pending \ {losers}
    /\ keys' = keys \ {losers}
    /\ UNCHANGED <<day, phase, cabinet, status, shown, rewritten, ours, faults>>

\* The client resumes an ad by hand, or moderation rewrites one.
Resume(a) ==
    /\ At("cards") /\ a \notin cabinet
    /\ cabinet' = cabinet \cup {a}
    /\ ours' = ours \ {a}
    /\ UNCHANGED <<day, phase, status, shown, rewritten, keys, pending, faults>>

Rewrite(a) ==
    /\ At("cards") /\ a \in cabinet \ rewritten
    /\ rewritten' = rewritten \cup {a}
    /\ UNCHANGED <<day, phase, cabinet, status, shown, keys, pending, ours, faults>>

\* A card lives two hours, less than a day.
EndDay ==
    /\ At("cards") /\ pending = {} /\ day < LastDay
    /\ day' = day + 1 /\ Then("serve")
    /\ UNCHANGED <<cabinet, status, shown, rewritten, keys, pending, ours, faults>>

Init ==
    /\ day = 1 /\ phase = "serve"
    /\ cabinet = Ads /\ status = Ads
    /\ shown = [a \in Ads |-> [impressions |-> 0, clicks |-> 0, since |-> 0]]
    /\ rewritten = {} /\ keys = {} /\ pending = {} /\ ours = {}
    /\ faults = 0

Next ==
    \/ Serve \/ Load \/ Evaluate \/ EndDay
    \/ \E losers \in pending : Approve(losers) \/ Reject(losers) \/ Expire(losers)
    \/ \E a \in Ads : Resume(a) \/ Rewrite(a)

Spec == Init /\ [][Next]_experimentVars

TypeOK ==
    /\ day \in 1 .. LastDay /\ phase \in {"serve", "load", "evaluate", "cards"}
    /\ cabinet \subseteq Ads /\ status \subseteq Ads /\ rewritten \subseteq Ads
    /\ keys \subseteq SUBSET Ads /\ pending \subseteq keys /\ ours \subseteq Ads \ cabinet
    /\ \A a \in Ads : shown[a].clicks \in 0 .. shown[a].impressions
    /\ faults \in 0 .. MaxFaults

\* The cards of many nights together never switch a group off: some ad runs, or was
\* stopped by somebody else, whatever single update or load failed on the way (after
\* two failures the losers are counted by ads that do not run, and the group goes off).
GroupStaysOn == ours # Ads
=============================================================================
