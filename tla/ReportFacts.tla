----------------------------- MODULE ReportFacts -----------------------------
(***************************************************************************)
(* The figures of a report (src/src/reporter: metrics.ts, anomalies.ts,     *)
(* period.ts, math.ts and the composition of daily.ts and weekly.ts): what  *)
(* is summed, what is compared with the period before, what is called an    *)
(* anomaly, and what a letter contains.  Money is counted in whole units;   *)
(* a ratio is compared by cross multiplication, never computed.             *)
(*                                                                         *)
(* Statistics are a function from <<campaign, day>> to a row; a day without *)
(* a row was not loaded, which is not the same as a day without spend.      *)
(***************************************************************************)
EXTENDS Integers, Sequences, FiniteSets, FiniteSetsExt, SequencesExt

CONSTANTS MinSpend,         \* AnomalyThresholds.minSpend
          MinImpressions    \* AnomalyThresholds.minImpressions

SpikePct == 50
CollapsePct == 40
CampaignRows == 7
Problems == 5

-----------------------------------------------------------------------------
(* Periods: first and last day, both included. *)

DaysOf(p) == p.from .. p.to
PeriodDays(p) == p.to - p.from + 1
Trailing(days, today) == [from |-> today - Max({days, 1}), to |-> today - 1]
Yesterday(today) == Trailing(1, today)
LastWeek(today) == Trailing(7, today)
Previous(p) == [from |-> p.from - PeriodDays(p), to |-> p.to - PeriodDays(p)]

-----------------------------------------------------------------------------
(* Metrics. *)

Fields == {"impressions", "clicks", "conversions", "spend"}
\* The rows of a campaign carry where their conversions come from.
Sources == {"PLATFORM", "METRIKA", "NONE"}
Models == Sources \ {"NONE"}

Sum(stats, keys) == [f \in Fields |-> MapThenSumSet(LAMBDA x : stats[x][f], keys)]

Attribution(stats, keys) ==
    LET models == {stats[x].source : x \in keys} \cap Models
    IN  [mixed |-> Cardinality(models) > 1,
         primary |-> IF Cardinality(models) = 1 THEN CHOOSE m \in models : TRUE ELSE "none"]

RowsInHalfOpen(stats, p) == {x \in DOMAIN stats : x[2] \in p.from .. p.to - 1}
RowsIn(stats, p) == {x \in DOMAIN stats : x[2] \in DaysOf(p)}

\* collectPeriodMetrics, for campaigns given with their target CPA (zero: none).
PeriodMetrics(stats, targets, p) ==
    LET keys == {x \in RowsIn(stats, p) : x[1] \in DOMAIN targets}
        loaded == {x[2] : x \in keys}
    IN  [totals |-> Sum(stats, keys),
         campaigns |-> [c \in DOMAIN targets |-> Sum(stats, {x \in keys : x[1] = c})],
         targets |-> targets,
         byDate |-> [d \in DaysOf(p) |->
                       [sum |-> Sum(stats, {x \in keys : x[2] = d}), hasRows |-> d \in loaded]],
         missingDays |-> DaysOf(p) \ loaded,
         hasData |-> loaded # {},
         attribution |-> Attribution(stats, keys)]

Partial(m) == m.hasData /\ m.missingDays # {}
ActiveCampaigns(m) ==
    {c \in DOMAIN m.campaigns :
        \E f \in {"spend", "impressions", "conversions"} : m.campaigns[c][f] > 0}

-----------------------------------------------------------------------------
(* Anomalies. *)

\* The change in percent is at least, at most pct; nothing without a base.
GrewBy(cur, prev, pct) == prev > 0 /\ 100 * (cur - prev) >= pct * prev
FellBy(cur, prev, pct) == prev > 0 /\ 100 * (prev - cur) >= pct * prev

Found(kind, severity, scope) == [kind |-> kind, severity |-> severity, scope |-> scope]
When(cond, a) == IF cond THEN {a} ELSE {}

\* collectScope: a campaign, or the client ("all", without a target).
ScopeAnomalies(scope, cur, prev, target, comparable) ==
    LET sev(b) == IF b THEN "critical" ELSE "warning"
        known(m) == m.impressions > 0
        overTarget(num, den) ==
            /\ cur.conversions > 0 /\ target > 0
            /\ den * cur.spend >= num * target * cur.conversions
    IN  IF cur.spend < MinSpend /\ prev.spend < MinSpend THEN {}
        ELSE When(comparable /\ GrewBy(cur.spend, prev.spend, SpikePct),
                  Found("spend_spike", sev(GrewBy(cur.spend, prev.spend, 2 * SpikePct)), scope))
        \cup When(comparable /\ FellBy(cur.spend, prev.spend, CollapsePct),
                  Found("spend_collapse", "warning", scope))
        \cup When(comparable /\ GrewBy(cur.conversions, prev.conversions, SpikePct),
                  Found("leads_spike", "warning", scope))
        \cup When(comparable /\ FellBy(cur.conversions, prev.conversions, CollapsePct),
                  Found("leads_collapse", "critical", scope))
        \cup When(cur.conversions = 0 /\ cur.spend >= MinSpend,
                  Found("no_leads", "critical", scope))
        \cup When(overTarget(3, 2), Found("cpa_spike", sev(overTarget(3, 1)), scope))
        \cup When(/\ comparable /\ known(cur) /\ known(prev)
                  /\ FellBy(cur.clicks * prev.impressions, prev.clicks * cur.impressions, CollapsePct)
                  /\ cur.impressions >= MinImpressions,
                  Found("ctr_collapse", "warning", scope))

\* detectAnomalies; a campaign the period before did not know is not compared.
Anomalies(cur, prev) ==
    IF ~cur.hasData THEN {}
    ELSE ScopeAnomalies("all", cur.totals, prev.totals, 0, prev.hasData)
         \cup UNION {ScopeAnomalies(c, cur.campaigns[c], prev.campaigns[c], cur.targets[c], prev.hasData) :
                       c \in DOMAIN cur.campaigns \cap DOMAIN prev.campaigns}

\* The first of them, critical before warning; which of equals, their money decides.
TopProblems(found) ==
    {s \in SUBSET found :
        /\ Cardinality(s) = Min({Cardinality(found), Problems})
        /\ \A a \in s, b \in found \ s : a.severity = "warning" => b.severity = "warning"}

Total(seq) == FoldLeft(LAMBDA a, b : a + b, 0, seq)

\* Days without rows are no base.
HistoryOfAll(series) == Front(series)
History(series) == SelectSeq(Front(series), LAMBDA p : p.hasRows)

\* detectSpendOutlier: 2.5 standard deviations from the mean of the days before,
\* or twice or half of it; a series is a sequence of [spend, hasRows].
SpendOutlier(series) ==
    LET history == History(series)
        spends == [i \in DOMAIN history |-> history[i].spend]
        n == Len(spends)
        s == Total(spends)
        spread == n * Total([i \in DOMAIN spends |-> spends[i] * spends[i]]) - s * s
        last == Last(series).spend
        off == n * last - s
        farOff == spread > 0 /\ 4 * off * off >= 25 * spread
    IN  IF series = <<>> THEN "none"
        ELSE IF ~Last(series).hasRows \/ n < 3 \/ s <= 0 THEN "none"
        ELSE IF last < MinSpend /\ s < n * MinSpend THEN "none"
        ELSE IF (off > 0 /\ farOff) \/ n * last >= 2 * s THEN "spike"
        ELSE IF (off < 0 /\ farOff) \/ 2 * n * last <= s THEN "collapse"
        ELSE "none"

-----------------------------------------------------------------------------
(* Letters: the parts of the message, in order. *)

Part(cond, name) == IF cond THEN <<name>> ELSE <<>>

\* Where conversions come from is said once: as a warning, or at the end.
Caveats(m) == Part(Partial(m), "gaps") \o Part(m.attribution.mixed, "mixed attribution")
Comparison(prev) == IF prev.hasData THEN <<"totals against before">> ELSE <<"totals, nothing before">>
Ending(m) == Part(~m.attribution.mixed /\ m.attribution.primary # "none", "attribution")
             \o <<"provisional">>

DailyLetter(cur, prev) ==
    IF ~cur.hasData THEN <<"header", "no data", "provisional">>
    ELSE <<"header">> \o Comparison(prev) \o Caveats(cur)
         \o Part(TRUE, IF ActiveCampaigns(cur) = {} THEN "none active" ELSE "campaigns")
         \o Part(TRUE, IF Anomalies(cur, prev) = {} THEN "no problems" ELSE "problems")
         \o <<"chart">> \o Ending(cur)

\* Review is the answer of the model: which parts it filled; "none" when it failed.
WeeklyLetter(cur, prev, review) ==
    IF ~cur.hasData THEN <<"header", "no data", "provisional">>
    ELSE <<"header">> \o Comparison(prev) \o Caveats(cur)
         \o Part(review # {}, "summary")
         \o Part("worked" \in review, "worked") \o Part("sagging" \in review, "sagging")
         \o Part(review = {} /\ Anomalies(cur, prev) # {}, "problems")
         \o Part(ActiveCampaigns(cur) # {}, "campaigns")
         \o Part(TRUE, IF "nextSteps" \in review THEN "plan" ELSE "no review")
         \o <<"chart">> \o Ending(cur)

\* buildNotes: what the model is told of the figures it is given.
Notes(cur, prev) ==
    <<"provisional">> \o Part(cur.attribution.mixed \/ cur.attribution.primary # "none", "attribution")
    \o Part(Partial(cur), "gaps") \o Part(Partial(prev), "gaps before")
    \o Part(~prev.hasData, "nothing before")

-----------------------------------------------------------------------------
(***************************************************************************)
(* Properties, over given inputs.                                          *)
(***************************************************************************)

\* A day that was not loaded neither is an outlier nor makes one: the verdict on
\* the last day is the verdict on the days that have rows.
GapsAreNotZero(series) ==
    SpendOutlier(series) =
        IF series = <<>> \/ ~Last(series).hasRows THEN "none"
        ELSE SpendOutlier(SelectSeq(series, LAMBDA p : p.hasRows))

\* No row is lost between two reports and none is counted in both: a period and
\* the one before it together have the totals of the whole, by campaign and by day.
PeriodsAddUp(stats, targets, p) ==
    LET cur == PeriodMetrics(stats, targets, p)
        prev == PeriodMetrics(stats, targets, Previous(p))
        both == PeriodMetrics(stats, targets, [from |-> Previous(p).from, to |-> p.to])
    IN  \A f \in Fields :
          /\ cur.totals[f] + prev.totals[f] = both.totals[f]
          /\ both.totals[f] = MapThenSumSet(LAMBDA c : both.campaigns[c][f], DOMAIN targets)
          /\ cur.totals[f] = MapThenSumSet(LAMBDA d : cur.byDate[d].sum[f], DaysOf(p))
=============================================================================
