----------------------------- MODULE Guardrails -----------------------------
(***************************************************************************)
(* What the optimizer decides about one campaign (src/src/optimizer):      *)
(* the rules that propose changes, the resolution of conflicts, the        *)
(* guardrails that reject or clamp them, and the policy that tells which   *)
(* of them a human has to approve.  All operators are pure.                *)
(*                                                                         *)
(* Money is an integer number of kopecks and a rate an integer per cent;   *)
(* the code's roundMoney, floorMoney and ceilMoney are exact here.         *)
(***************************************************************************)
EXTENDS Integers, Sequences, FiniteSets, SequencesExt

CONSTANTS Entities,       \* ids of keywords, groups, ads and search queries
          Kind,           \* the entityType of each; "QUERY" is a search query
          BidLevel,       \* bidLevelOf(provider): "KEYWORD" or "ADGROUP"
          MaxBidChange,   \* MAX_BID_CHANGE_PCT
          MaxShare,       \* maxChangedEntityShare, per cent
          MassPause,      \* MASS_PAUSE_THRESHOLD
          BigChange       \* BUDGET_CHANGE_APPROVAL_THRESHOLD, per cent

Kinds == {"KEYWORD", "ADGROUP", "AD", "QUERY"}
Modes == {"OBSERVER", "ASSIST", "FULL"}
BidActions == {"BID_DECREASE", "BID_INCREASE"}
Actions == BidActions \cup {"PAUSE", "ADD_NEGATIVE_KEYWORD"}

ASSUME GuardrailsAssumption ==
    /\ IsFiniteSet(Entities)
    /\ Kind \in [Entities -> Kinds]
    /\ BidLevel \in {"KEYWORD", "ADGROUP"}
    /\ MaxBidChange \in 0 .. 100
    /\ MaxShare \in 0 .. 100
    /\ MassPause \in Nat
    /\ BigChange \in Nat

\* A change: prevValue and nextValue are amounts for a bid and zero for the rest,
\* whose values the action implies.
Decisions == [action : Actions, entity : Entities, prev : Nat, next : Nat]

\* The rows of one entity summed over the observation window, and the campaign's.
Metrics == [impressions : Nat, clicks : Nat, spend : Nat, conversions : Nat, days : Nat]

\* What the database says of an entity; isServing holds for an unknown status.
LocalRows == [bid : Nat, on : BOOLEAN]

-----------------------------------------------------------------------------
(***************************************************************************)
(* What the statistics come to.  A row has an entity (or a query with its  *)
(* group), a date and numbers.                                             *)
(***************************************************************************)

Total(rows, Field(_)) == FoldLeft(LAMBDA sum, r : sum + Field(r), 0, rows)
Summed(rows) ==
    [impressions |-> Total(rows, LAMBDA r : r.impressions), clicks |-> Total(rows, LAMBDA r : r.clicks),
     spend |-> Total(rows, LAMBDA r : r.spend), conversions |-> Total(rows, LAMBDA r : r.conversions),
     days |-> Cardinality({rows[i].date : i \in DOMAIN rows})]

AggregateStats(rows) ==
    [e \in {rows[i].entity : i \in DOMAIN rows} |-> Summed(SelectSeq(rows, LAMBDA r : r.entity = e))]

\* A query counts once for all groups it was seen in, and goes to the one where it
\* cost most, the first by id among equals.
PickAdGroup(spend) ==
    CHOOSE g \in DOMAIN spend :
        \A h \in DOMAIN spend : spend[g] > spend[h] \/ (spend[g] = spend[h] /\ g <= h)
QueryMetrics(rows) ==
    LET of(q) == SelectSeq(rows, LAMBDA r : r.query = q /\ ~r.negated)
        spendIn(q) == [g \in {of(q)[i].group : i \in DOMAIN of(q)} |->
                          Total(SelectSeq(of(q), LAMBDA r : r.group = g), LAMBDA r : r.spend)]
    IN  [q \in {rows[i].query : i \in {j \in DOMAIN rows : ~rows[j].negated}} |->
            [metrics |-> Summed(of(q)), group |-> PickAdGroup(spendIn(q))]]

\* Conversions of two sources do not add up: such a window is no ground for a decision.
HasMixedAttribution(rows) ==
    Cardinality({rows[i].source : i \in {j \in DOMAIN rows : rows[j].campaign}} \ {"none"}) > 1

\* The campaign's own target, or the one of the brief; zero is none.
ResolveTargetCpa(own, fallback) == IF own > 0 THEN own ELSE fallback

Round(n) == (n + 50) \div 100
Floor(n) == n \div 100
Ceil(n) == (n + 99) \div 100

-----------------------------------------------------------------------------
(***************************************************************************)
(* Rules.                                                                  *)
(***************************************************************************)

\* cpa against a per cent of the target: without conversions any spend is too much.
CpaAbove(m, rate, target) ==
    IF m.conversions = 0 THEN m.spend > 0 ELSE 100 * m.spend > rate * target * m.conversions
CpaBelow(m, rate, target) ==
    m.conversions > 0 /\ 100 * m.spend < rate * target * m.conversions

Biddable(e, row) == Kind[e] = BidLevel /\ row[e].bid > 0

PauseHighCpa(e, m, row, target) ==
    /\ target > 0
    /\ Kind[e] \in {"KEYWORD", "AD"}
    /\ row[e].on
    /\ m[e].impressions > 500
    /\ CpaAbove(m[e], 300, target)

DecreasedBid(bid) == Round(85 * bid)
DecreaseBid(e, m, row, target) ==
    /\ target > 0
    /\ Biddable(e, row) /\ row[e].on
    /\ m[e].impressions > 200
    /\ CpaAbove(m[e], 150, target)
    /\ DecreasedBid(row[e].bid) \in 1 .. row[e].bid - 1

IncreasedBid(bid) == Round(110 * bid)
IncreaseBid(e, m, row, target, saving) ==
    /\ target > 0
    /\ saving
    /\ Biddable(e, row) /\ row[e].on
    /\ CpaBelow(m[e], 70, target)
    /\ IncreasedBid(row[e].bid) > row[e].bid

\* loadSearchQueryMetrics reads no query that is already negated.
AddNegative(e, m, row) ==
    /\ Kind[e] = "QUERY"
    /\ row[e].on
    /\ m[e].clicks > 5
    /\ 1000 * m[e].clicks < 5 * m[e].impressions

\* The campaign spends less than half of its daily budget.
Saving(m, budget) ==
    budget > 0 /\ (m.days = 0 \/ 2 * m.spend < budget * m.days)

Change(action, e, prev, next) == [action |-> action, entity |-> e, prev |-> prev, next |-> next]

\* MVP_RULES one after the other, each over the entities in some order, that of their rows.
Proposals(m, row, target, saving) ==
    LET By(Rule(_), Make(_)) ==
            LET hits == SetToSeq({e \in DOMAIN m : Rule(e)}) IN [i \in DOMAIN hits |-> Make(hits[i])]
    IN  By(LAMBDA e : PauseHighCpa(e, m, row, target), LAMBDA e : Change("PAUSE", e, 0, 0))
        \o By(LAMBDA e : DecreaseBid(e, m, row, target),
              LAMBDA e : Change("BID_DECREASE", e, row[e].bid, DecreasedBid(row[e].bid)))
        \o By(LAMBDA e : IncreaseBid(e, m, row, target, saving),
              LAMBDA e : Change("BID_INCREASE", e, row[e].bid, IncreasedBid(row[e].bid)))
        \o By(LAMBDA e : AddNegative(e, m, row), LAMBDA e : Change("ADD_NEGATIVE_KEYWORD", e, 0, 0))

\* The numbers the reason of a change quotes, a rate by what it is made of.
Quoted(d, m, campaign) ==
    CASE d.action = "BID_INCREASE" -> <<m.spend, m.conversions, campaign.spend, campaign.days>>
      [] d.action = "ADD_NEGATIVE_KEYWORD" -> <<m.clicks, m.impressions, m.days>>
      [] OTHER -> <<m.spend, m.conversions, m.impressions, m.days>>

\* A paused entity gets no bid, and the first of two changes of one kind wins.
SameSubject(d, c) ==
    d.entity = c.entity /\ (d.action = c.action \/ {d.action, c.action} \subseteq BidActions)
ResolveConflicts(ds) ==
    LET paused == {ds[i].entity : i \in {j \in DOMAIN ds : ds[j].action = "PAUSE"}}
        Open(d) == ~(d.action \in BidActions /\ d.entity \in paused)
        Add(kept, d) == IF Open(d) /\ \A i \in DOMAIN kept : ~SameSubject(d, kept[i])
                        THEN Append(kept, d)
                        ELSE kept
    IN  FoldLeft(Add, <<>>, ds)

-----------------------------------------------------------------------------
(***************************************************************************)
(* Guardrails.  A history is the set "unavailable" of entities whose rows  *)
(* cannot be trusted and the bids "anchor" at the start of the window.     *)
(***************************************************************************)

\* The corridor of clampBid: one step from the bid, narrowed by the window around
\* the anchor, which never forbids to stay.
UpperOfStep(prev, anchor) == Floor(prev * (100 + MaxBidChange))
Upper(prev, anchor) ==
    LET step == Floor(prev * (100 + MaxBidChange))
        window == Floor(anchor * (100 + MaxBidChange))
        most == IF window > prev THEN window ELSE prev
    IN  IF step < most THEN step ELSE most
Lower(prev, anchor) ==
    LET step == Ceil(prev * (100 - MaxBidChange))
        window == Ceil(anchor * (100 - MaxBidChange))
        least == IF window < prev THEN window ELSE prev
    IN  IF step > least THEN step ELSE least

ClampBid(prev, anchor, next) ==
    CASE next > Upper(prev, anchor) -> Upper(prev, anchor)
      [] next < Lower(prev, anchor) -> Lower(prev, anchor)
      [] OTHER -> next

\* The change limitValue lets pass, or the empty set when it rejects it.  Its branch for the
\* budget of a campaign is left out: no rule proposes one.
LimitValue(d, history) ==
    IF d.action \notin BidActions THEN {d}
    ELSE LET anchor == IF d.entity \in DOMAIN history.anchor THEN history.anchor[d.entity] ELSE d.prev
             amount == ClampBid(d.prev, anchor, d.next)
         IN  IF d.prev = 0 \/ d.entity \in history.unavailable \/ amount = d.prev
             THEN {}
             ELSE {[d EXCEPT !.next = amount]}

\* At least one entity may change, unless the share is zero.
EntityCap(population) ==
    IF MaxShare = 0 THEN 0
    ELSE IF population * MaxShare < 100 THEN 1 ELSE (population * MaxShare) \div 100

SpendsQuota(d) == d.action # "ADD_NEGATIVE_KEYWORD"

Observed(d, m) ==
    d.entity \in DOMAIN m /\ m[d.entity].impressions >= 100 /\ m[d.entity].days >= 3

\* Queries are no entities of the campaign's statistics.
Population(m) == {e \in DOMAIN m : Kind[e] # "QUERY"}

\* Without a population there is no cap.
WithinCap(d, touched, m) ==
    \/ Population(m) = {}
    \/ ~SpendsQuota(d)
    \/ d.entity \in touched
    \/ Cardinality(touched) < EntityCap(Cardinality(Population(m)))

ApplyGuardrails(ds, m, history) ==
    LET Step(acc, d) ==
            LET limited == IF Observed(d, m) /\ WithinCap(d, acc.touched, m)
                           THEN LimitValue(d, history)
                           ELSE {}
            IN  IF limited = {} THEN acc
                ELSE [allowed |-> Append(acc.allowed, CHOOSE l \in limited : TRUE),
                      touched |-> IF SpendsQuota(d) THEN acc.touched \cup {d.entity}
                                  ELSE acc.touched]
    IN  FoldLeft(Step, [allowed |-> <<>>, touched |-> {}], ds).allowed

-----------------------------------------------------------------------------
(***************************************************************************)
(* Policy.                                                                 *)
(***************************************************************************)

ExceedsThreshold(d) ==
    LET delta == IF d.next > d.prev THEN d.next - d.prev ELSE d.prev - d.next
    IN  d.prev = 0 \/ 100 * delta > BigChange * d.prev

\* The kind of the approval a change needs, or "none".
ApprovalKindFor(d, mode, massPause) ==
    CASE mode = "OBSERVER" -> "IMPORT_HANDOVER"
      [] mode = "ASSIST" /\ d.action \in BidActions -> "IMPORT_HANDOVER"
      [] mode # "OBSERVER" /\ d.action = "PAUSE" /\ massPause -> "MASS_PAUSE"
      [] mode = "FULL" /\ d.action \in BidActions /\ ExceedsThreshold(d) -> "BID_CHANGE"
      [] OTHER -> "none"

IsMassPause(ds) == Cardinality({i \in DOMAIN ds : ds[i].action = "PAUSE"}) > MassPause

AutoApply(ds, mode) ==
    LET Add(kept, d) ==
            IF ApprovalKindFor(d, mode, IsMassPause(ds)) = "none" THEN Append(kept, d) ELSE kept
    IN  FoldLeft(Add, <<>>, ds)

\* toApprovalActions: the changes of one request go by what they do to the cabinet,
\* one card each; pauses by the level of their entities.
CardSubject(d) ==
    CASE d.action = "PAUSE" -> <<"pause_entities", Kind[d.entity]>>
      [] d.action \in BidActions -> <<"bid_change", "">>
      [] OTHER -> <<"add_negatives", "">>
Approvals(ds, mode) ==
    LET KindOf(d) == ApprovalKindFor(d, mode, IsMassPause(ds))
        asked == {d \in {ds[i] : i \in DOMAIN ds} : KindOf(d) # "none"}
    IN  {{c \in asked : KindOf(c) = KindOf(d) /\ CardSubject(c) = CardSubject(d)} : d \in asked}
=============================================================================
