------------------------------ MODULE PlanFacts ------------------------------
(***************************************************************************)
(* The arithmetic of a campaign plan (src/src/campaigns: budget.ts, geo.ts,  *)
(* limits.ts, planner.ts): how money, places, groups and texts of a brief    *)
(* and of the answers of the model become a plan.                           *)
(*                                                                         *)
(* Money is in kopecks, a weight is a whole number of hundredths.            *)
(***************************************************************************)
EXTENDS Integers, Sequences, FiniteSets, SequencesExt

CONSTANTS MinBudget,    \* DIRECT_MIN_DAILY_BUDGET_RUB
          MaxKeywords,  \* of a group
          MaxName,      \* PLANNED_GROUP_NAME_MAX, in words
          Attempts,     \* TEXT_REGENERATION_ATTEMPTS
          ParentOf      \* region -> the region it lies in, or itself

SumOf(s) == FoldLeft(LAMBDA a, b : a + b, 0, s)

-----------------------------------------------------------------------------
(* Money: parts [key, weight]. *)

Weights(parts) == SumOf([i \in DOMAIN parts |-> parts[i].weight])
Floors(total, parts) == [i \in DOMAIN parts |-> (total * parts[i].weight) \div Weights(parts)]
\* allocateByLargestRemainder: the kopecks lost by rounding go to the largest remainders.
LargestRemainder(total, parts) ==
    LET floors == Floors(total, parts)
        rest == total - SumOf(floors)
        frac(i) == (total * parts[i].weight) % Weights(parts)
        before(i) == Cardinality({j \in DOMAIN parts : frac(j) > frac(i) \/ (frac(j) = frac(i) /\ j < i)})
    IN  [i \in DOMAIN parts |-> floors[i] + (IF before(i) < rest THEN 1 ELSE 0)]
Lightest(parts) == CHOOSE i \in DOMAIN parts :
    \A j \in DOMAIN parts : parts[i].weight < parts[j].weight \/ (parts[i].weight = parts[j].weight /\ i <= j)
\* splitBudget: one part is given up at a time until every share is at least the minimum.
Drop(total, parts) ==
    IF parts = <<>> THEN parts
    ELSE IF total < MinBudget * Len(parts) THEN RemoveAt(parts, Lightest(parts))
    ELSE LET amounts == LargestRemainder(total, parts)
             short == {i \in DOMAIN parts : amounts[i] < MinBudget}
         IN  IF short = {} THEN parts
             ELSE RemoveAt(parts, CHOOSE i \in short : \A j \in short : i <= j)
SplitBudget(total, parts) ==
    LET weighty == SelectSeq(parts, LAMBDA p : p.weight > 0)
        active == FoldLeft(LAMBDA acc, p : Drop(total, acc), weighty, parts)
        amounts == LargestRemainder(total, active)
    IN  [i \in DOMAIN active |-> [key |-> active[i].key, amount |-> amounts[i]]]
\* planBudgets: between the channels, then between search and network of each.
Placements == <<[key |-> "search", weight |-> 70], [key |-> "network", weight |-> 30]>>
PlanBudgets(total, channels) ==
    LET byChannel == SplitBudget(total, channels)
    IN  FoldLeft(LAMBDA acc, c : acc \o SplitBudget(c.amount, Placements), <<>>, byChannel)

-----------------------------------------------------------------------------
(* Places. *)

Regions == DOMAIN ParentOf
Lineage(id) == FoldLeft(LAMBDA acc, step : acc \cup {ParentOf[r] : r \in acc}, {id}, <<1, 2, 3, 4, 5, 6, 7>>)
Within(ancestor, id) == ancestor \in Lineage(id)
\* buildRegionTargeting: a ban is stronger than a show, and bans nothing could need go.
SuppressedByName(region, excluded) == region \in excluded
Suppressed(region, excluded) == \E n \in excluded : Within(n, region)
BuildTargeting(target, excluded) ==
    LET kept == {r \in target : ~Suppressed(r, excluded)}
    IN  [shown |-> kept, banned |-> {n \in excluded : \E r \in kept : Within(r, n)}]

-----------------------------------------------------------------------------
(* Groups: a draft [name, keywords], a name a sequence of words, a keyword [key, valid]. *)

\* uniqueGroupName.
Numbered(name, n) == IF n = 1 THEN name
                     ELSE SubSeq(name, 1, IF Len(name) < MaxName THEN Len(name) ELSE MaxName - 1) \o <<n>>
UniqueName(name, taken) ==
    LET free == {n \in 1..(Cardinality(taken) + 2) : Numbered(name, n) \notin taken}
    IN  Numbered(name, CHOOSE n \in free : \A m \in free : n <= m)
\* buildGroups: no phrase goes to two groups.
KnownAnew(acc) == {}
Known(acc) == acc.seen
TakeKeyword(acc, keyword) ==
    IF keyword.key = "" \/ keyword.key \in acc.seen \/ ~keyword.valid \/ Len(acc.keywords) = MaxKeywords
    THEN acc
    ELSE [acc EXCEPT !.seen = @ \cup {keyword.key}, !.keywords = Append(@, keyword.key)]
AddGroup(acc, draft) ==
    LET taken == FoldLeft(LAMBDA a, k : TakeKeyword(a, k), [seen |-> Known(acc), keywords |-> <<>>], draft.keywords)
        name == UniqueName(draft.name, acc.names)
    IN  IF taken.keywords = <<>> THEN acc
        ELSE [seen |-> taken.seen, names |-> acc.names \cup {name},
              groups |-> Append(acc.groups, [name |-> name, keywords |-> taken.keywords])]
BuildGroups(drafts) ==
    FoldLeft(LAMBDA acc, d : AddGroup(acc, d), [seen |-> {}, names |-> {}, groups |-> <<>>], drafts).groups

-----------------------------------------------------------------------------
(* Texts: an answer maps a group to the number of its fields that are too long, *)
(* or to NoTexts.  A field that stays too long is cut.                        *)

NoTexts == -1
\* generateTexts: one round; what does not fit, or is missing, is asked for once more.
Forgotten(item) == [item EXCEPT !.truncated = 0]
Missing(item) == item
PutTexts(acc, item, answer, last) ==
    LET over == answer[item.group]
    IN  IF over = NoTexts THEN [acc EXCEPT !.retry = Append(@, Missing(item))]
        ELSE [result |-> [acc.result EXCEPT ![item.group] = over],
              told |-> acc.told + (IF last THEN over ELSE 0),
              retry |-> IF over > 0 /\ ~last
                        THEN Append(acc.retry, [group |-> item.group, truncated |-> over]) ELSE acc.retry]
Round(acc, answer, last) ==
    FoldLeft(LAMBDA a, item : PutTexts(a, item, answer, last), [acc EXCEPT !.retry = <<>>], acc.retry)
GenerateTexts(groups, answers) ==
    LET pending == SetToSeq({[group |-> g, truncated |-> 0] : g \in groups})
        acc == FoldLeft(LAMBDA a, i : Round(a, answers[i], i = Attempts + 1),
                        [result |-> [g \in groups |-> NoTexts], told |-> 0, retry |-> pending],
                        [i \in 1..(Attempts + 1) |-> i])
        left == SelectSeq(acc.retry, LAMBDA item : acc.result[item.group] # NoTexts)
    IN  [result |-> acc.result,
         told |-> acc.told + SumOf([i \in DOMAIN left |-> left[i].truncated]),
         skipped |-> {acc.retry[i].group : i \in {j \in DOMAIN acc.retry : acc.result[acc.retry[j].group] = NoTexts}}]

-----------------------------------------------------------------------------
(***************************************************************************)
(* Properties, of all inputs of a run.                                     *)
(***************************************************************************)

\* The campaigns of a plan cost what the brief allows, to the kopeck, and none less than
\* the platform takes; there is no plan only if the money is not enough for one campaign.
BudgetIsWhole(total, channels) ==
    \A budgets \in {PlanBudgets(total, channels)} :
        IF budgets = <<>> THEN total < MinBudget
        ELSE /\ SumOf([i \in DOMAIN budgets |-> budgets[i].amount]) = total
             /\ \A i \in DOMAIN budgets : budgets[i].amount >= MinBudget

\* What is sent to the platform shows in the very places the brief asks for less those
\* it bans, and every ban lies strictly inside a place shown (error 5120 otherwise).
GeoIsBriefs(target, excluded) ==
    LET sent == BuildTargeting(target, excluded)
        covers(regions) == {x \in Regions : \E r \in regions : Within(r, x)}
    IN  /\ covers(sent.shown) \ covers(sent.banned) = covers(target) \ covers(excluded)
        /\ \A n \in sent.banned : \E r \in sent.shown : r # n /\ Within(r, n)

\* No two groups have one name, or one phrase, and no name outgrows the limit.
GroupsDiffer(drafts) ==
    LET groups == BuildGroups(drafts)
        phrases(i) == {groups[i].keywords[k] : k \in DOMAIN groups[i].keywords}
    IN  \A i, j \in DOMAIN groups :
            /\ Len(groups[i].name) <= MaxName
            /\ i # j => groups[i].name # groups[j].name /\ phrases(i) \cap phrases(j) = {}

\* As many fields are said to be cut as are cut in the texts kept, whichever round they
\* are from; a group without texts is named.
TruncationIsTold(groups, answers) ==
    LET texts == GenerateTexts(groups, answers)
        kept == {g \in groups : texts.result[g] # NoTexts}
    IN  /\ texts.told = MapThenSumSet(LAMBDA g : texts.result[g], kept)
        /\ texts.skipped = groups \ kept

=============================================================================
