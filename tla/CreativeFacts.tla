---------------------------- MODULE CreativeFacts ----------------------------
(***************************************************************************)
(* A set of advertisement texts and pictures made on demand                 *)
(* (src/src/creatives: texts.ts, platform-limits.ts, on-demand.ts, images/) *)
(* and the limits of the platforms (src/src/campaigns/limits.ts).           *)
(*                                                                         *)
(* A text is a sequence of symbols; Punctuation and Space are told apart.   *)
(* Money is in the smallest unit a price has.                               *)
(***************************************************************************)
EXTENDS Integers, Sequences, FiniteSets, SequencesExt

Space == " "
Punctuation == {Space, ",", ".", "-"}
NoPrice == -1        \* a model or a picture nobody entered a price for

-----------------------------------------------------------------------------
(* Texts. *)

TrimEnd(text, marks) ==
    LET kept == {i \in DOMAIN text : text[i] \notin marks}
    IN  SubSeq(text, 1, IF kept = {} THEN 0 ELSE Max(kept))
TrimStart(text) ==
    LET kept == {i \in DOMAIN text : text[i] # Space}
    IN  IF kept = {} THEN <<>> ELSE SubSeq(text, Min(kept), Len(text))
Trim(text) == TrimStart(TrimEnd(text, {Space}))
StripTrailingPunctuation(text) == TrimStart(TrimEnd(text, Punctuation))

\* At a word's end if there is one, never to nothing.
TruncateToLimit(text, limit) ==
    LET trimmed == Trim(text)
        head == SubSeq(trimmed, 1, limit)
        spaces == {i \in DOMAIN head : head[i] = Space}
        byWord == IF spaces = {} THEN <<>>
                  ELSE StripTrailingPunctuation(SubSeq(head, 1, Max(spaces) - 1))
        byChar == StripTrailingPunctuation(head)
    IN  IF Len(trimmed) <= limit THEN trimmed
        ELSE IF byWord # <<>> THEN byWord
        ELSE IF byChar # <<>> THEN byChar ELSE Trim(head)

\* Limits of a platform: [field -> length], the second title -1 where there is none.
FieldIsFit(field, value, limits) ==
    LET length == Len(Trim(value))
    IN  IF limits[field] < 0 THEN length = 0
        ELSE IF length = 0 THEN field = "title2"
        ELSE length <= limits[field]
FindTextViolations(ad, limits) == {f \in DOMAIN ad : ~FieldIsFit(f, ad[f], limits)}

FitToPlatform(ad, limits) ==
    LET second == IF "title2" \in DOMAIN ad /\ limits["title2"] >= 0
                     THEN TruncateToLimit(ad["title2"], limits["title2"]) ELSE <<>>
    IN  [f \in {"title", "text"} \cup (IF second # <<>> THEN {"title2"} ELSE {}) |->
           IF f = "title2" THEN second ELSE TruncateToLimit(ad[f], limits[f])]

\* validateDrafts: what of the model's drafts may be shown to the platform.
AcceptAnyFitted(acc, draft, limits) ==
    [acc EXCEPT !.variants = Append(@, IF FindTextViolations(draft, limits) = {} THEN draft
                                       ELSE FitToPlatform(draft, limits))]
AcceptDraft(acc, draft, limits) ==
    LET ad == IF FindTextViolations(draft, limits) = {} THEN draft ELSE FitToPlatform(draft, limits)
    IN  IF FindTextViolations(ad, limits) # {} \/ ad \in ToSet(acc.variants)
        THEN [acc EXCEPT !.rejected = Append(@, draft)]
        ELSE [acc EXCEPT !.variants = Append(@, ad)]
ValidateDrafts(drafts, limits) ==
    FoldLeft(LAMBDA acc, draft : AcceptDraft(acc, draft, limits),
             [variants |-> <<>>, rejected |-> <<>>], drafts)

IsValidKeyword(phrase, maxChars, maxWords) ==
    LET trimmed == Trim(phrase)
        starts == {i \in DOMAIN trimmed :
                     IF i = 1 THEN TRUE ELSE trimmed[i] # Space /\ trimmed[i - 1] = Space}
    IN  trimmed # <<>> /\ Len(trimmed) <= maxChars /\ Cardinality(starts) <= maxWords

-----------------------------------------------------------------------------
(* One picture: what becomes of a generation of the provider.  A generation   *)
(* is [configured, pipeline, started: BOOLEAN, polls: statuses in turn, files: *)
(* how many, censored, decoded: BOOLEAN].                                      *)

\* awaitResult: the last status read, or a timeout.
AwaitResult(polls, attempts) ==
    LET over == {i \in DOMAIN polls : i <= attempts /\ polls[i] \in {"DONE", "FAIL", "DISABLED_BY_QUEUE"}}
    IN  IF over = {} THEN "TIMEOUT" ELSE polls[Min(over)]

Generate(g, attempts) ==
    IF /\ g.configured /\ g.pipeline /\ g.started
       /\ AwaitResult(g.polls, attempts) = "DONE"
       /\ g.files > 0 /\ g.decoded
    THEN IF g.censored THEN "censored" ELSE "image"
    ELSE "error"

\* What the provider charges for: a generation that it ends with a result, whether or
\* not anybody waits for it.
Charged(g) == g.configured /\ g.pipeline /\ g.started /\ "DONE" \in ToSet(g.polls)

-----------------------------------------------------------------------------
(* The pictures of a set: [formats, variants, unit, budget, dryRun, attempts]. *)

ClampVariants(n) == Max({3, Min({5, n})})
Pictures(set) ==
    FlattenSeq([f \in DOMAIN set.formats |->
                  [v \in 1 .. ClampVariants(set.variants) |-> <<set.formats[f], v>>]])

\* imageCacheKey: the same picture is the same prompt, format and seed.
Kept(acc, picture, image) == [k \in DOMAIN acc.cache \cup {picture} |->
                                IF k = picture THEN image ELSE acc.cache[k]]
Listed(acc, picture, status, cost) ==
    [acc EXCEPT !.rows = Append(@, [picture |-> picture, status |-> status, cost |-> cost])]
Asked(acc, g) == [acc EXCEPT !.asked = Append(@, g)]

FailedIsFree(acc, set, picture, g) ==
    LET made == Generate(g, set.attempts)
    IN  IF made = "error" THEN Listed(Asked(acc, g), picture, "provider_error", 0)
        ELSE Listed([Asked(acc, g) EXCEPT !.spent = @ + set.unit, !.cache = Kept(acc, picture, made)],
                    picture, made, set.unit)
\* A generation that failed is counted as one that was paid for.
Attempt(acc, set, picture, g) ==
    LET made == Generate(g, set.attempts)
        paid == [Asked(acc, g) EXCEPT !.spent = @ + set.unit]
    IN  IF made = "error" THEN Listed(paid, picture, "provider_error", set.unit)
        ELSE Listed([paid EXCEPT !.cache = Kept(acc, picture, made)], picture, made, set.unit)

Picture(acc, set, picture, g) ==
    CASE set.dryRun -> Listed(acc, picture, "planned", 0)
      [] ~set.dryRun /\ set.unit = NoPrice -> Listed(acc, picture, "unknown_price", NoPrice)
      [] ~set.dryRun /\ set.unit # NoPrice /\ picture \in DOMAIN acc.cache ->
           Listed(acc, picture, acc.cache[picture], 0)
      [] ~set.dryRun /\ set.unit # NoPrice /\ picture \notin DOMAIN acc.cache ->
           IF acc.spent + set.unit > set.budget THEN Listed(acc, picture, "over_budget", 0)
           ELSE Attempt(acc, set, picture, g)

\* generations[p] is what the provider would do for the p-th picture.
GenerateImages(set, cache, generations) ==
    LET pictures == Pictures(set)
    IN  FoldLeft(LAMBDA acc, p : Picture(acc, set, pictures[p], generations[p]),
                 [spent |-> 0, cache |-> cache, rows |-> <<>>, asked |-> <<>>],
                 [p \in DOMAIN pictures |-> p])

\* checkSetCost: what is known of the costs.
TotalCost(costs) == FoldLeft(LAMBDA sum, c : IF c = NoPrice THEN sum ELSE sum + c, 0, costs)
Costs(rows) == [i \in DOMAIN rows |-> rows[i].cost]
UnpricedCount(costs) == Len(SelectSeq(costs, LAMBDA c : c = NoPrice))

\* remainingBudget: what the texts have left for the pictures, or nothing.
RemainingBudget(textsCost, requested, setBudget) ==
    IF textsCost = NoPrice \/ textsCost >= setBudget THEN {}
    ELSE {Min({requested, setBudget - textsCost})}

\* generateCreativeSetOnDemand: the cost of the texts and the rows of the pictures.
CreativeSet(set, textsCost, setBudget, cache, generations) ==
    LET left == RemainingBudget(textsCost, set.budget, setBudget)
        made == IF left = {} THEN [spent |-> 0, cache |-> cache, rows |-> <<>>, asked |-> <<>>]
                ELSE GenerateImages([set EXCEPT !.budget = CHOOSE b \in left : TRUE], cache, generations)
    IN  [images |-> made, total |-> TotalCost(<<textsCost>> \o Costs(made.rows))]

-----------------------------------------------------------------------------
(***************************************************************************)
(* Properties, of all inputs of a run.                                     *)
(***************************************************************************)

\* Whatever the provider does - no answer in time, an answer without a file, a late
\* result nobody waits for - what it charges for one set is on the set's own account,
\* and the account stays within what the client's set may cost; a rehearsal pays nothing.
AccountIsWhole(set, textsCost, setBudget, cache, generations) ==
    LET made == CreativeSet(set, textsCost, setBudget, cache, generations)
        charged == Len(SelectSeq(made.images.asked, Charged)) * set.unit
    IN  IF set.unit = NoPrice \/ set.dryRun THEN made.images.asked = <<>>
        ELSE /\ charged + (IF textsCost = NoPrice THEN 0 ELSE textsCost) <= made.total
             /\ made.total <= Max({setBudget, textsCost})

\* Every draft is kept or rejected, and what is kept fits the platform as it stands and
\* is there once: the cutting itself never makes an empty or an equal text.
TextsFit(drafts, limits) ==
    LET made == ValidateDrafts(drafts, limits)
    IN  /\ Len(made.variants) + Len(made.rejected) = Len(drafts)
        /\ \A v \in ToSet(made.variants) : FindTextViolations(v, limits) = {}
        /\ IsInjective(made.variants)
=============================================================================
