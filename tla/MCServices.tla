------------------------------ MODULE MCServices ------------------------------
(***************************************************************************)
(* Services on small instances.  focus says which component has the         *)
(* behaviour; the others stay at rest, as none can reach another.  A case   *)
(* of MCFacts is put in place of a component.                               *)
(***************************************************************************)
EXTENDS MCFacts, Services

VARIABLES focus, case

vars == <<focus, case, servicesVars>>

-----------------------------------------------------------------------------
(* The onboarding interview. *)

BF == INSTANCE BriefFacts
Site == [host |-> <<"o", "k">>, path |-> "", form |-> "zone"]
Page == [host |-> <<"o", "k">>, path |-> "offers"]
Shop == [host |-> <<"b", "u">>, path |-> "", form |-> "word"]
Plain  == [text |-> <<<<"yes">>>>, addresses |-> <<>>]
Amount == [text |-> <<<<"3", "0", "0", "0">>, <<"roubles">>>>, addresses |-> <<>>]
Link   == [text |-> <<<<"here">>>>, addresses |-> <<Site>>]
Odd    == [text |-> <<<<"look">>>>, addresses |-> <<Shop>>]
Ids    == [text |-> <<<<"3", "0", "0", "0">>, <<"and">>, <<"5">>, <<"7">>>>, addresses |-> <<>>]

Nought == [f \in {} |-> 0]
Asks(field) == [asking |-> field, done |-> FALSE, updates |-> Nought, evidence |-> Nought]
Learns(field, value) == [asking |-> "none", done |-> FALSE, updates |-> field :> value, evidence |-> field :> <<>>]
Draft(counter, goal) ==
    [f \in BF!BriefFields \ {"landingUrl"} |->
        CASE f = "dailyBudgetRub"  -> 3000
          [] f = "metrika"         -> [counter |-> counter, goal |-> 0]
          [] f = "conversionGoals" -> <<[name |-> "call", goal |-> goal]>>
          [] OTHER                 -> 1]
Everything == [asking |-> "none", done |-> TRUE, updates |-> Draft(0, 0),
               evidence |-> "dailyBudgetRub" :> <<<<"3", "0", "0", "0">>>>]
OldBrief ==
    [said |-> <<Ids>>,
     row |-> [status |-> "COMPLETE", draft |-> Draft(5, 7),
              turns |-> <<[by |-> "client", message |-> 1, asking |-> "none"],
                          [by |-> "interviewer", message |-> 0, asking |-> "product"]>>,
              askedCount |-> 1, halted |-> "none", version |-> 1]]

MCMessages == {Plain, Amount, Link, Odd}
MCTurns == {Asks("landingUrl"), Asks("product"), Learns("landingUrl", Page),
            Learns("landingUrl", [host |-> Shop.host, path |-> Shop.path]), Everything}
MCOldBriefs == {OldBrief}
MCHandConfig == [counter |-> 9, goal |-> 9]

-----------------------------------------------------------------------------
(* The test of texts, tokens, credentials. *)

MCVariantOf == [a \in TestAds |-> a]
MCOutcomes == {[impressions |-> 10, clicks |-> 4], [impressions |-> 10, clicks |-> 9],
               [impressions |-> 60, clicks |-> 0]}
MCCriticalZ2 == <<3, 4>>
MCRequests == {<<"worker", 1>>, <<"worker", 2>>, <<"server", 1>>}
MCInputs == {[form |-> "line", fields |-> {}, empty |-> FALSE, login |-> "none"],
             [form |-> "object", fields |-> {"accessToken", "refreshToken", "expiresAt"}, empty |-> FALSE,
              login |-> "agency"],
             [form |-> "object", fields |-> {"access_token"}, empty |-> FALSE, login |-> "none"],
             [form |-> "broken", fields |-> {}, empty |-> FALSE, login |-> "none"]}

-----------------------------------------------------------------------------
(* Cases of pure facts. *)

Take(c) == case' = c

AskAnswers ==
    \/ \E platform \in {"vk", "yandex"}, script \in Scripts :
         Take([topic |-> "write", platform |-> platform, script |-> script])
    \/ \E length \in 0 .. 5, limit \in 1 .. 3, cap \in 1 .. 3 :
         Take([topic |-> "list", length |-> length, limit |-> limit, cap |-> cap])
    \/ \E size \in 1 .. 2, script \in [1 .. 3 -> [error : BOOLEAN, rejected : SUBSET (1 .. 3)]] :
         Take([topic |-> "batches", size |-> size, script |-> script])
    \/ \E size \in 1 .. 3, rejected \in SUBSET (1 .. 4) :
         Take([topic |-> "rejected", size |-> size, rejected |-> rejected])
    \/ \E size \in 1 .. 3, dryRun \in BOOLEAN, aimless \in {{}, {3}}, script \in [1 .. 3 -> Creations] :
         Take([topic |-> "create", size |-> size, dryRun |-> dryRun, aimless |-> aimless, script |-> script])
    \/ \E script \in Scripts, second \in {a[1] : a \in Scripts} :
         Take([topic |-> "campaign", script |-> script, second |-> second])
    \/ \E arrivals \in [1 .. 3 -> [at : 0 .. 4, exhausted : {0, 3}]] : Take([topic |-> "pace", arrivals |-> arrivals])
    \/ \E a, b \in Fields : Take([topic |-> "report", fields |-> <<a, b>>])
    \/ \E create \in {"ok", "no id", "lost"}, anew, deleted, stopped \in BOOLEAN :
         Take([topic |-> "text", create |-> create, anew |-> anew, deleted |-> deleted, stopped |-> stopped])
    \/ \E before \in SeqsUpTo(LocalRow, 2), remote \in SeqsUpTo(CabinetRow, 2) :
         Take([topic |-> "keywords", before |-> before, remote |-> remote])
    \/ \E window \in Windows, rows \in SeqsUpTo(MetrikaRow, 2) :
         Take([topic |-> "metrika", stored |-> window, rows |-> rows])
    \/ \E row \in [group : {"none", "x1"}, campaign : {"c1", "c2"}], groups \in Groups :
         Take([topic |-> "query", row |-> row, groups |-> groups])

AskPlans ==
    \/ \E phrases \in SeqsUpTo(Phrases, 2), numbers \in [Phrases -> {-1, 0, 7}], ok \in [1 .. 2 -> BOOLEAN] :
         Take([topic |-> "core", phrases |-> phrases, numbers |-> numbers, ok |-> ok])
    \/ \E n \in 0 .. 3, near \in [(1 .. 3) \X (1 .. 3) -> 1 .. 2] :
         Take([topic |-> "clusters", n |-> n, near |-> near])
    \/ \E candidates \in SeqsUpTo(Candidates, 2), core \in SUBSET {<<"course">>, <<"for", "child">>},
          rows \in [{"g", "h"} -> SUBSET {"q"}], live \in [{"g", "h"} -> SUBSET {<<"courses">>, <<"child", "course">>}] :
         Take([topic |-> "negatives", candidates |-> candidates, core |-> core, rows |-> rows, live |-> live])
    \/ \E clients \in Clients, table \in Tables, seeds \in Seeds, dryRun \in BOOLEAN :
         Take([topic |-> "week", clients |-> clients, table |-> table, seeds |-> seeds, dryRun |-> dryRun])
    \/ \E total \in 0 .. 25, weights \in SeqsUpTo(1 .. 3, 3) \ {<<>>} :
         Take([topic |-> "budget", total |-> total, weights |-> weights])
    \/ \E target, excluded \in SUBSET DOMAIN Parents : Take([topic |-> "geo", target |-> target, excluded |-> excluded])
    \/ \E drafts \in SeqsUpTo(Drafts, 2) \cup {PerKey(n) : n \in [1 .. 4 -> Names]} :
         Take([topic |-> "groups", drafts |-> drafts])
    \/ \E answers \in [1 .. 2 -> [{"g", "h"} -> -1 .. 2]] : Take([topic |-> "texts", answers |-> answers])
    \/ \E drafts \in SeqsUpTo(AdDrafts, 2), limits \in {Limits, NoSecond} :
         Take([topic |-> "drafts", drafts |-> drafts, limits |-> limits])
    \/ \E unit \in {-1, 1, 2}, budget \in {3, 5}, dryRun \in BOOLEAN, texts \in {-1, 0, 2, 6}, pool \in Caches,
          generations \in [1 .. 3 -> Generations] :
         Take([topic |-> "pictures", set |-> Set(unit, budget, dryRun), texts |-> texts, cache |-> pool,
              generations |-> generations])

AskVerdicts ==
    \/ \E series \in SeqsUpTo(Days, 4) : Take([topic |-> "outlier", series |-> series])
    \/ \E stats \in Stats : Take([topic |-> "periods", stats |-> stats])
    \/ \E cron \in Crons : Take([topic |-> "period", cron |-> cron])
    \/ \E spots \in {{a, b} : a, b \in Spots}, now \in {20, 23}, days \in {1, 3} :
         \E odd \in [spots -> {"works", "failed", "skipped", "idle"}] :
             Take([topic |-> "verdict", odd |-> odd, now |-> now, days |-> days])

-----------------------------------------------------------------------------
Init ==
    /\ ServicesInit /\ case = NoCase
    /\ focus \in {"interview", "escalation", "experiment", "vk tokens", "credentials", "units", "llm",
                   "conversions", "answers", "plans", "verdicts"}
    /\ brief.status # "NONE" => focus = "interview"

Moves ==
    \/ focus = "interview"   /\ Interviews
    \/ focus = "escalation"  /\ Escalates
    \/ focus = "experiment"  /\ TestsTexts
    \/ focus = "vk tokens"   /\ UsesTokens
    \/ focus = "credentials" /\ KeepsCredentials
    \/ focus = "units"       /\ SpendsUnits
    \/ focus = "llm"         /\ AsksModel
    \/ focus = "conversions" /\ CountsConversions
Cases ==
    \/ focus = "answers"  /\ AskAnswers
    \/ focus = "plans"    /\ AskPlans
    \/ focus = "verdicts" /\ AskVerdicts

Next ==
    /\ UNCHANGED focus
    /\ \/ Moves /\ UNCHANGED case
       \/ case = NoCase /\ Cases /\ UNCHANGED servicesVars

Spec == Init /\ [][Next]_vars

-----------------------------------------------------------------------------
\* Writes, lists, batches, pauses and reports of the clients, and what the ingestion
\* makes of their answers: the promises of ClientFacts and IngestionFacts.
AnswersAreWhole == (focus = "answers" /\ case # NoCase) => AnswersHold(case)

\* Keywords, budgets, places, groups, texts and pictures of a plan: the promises of
\* KeywordFacts, PlanFacts and CreativeFacts.
PlansAreWhole == (focus = "plans" /\ case # NoCase) => PlansHold(case)

\* Outliers, totals of periods, periods of crons and the verdict on a cycle: the promises
\* of ReportFacts and CycleFacts.
VerdictsAreFounded == (focus = "verdicts" /\ case # NoCase) => VerdictsHold(case)
=============================================================================
