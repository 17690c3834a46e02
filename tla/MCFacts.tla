------------------------------- MODULE MCFacts -------------------------------
(***************************************************************************)
(* Inputs for the modules of pure facts.  A case is a topic and what is put  *)
(* to it; MCServices takes every case of three families, one by one.         *)
(***************************************************************************)
EXTENDS Integers, Sequences, FiniteSets, TLC

SeqsUpTo(S, n) == UNION {[1 .. k -> S] : k \in 0 .. n}
FirstN(n) == [i \in 1 .. n |-> i]
NoCase == [topic |-> "none"]

-----------------------------------------------------------------------------
(* What the platforms answer. *)

CF == INSTANCE ClientFacts
IF_ == INSTANCE IngestionFacts

\* A refusal has done nothing, an answer in order has done what was asked.
Scripts == [1 .. 3 -> {a \in [status : {"ok", "auth", "rate limit", "no units", "server error", "http 5xx", "lost"},
                              applied : BOOLEAN] :
                          /\ a.status = "ok" => a.applied
                          /\ a.status \in CF!Refusals => ~a.applied}]
\* What becomes of a batch of a creation.
Creations == {a \in [status : {"ok", "http refused", "lost"}, applied : BOOLEAN, rejected : SUBSET (1 .. 3)] :
                 /\ a.applied => a.status # "http refused"
                 /\ a.status = "ok" => a.applied
                 /\ a.rejected # {} => a.status = "ok"}
Fields == SeqsUpTo({CF!Tab, CF!Quote, "a"}, 2)
LocalRow == [external : {"none", "e1", "e2"}, phrase : {"p1", "p2"}, status : {"ACTIVE", "ARCHIVED"}, negative : BOOLEAN]
CabinetRow == [external : {"e1", "e2"}, phrase : {"p1", "p2", "p3"}, status : {"SERVING"}]
Windows == UNION {[k -> [conversions : 0 .. 1, source : {"NONE", "PLATFORM", "METRIKA"}]] : k \in SUBSET {"c1", "c2"}}
MetrikaRow == [candidates : SUBSET {"c1", "c2", "year"}, conversions : 0 .. 1]
Groups == [{"g1", "g2"} -> [external : {"x1", "x2"}, campaign : {"c1", "c2"}, archived : BOOLEAN]]

AnswersHold(c) ==
    CASE c.topic = "write"    -> CF!WrittenOnceAtMost(c.platform, c.script, 3)
      [] c.topic = "list"     -> CF!ListsAreWhole(FirstN(c.length), c.limit, c.cap)
      [] c.topic = "batches"  -> CF!PartialIsTold(FirstN(3), c.size, c.script)
      [] c.topic = "rejected" -> CF!RejectedAreNamed(FirstN(4), c.size, c.rejected)
      [] c.topic = "create"   -> CF!CreationIsTold(FirstN(3), c.size, c.dryRun, c.aimless, c.script)
      [] c.topic = "campaign" -> CF!OneCampaign(c.script, <<c.second>>)
      [] c.topic = "pace"     -> CF!RequestsArePaced(c.arrivals, 2, 2)
      [] c.topic = "report"   -> CF!RowsKeepColumns(c.fields)
      [] c.topic = "text"     -> CF!TextIsShown(c.create, c.anew, c.deleted, c.stopped)
      [] c.topic = "keywords" -> IF_!KeywordsDiffer(c.before, c.remote) => IF_!KeywordsArePaired(c.before, c.remote)
      [] c.topic = "metrika"  -> IF_!SilenceIsZero(c.stored, {"c1", "c2"}, c.rows)
      [] c.topic = "query"    -> IF_!QueryIsPlaced(c.row, c.groups)

-----------------------------------------------------------------------------
(* What is planned and written. *)

Stems == ("course" :> "c") @@ ("courses" :> "c") @@ ("child" :> "h") @@ ("for" :> "f")
KF == INSTANCE KeywordFacts WITH StemOf <- Stems, Stops <- {"for"}, MaxWords <- 2, MinImpressions <- 5,
                                 BatchSize <- 1, MaxClusters <- 2, MaxNegatives <- 1
Parents == <<1, 1, 1, 2, 2, 6>>
PF == INSTANCE PlanFacts WITH MinBudget <- 3, MaxKeywords <- 2, MaxName <- 2, Attempts <- 1, ParentOf <- Parents
CR == INSTANCE CreativeFacts

Phrases == {<<"course">>, <<"for", "course">>, <<"course", "for">>, <<"child">>, <<"for">>}
Candidates == [phrase : Phrases \cup {<<"courses">>, <<"course", "child">>}, queries : SUBSET {"q"}]
\* Two clients of a group each; what the cabinet has for them, and from which seeds they start.
Clients == {<<c, [c EXCEPT !.id = "second", !.rows = "h" :> {"q"}, !.fails = fails]>> :
              c \in [id : {"first"}, active : BOOLEAN, complete : BOOLEAN, product : {"p", "blank"},
                     core : {{}}, candidates : {<<n>> : n \in Candidates},
                     rows : {"g" :> {"q"}}, fails : {"no"}], fails \in {"core", "negatives", "no"}}
Tables == SUBSET {[group |-> "g", negative |-> FALSE, phrase |-> <<"for", "course">>, status |-> "PAUSED"],
                  [group |-> "h", negative |-> FALSE, phrase |-> <<"for">>, status |-> "ACTIVE"],
                  [group |-> "h", negative |-> TRUE, phrase |-> <<"course">>, status |-> "PAUSED"]}
Seeds == [{"first", "second"} -> {"none", "blank", "s"}]
Drafts == [name : {<<11>>, <<11, 2>>, <<11, 12>>}, keywords : SeqsUpTo([key : {"", "k", "l"}, valid : {TRUE}], 2)]
Names == {<<11>>, <<11, 2>>, <<11, 12>>, <<11, 3>>}
PerKey(s) == [i \in DOMAIN s |-> [name |-> s[i], keywords |-> <<[key |-> ToString(i), valid |-> TRUE]>>]]

Limits == [title |-> 3, title2 |-> 2, text |-> 4]
NoSecond == [Limits EXCEPT !.title2 = -1]
Titles == {<<"a">>, <<"a", " ">>, <<"a", "b", "c", "d">>, <<"a", " ", "b", "c">>, <<",", ",", ",", ",">>, <<>>}
AdDrafts == [title : Titles, text : {<<"t">>, <<"a", "b", "c", "d", "e">>}]
       \cup [title : {<<"a">>}, title2 : {<<>>, <<"a">>, <<"a", "b", "c">>}, text : {<<"t">>}]

Set(unit, budget, dryRun) == [formats |-> <<"square">>, variants |-> 3, unit |-> unit, budget |-> budget,
                              dryRun |-> dryRun, attempts |-> 2]
Generation(polls, started, files, censored) ==
    [configured |-> TRUE, pipeline |-> TRUE, started |-> started, polls |-> polls, files |-> files,
     censored |-> censored, decoded |-> TRUE]
Generations == {Generation(<<"DONE">>, TRUE, 1, FALSE), Generation(<<"DONE">>, TRUE, 1, TRUE),
                Generation(<<"DONE">>, TRUE, 0, FALSE), Generation(<<"INITIAL", "INITIAL", "DONE">>, TRUE, 1, FALSE),
                Generation(<<"FAIL">>, TRUE, 0, FALSE), Generation(<<>>, FALSE, 0, FALSE)}
Caches == {<<>>, <<"square", 1>> :> "image", <<"square", 2>> :> "censored"}

PlansHold(c) ==
    CASE c.topic = "core"      -> KF!DemandIsKept(c.phrases, [b \in 1 .. 2 |-> [ok |-> c.ok[b], numbers |-> c.numbers]])
      [] c.topic = "clusters"  -> KF!LeadersDiffer(c.n, c.near, 1)
      [] c.topic = "negatives" -> KF!NegativesSpare(c.candidates, c.core, c.rows, c.live)
      [] c.topic = "week"      -> KF!WeekSpares(c.clients, c.table, c.seeds, c.dryRun)
      [] c.topic = "budget"    -> PF!BudgetIsWhole(c.total, [i \in DOMAIN c.weights |-> [key |-> i, weight |-> c.weights[i]]])
      [] c.topic = "geo"       -> PF!GeoIsBriefs(c.target, c.excluded)
      [] c.topic = "groups"    -> PF!GroupsDiffer(c.drafts)
      [] c.topic = "texts"     -> PF!TruncationIsTold({"g", "h"}, c.answers)
      [] c.topic = "drafts"    -> CR!TextsFit(c.drafts, c.limits)
      [] c.topic = "pictures"  -> CR!AccountIsWhole(c.set, c.texts, 5, c.cache, c.generations)

-----------------------------------------------------------------------------
(* What is made of figures and of histories. *)

RF == INSTANCE ReportFacts WITH MinSpend <- 2, MinImpressions <- 4
Days == [spend : {0, 1, 4, 9}, hasRows : BOOLEAN]
Stats == LET cell == {"a", "b"} \X (1 .. 4)
             row(n) == [impressions |-> 2 * n, clicks |-> n, conversions |-> n, spend |-> n, source |-> "PLATFORM"]
         IN  UNION {[k -> {row(0), row(1)}] : k \in {k \in SUBSET cell : Cardinality(k) <= 3}}

\* A day of sixty minutes an hour, and a day of four hours of a minute for the histories.
CY == INSTANCE CycleFacts WITH HourMinutes <- 60, DayMinutes <- 1440, HistoryDays <- 7, MinRetained <- 50,
                               FailedKept <- 500, Slack <- 50
CS == INSTANCE CycleFacts WITH HourMinutes <- 1, DayMinutes <- 4, HistoryDays <- 4, MinRetained <- 2,
                               FailedKept <- 3, Slack <- 0
Star == {[star |-> TRUE, from |-> 0, to |-> 0, step |-> 1]}
Every(n) == {[star |-> TRUE, from |-> 0, to |-> 0, step |-> n]}
Span(a, b) == {[star |-> FALSE, from |-> a, to |-> b, step |-> 1]}
At(v) == Span(v, v)
Cron(minute, hour, dom, month, dow) == [minute |-> minute, hour |-> hour, dom |-> dom, month |-> month, dow |-> dow]
Crons == {Cron(At(30), At(8), Star, Star, Star), Cron(At(0), At(10), Star, Star, At(1)),
          Cron(At(0), At(9) \cup At(18), Star, Star, Span(1, 5)), Cron(At(0), At(4), Every(3), Star, Star),
          Cron(At(0), At(0), At(31), Star, Star), Cron(At(0), At(0), At(1), Star, At(0))}

Schedule == [a |-> Cron(At(0), Star, Star, Star, Star), b |-> Cron(At(0), Every(2), Star, Star, Star),
             w |-> Cron(At(0), At(1), Star, Star, At(1))]
Timetables == [q \in DOMAIN Schedule |-> CS!Timetable(Schedule[q])]
Ready == [clients |-> 1, credentials |-> 1, campaigns |-> 1, errors |-> 0, manual |-> 0, applyFailed |-> 0, reports |-> 1]
Run(at, kind) == [at |-> at, state |-> IF kind = "failed" THEN "failed" ELSE "completed",
                  skipped |-> kind = "skipped", idle |-> kind = "idle", bad |-> FALSE]
Ticks == [a |-> [i \in 1 .. 23 |-> i - 1], b |-> [i \in 1 .. 12 |-> 2 * (i - 1)], w |-> <<1>>]
\* Every tick worked but for those odd says otherwise of, until the minute now.
Histories(odd, now) ==
    [q \in DOMAIN Schedule |->
       SelectSeq([i \in DOMAIN Ticks[q] |->
                    LET t == <<q, Ticks[q][i]>> IN Run(t[2], IF t \in DOMAIN odd THEN odd[t] ELSE "works")],
                 LAMBDA r : r.at < now)]
Spots == ({"a"} \X (8 .. 19)) \cup ({"b"} \X {8, 10, 12, 14, 16, 18})

VerdictsHold(c) ==
    CASE c.topic = "outlier" -> RF!GapsAreNotZero(c.series)
      [] c.topic = "periods" -> RF!PeriodsAddUp(c.stats, "a" :> 1 @@ "b" :> 0, [from |-> 3, to |-> 4])
      [] c.topic = "period"  -> CY!PeriodIsLongestGap(c.cron)
      [] c.topic = "verdict" -> CS!VerdictIsFounded(Timetables, Histories(c.odd, c.now), Ready, c.days, 20, c.now)
=============================================================================
