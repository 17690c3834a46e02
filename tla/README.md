# ads-autopilot: a TLA+ verification of the autopilot's control logic

The autopilot manages advertising campaigns of several clients in Yandex.Direct and
VK Ads.  It spends other people's money, asks a human over Telegram before it does
anything large, and consists of processes (a bot, a worker with cron jobs, a CLI)
that share nothing but a PostgreSQL database.  What can go wrong in it is seldom in
one function: it is in two presses of a button, in a cron pass that runs at the same
moment, in a process that dies between the write to the cabinet and the row that
remembers it, in a reply that is lost.  Those are the things this directory states
and checks.  The modules are translated from the TypeScript in `src/src`.

## Files

| module | what it is |
| --- | --- |
| `ApprovalLifecycle` | abstract: the life of one card, and when the cabinet may be written |
| `Approval` | the approval subsystem: issue, press, lease, write, settle, expire, resume |
| `ApprovalProofs` | types, lease and one write per card, and that `Approval` implements `ApprovalLifecycle`; what a human is told is true, and told once |
| `CampaignLaunch`, `CampaignLaunchProofs` | launch commands and the creation of campaigns under idempotency keys; its proofs |
| `Moderation`, `ModerationProofs` | rejected ads: poll, rewriting, resubmission, escalation, and the ads sync on the same rows; its proofs |
| `Guardrails` | pure: the rules of the optimizer, conflicts, limits of step and window, policy |
| `Optimizer`, `OptimizerProofs` | the scheduled optimization of a campaign by several processes; its proofs |
| `ErrorLog`, `Reports`, `Alerts`, `Reporting`, `ReportingProofs` | failures on record; the report loops; the alert scan; the three on one clock; its proofs |
| `ReportFacts` | pure: sums, periods, anomalies and letters of a report |
| `EntitySync`, `EntitySyncProofs` | a cabinet read page by page into the rows while people and launches change it; its proofs |
| `IngestionFacts` | pure: what a pass makes of the answers of a platform and of Metrika |
| `Conversions` | overlapping passes over the conversions of two models |
| `BriefFacts`, `Onboarding` | pure: what of a model's answer enters the brief; the interview under its optimistic lock |
| `Escalation` | the call for an administrator, once per ground and day |
| `Experiments`, `CreativeFacts` | the nightly test of texts and its cards; pure: drafts, pictures and their account |
| `VkTokens`, `YandexUnits`, `ClientFacts` | the tokens of VK in several processes; the units of Yandex; pure: retries, pages, batches, pauses |
| `Credentials` | the operator's command and the renewals of the passes over one row |
| `Llm` | overlapping runs over the monthly budget of model calls |
| `PlanFacts`, `KeywordFacts`, `CycleFacts` | pure: the arithmetic of a plan; the keyword core and its weekly pass; periods of crons and verdicts on a pilot |
| `Services`, `ServicesProofs` | the components that meet the others only in the database, side by side; their proofs, a section each, and those of the pure modules |
| `FoldProofs` | what a fold over a sequence of any length keeps and where it ends, for `OptimizerProofs` and `ServicesProofs` |
| `MCApproval`, `MCCampaignLaunch`, `MCModeration`, `MCOptimizer`, `MCReporting` | instances for TLC of the modules they are named for |
| `MCFacts`, `MCServices` | the inputs of the pure modules; `Services` on small instances, and the cases of the pure modules |

Run `tlc -config X.cfg M` for a run and `tlapm M.tla` for a proof module; the table
of runs below has the pairs.

## Inventory of the system

**approval** (`src/src/approval`).  State: the table `PendingApproval` (decision,
decidedAt, expiresAt, error, tgMessageId, payload), the messages in Telegram.
Operations: `createApproval` (row, then message, then the message's id),
`processApprovalCallback` (claim by conditional UPDATE, then apply or reject),
`applyApproval` (lease, preparation, write to the cabinet, bookkeeping, final
update), `expireApprovals` (expire what is overdue, then resume, abandon or report
what is stuck).  Called by the bot on a press and by the worker every five minutes;
calls the channel adapters and `executeCreateCampaign`.  Hard: every pair of
operations can interleave at every await; a process can die anywhere; the reply of a
write can be lost; DRY_RUN can change under a live card.  Correct when: one write per
card, what a human reads is true, a promised dry run stays one, every card is
decided, every yes is settled or reported.  Modelled whole in `Approval`, but for the
contents of its bookkeeping (change log, journal, negated marks) and the codec of
the buttons.

**campaigns** (`src/src/campaigns`).  State: `CampaignPlan` rows, `IdempotencyKey`
rows `campaigns.create:…` that never expire, `Campaign` rows, the cabinet.
Operations: `checkCampaignEntry`/`launchCampaign` (look at live cards and keys, build
or reuse a plan, close undelivered cards, issue one card per missing campaign),
`executeCreateCampaign`/`applyPlan`/`createOneCampaign` (reserve the key, create,
complete or release the key, populate, mirror), and under them the arithmetic of a
plan (`budget.ts`, `geo.ts`, `limits.ts`) and the writers of the channels.  Hard:
launches take minutes of model calls between what they read and what they write;
cards of several launches coexist; `Campaigns.add` may be carried out although it
threw; kopecks lost by rounding.  Correct when: never a campaign nobody asked for,
never one that is forgotten, never a launch blocked for nothing, the budget split to
the last kopeck, nothing shown where the brief excludes it.  `CampaignLaunch`,
`PlanFacts`, the last part of `ClientFacts`, the mirror row in `EntitySync`.

**moderation** (`src/src/moderation`).  State: `Ad.moderationStatus`,
`moderationRetries`, `externalId`, `supersededExternalIds`, escalation marks.
Operations: `pollAdModeration` (take stale claims back, copy the platform's verdicts,
collect missing ads), `repairRejectedAd` (claim, rewrite with a model, resubmit under
a new id, escalate), `runModerationCheck` (budget of repairs).  Shares the rows with
the hourly ads sync of ingestion.  Correct when: one rewrite per rejection and at most
three, every replacement's id is known, every dead end reaches a human once.
`Moderation`.

**ingestion** (`src/src/ingestion`).  State: the mirror of the cabinet, daily
statistics with the source of their conversions, goals, search queries, the
credentials of a cabinet.  Operations: sync of campaigns, groups, keywords and ads with
an archiving guard against incomplete answers; statistics of the platform and over
them those of Metrika; search queries placed in groups; renewal of tokens.  Hard: a
cabinet that moves between two pages, answers that hide their length, passes that
overlap, a stage that throws between two models.  Correct when: nothing live is
archived, rows heal, what a pass does not leave out is in one model, silence of Metrika
is told from ignorance.  `EntitySync`, `Conversions`, `IngestionFacts`, and the ads sync in
`Moderation`.

**optimizer** (`src/src/optimizer`).  State: `ChangeLog`, local bids and statuses, daily
`IdempotencyKey`s.  Operations: rules, conflict resolution, guardrails, policy,
`applyDecisions`, approval cards; two jobs that do the same work on two schedules
(`scheduler/handlers.ts:41`), hours apart and on newer statistics.  Hard: two
processes run both jobs, the log is the anchor of the seven-day window and is written
after the cabinet, humans edit bids meanwhile.  Correct when: a bid never leaves its
step and its window, a decision is applied once a day, what needs approval is asked once a
day on the same numbers.  `Guardrails`, `Optimizer`.

**creatives and A/B tests** (`src/src/creatives`).  State: the texts of a group by
variant, the approval keys of losers, the cache and the budget of image generations.
Correct when: no variant is paused before the evidence suffices, the cards of several
nights never switch a group off, a text fits its platform, what pictures cost is told.
`Experiments`, `CreativeFacts`.

**onboarding** (`src/src/ai/onboarding`, its handlers in `src/src/bot`).  State:
`ClientBrief` (data, turns, halt, updatedAt), the Metrika columns of the client.
Operations: start, answer (a model call between read and write, optimistic lock on
updatedAt), halts and their lifting, configuration of Metrika, its backfill, the call
for an administrator.  Correct when: an answer told as taken is taken, an address is
the client's own, a halt says what is true, what a person entered by hand stays, a
letter that failed silences nothing.  `BriefFacts`, `Onboarding`, `Escalation`.

**reporter** (`src/src/reporter`).  State: `Report` (text, sentAt), `ErrorLog`, a
limiter in the memory of its process.  Operations: daily and weekly report (find,
build, send, mark), alert scan (groups, bursts, one fold per platform, cooldowns, a
limit per run).  Correct when: a client reads one text per period, a failure is on
record, every reason reaches the administrator or the scan knows why not.  `Reports`,
`Alerts`, `Reporting`, `ReportFacts`.

**clients** (`src/src/clients`, `src/src/lib/retry.ts`).  The adapters of VK, Yandex,
Metrika and of the models.  State: the VK token cache per process and mints under
way, the last balance of units heard, the cache and the cost rows of model calls.
Correct when: a refresh does not kill a request of its own process, the reserve of
units is kept, a write is repeated only when it cannot have been done, a list is read
whole, a caller learns what a failed batch did, the row of a model's success tells all it charged.
`VkTokens`, `YandexUnits`, `ClientFacts`, `Llm`.

**keywords** (`src/src/keywords`).  State: targets, keyword rows and snapshots.  Correct
when: no phrase is lost with its demand, a negative never excludes a phrase of the core
or a live keyword, the weekly pass spares what clients have.  `KeywordFacts`.

**credentials and crypto** (`src/src/credentials`).  State: the encrypted credentials of
a cabinet.  Operations: set, exchange a code, revoke, and the renewals of the passes
over the same row.  Correct when: what is stored is usable and renewable.
`Credentials`; the encryption is the identity of what is stored and is left out.

**scheduler, worker, acceptance** (`src/src/scheduler`, `src/src/apps`,
`src/src/acceptance`).  State: the queues and their history in Redis, the lock of
`exclusive()` in a process.  Correct when: a missed run is found missed.  The lock is in
`Optimizer`, periods and verdicts in `CycleFacts`; the passes are the repetition and
the fairness of every module.

**the rest**: dispatch and texts of bot and CLI, the health server and plugins, the
dashboard in `web/`, deployment scripts (a redeployment with another DRY_RUN is
`Redeploy` of `Approval`).  See "Not modelled".

## How the parts interact

    bot ──press──▶ approval ──write──▶ cabinet ◀──read── ingestion ──▶ rows
     │               ▲    │               ▲                             │
     ├─launch─▶ campaigns └─executeCreate─┘                             ▼
     └─message─▶ onboarding ──halt──▶ escalation         optimizer, creatives, moderation
                                                            │ cards       │ texts
    worker ─cron─▶ each pass          ErrorLog ◀──────── approval      cabinet
                                         │
                                         ▼
                                       alerts ──▶ administrator

Processes meet in rows, in the cabinet and in nothing else; so the modules of two
components share variables where they share rows:

* `Approval` models one kind of card whatever its payload; `CampaignLaunch` models what
  is behind a `create_campaign` card and sees of the card only what a launch can see.
  What `Approval` proves, at most one `Execute` per card, is what `Start` of
  `CampaignLaunch` assumes when it takes an approved card to applying in one step; the
  cards of `Experiments` and of `Optimizer` rest on the same.
* `Moderation` holds the repair and the ads sync of ingestion over the same rows.
* `EntitySync` holds the sync of campaigns and the row a launch writes.
* `Reporting` puts the report loops and the alert scan on one clock over one `ErrorLog`.
* `Credentials` holds the command of the operator and the renewals of two passes.
* `Onboarding` holds the interview, the operator's hand and the backfill.
* The remaining components meet the others only in rows those do not write meanwhile.
  `Services` puts the eight that have a state side by side: each keeps its own variables,
  a step of the whole is a step of one of them (`Interviews`, `Escalates`, `TestsTexts`,
  `UsesTokens`, `KeepsCredentials`, `SpendsUnits`, `AsksModel`, `CountsConversions`), and its
  properties are those of the components.  The proofs are about that composition, where
  any number of them move.  `MCServices` lets one of them move, the one `focus` names:
  since none reads what another writes, a state of the whole is a state of each.

## Module `Approval`

One action is one await of the code.  `pc[w]` names the await a process is at:

| code | actions |
| --- | --- |
| `createApproval` | `Insert`, `Send`, `SaveMessageId`, `SaveUndelivered`, `IssuerCrash` |
| `processApprovalCallback` | `Press`, `Claim`, `Explain` |
| `applyApproval` | `Lease`, `Prepare`, `Execute`, `Record`, `Finish`, `Fail`, `Show` |
| `expireApprovals` | `StartPass`, `ExpireNext`, `Release`, `SelectStuck`, `ReconcileNext`, `Tell`, `EndPass` |
| the world | `Crash`, `Redeploy`, `Tick` |

The WHERE of every conditional UPDATE is an operator of its own (`ClaimWhere`,
`LeaseWhere`, `ExpireWhere`, `AbandonWhere`, `MarkWhere`), because the protocol stands
and falls with them.  Reads followed by an UPDATE whose WHERE repeats the read
condition are one action; reads that are used later (the lists of a cron pass, the
clock a handler or a pass read when it began) are variables (`todo`, `resume`, `now`).

Abstracted: the payload (a card stands for any change), the text of messages, the
names of people, `details` presses, the limit of 100 cards per pass.  A cron process
can run any number of passes, and two cron processes stand for overlapping runs of
the job (two workers, or a pass longer than its period in another process).

History variables: `writes` counts the requests a card sent to the cabinet, `effect`
is what the last of them did there, `told` counts notices.  No guard reads them.

## Module `CampaignLaunch`

A slot is a channel with a placement; an address is a slot with a generation, and
the idempotency key of a campaign is a function of its address.

| code | actions |
| --- | --- |
| `checkCampaignEntry` | `Ask`, `ReadLive`, `ReadCreated`, `ReadLatest` |
| `planCampaigns` | `LoadBrief`, `SavePlan` |
| `launchCampaign` | `Supersede`, `Submit`, `LaunchCrash` |
| the card (abstractly) | `Press`, `Close`, `Overdue`, `MarkStuck`, `Start` |
| `createOneCampaign` | `Reserve`, `Create`, `Release`, `Complete`, `Populate`, `ApplyCrash` |
| the interview | `EditBrief` |

`brief` is the version of the brief; a plan remembers the version it was read from
and the version that was current when its `createdAt` was taken.  `taken` is the list
of created campaigns a launch read, and stays what it was while others create.

Abstracted: the contents of plans and briefs, the refusals before the brief is read
(no client, incomplete brief, no credentials) which change nothing, the legacy rows
without an address, a change of the budget that changes the set of slots.

## Module `Moderation`

The ads of one group, the banners of the platform behind them, the runs of
check-moderation and the syncs of fetch-stats.  `Rows` are the rows of `Ad`; `ext[r]`
moves from one banner to the next when VK replaces an ad.

| code | actions |
| --- | --- |
| `pollAdModeration` | `Reclaim`, `ReadLocals`, `List` (with `Missing`), `WriteVerdict` |
| `escalateMissingAd` | `ReportMissing`, `Archive` |
| `repairRejectedAd` | `Pick` |
| `rewriteAndResubmit` | `Rewrite`, `Claim`, `Submit`, `Settle`, `Adopt`, `Release` |
| `escalate` | `Check`, `Deliver`, `Log`, `Park` |
| `checkTarget` | `Finish`, `Throw`, `Crash` |
| `syncAds` (ingestion) | `ReadMarked`, `ListRemote`, `Upsert`, `EndSync` |
| the world | `Judge`, `GrowStale`, `BackoffEnds` |

The outcomes of `Submit` are those of the adapters: Yandex edits in place (`Edited`);
VK creates a banner and deletes the old one (`Replaced`), or cannot delete it and
stops it or not, or is told it could not although it could; or the request is
refused; or it is carried out and the reply is lost.  Everything between `Claim` and
the update that gives the claim up is `Claimed`.

Abstracted: the texts (classification, rewriting and validation are "a text that can
be sent, or none"), several groups and several targets in one run, previews of a dry
run (they change no row), a client who pauses an ad by hand, a claim whose UPDATE is
carried out although it threw, a sync that dies in the middle (it is a sync that takes
no further step), the limit of five journal entries `alreadyEscalated` reads.  The
rows of the poll are read once, before the listing, as in the code; the repair works
on that snapshot (`job`), which is what makes the conditions of its updates matter.

History variables: `sent` and `letters` count submitted texts and letters of a row and
go back to zero where the code resets the counter, `told` are the rows about which
there was a letter.  No guard reads them.

`GrowStale` only ages a claim whose run is gone: `REWRITING_APPLY_BUDGET_MINUTES` is
computed in `poll.ts` to be longer than a submission can take.  It is an assumption,
and `DeadAtAnyAge`, a mutant, shows what it carries.

Two things the model allows and no property forbids, because the code accepts them:
two overlapping runs can each write a letter about one ad (`OneLetter` is checked for
runs that do not overlap), and a run can archive a row another run has just moved to
its replacement; the next sync puts the row back into service.

## Modules `Guardrails` and `Optimizer`

`Guardrails` is `rules.ts`, `engine.ts` (`resolveConflicts`), `guardrails.ts` and `policy.ts`
as operators over decisions `[entity, action, prev, next, …]`, in kopecks; CPA is compared
by cross multiplication, and `Floor` and `Ceil` round as the clamp does.
`Optimizer` is one run of `runScheduledOptimization` per worker:

| code | actions |
| --- | --- |
| statistics, rules (`scheduled.ts`) | `Propose` |
| the anchors of the window out of `ChangeLog`, `resolveConflicts`, `applyGuardrails`, policy | `Decide` |
| `applyDecisions`: key of the day, write, log | `Reserve`, `Write`, `Miss`, `LogChange` |
| local rows after the writes | `SyncLocal`, `MarkNegated` |
| approval cards under their keys | `ReserveCard`, `Issue` |
| the world | `Crash`, `Sync`, `HumanEdit`, `Tick` |

`Step(w)` is the next await of a worker.  A reply of `Write` may be lost, an update may
fail, a process may die at any await.  `Tick` needs a completed sync in the tick that
ends and no run between a write and its log row: the sync runs hourly and a tick is a
large part of a day.  `untold` (history) holds the entities with a change the log does
not tell, or not truly: a row whose `prev` is not the last bid the log told, or whose
`next` is not what the cabinet has by then (two runs whose rows come in another order than
their writes); `past` the cabinets of earlier ticks.  `WindowHeld` compares a bid with
the one at the beginning of the run's window, for entities whose changes are all
told and whose bid the run knew (`d.prev` is the cabinet's).  `Prompt` says that a run is
over before its window is: minutes against a week, but nothing in the code enforces it.

The key of a card is the digest of its whole action, the text with the numbers included
(`approvalIdempotencyKey`, `to-approval.ts:93`), so `Card` holds what the text quotes of each
change (`Quoted`).  A change found again on the same numbers has the same key; found on
later ones, as between the jobs of 03:00 and 08:00 with the hourly `fetch-stats` between
them, it is asked again on the same day, and the model does so: `AskedOnce` promises what
`scheduled.ts` does of a retry, and no more.  The cut of a long text to its first lines is
left out: two texts that differ behind the cut have one key in the code and two in the
model.  A query whose change went into the cabinet but not into the log is not marked
locally (`Unmarked`), as `markNegated` takes what was applied or was there already.

Left out: the cap on the rows of one history, the branch of campaign budgets (no rule
proposes one), dry runs (they write nothing), `rollbackChange` (nothing outside its
tests calls it).

## Modules `ErrorLog`, `Reports`, `Alerts`, `Reporting`, `ReportFacts`

| code | actions |
| --- | --- |
| `runDailyReports`, `runWeeklyReports` | `StartRun`, `FindReport`, `BuildReport`, `FailToBuild`, `SendReport`, `SendFails`, `MarkReportSent`, `MarkFails`, `RecordFailure`, `CrashRun` |
| `runAlertScan` | `RunAlertScan`, `MissScan`, `Restart` |
| whoever else writes `ErrorLog` | `LogErrors` |

Of a text only its edition is kept: a report built anew reads differently, which is
what `OneText` is about.  One scan is one step of the clock, because only the scan
touches the limiter; a process that dies between two alerts is a scan whose other
alerts failed, followed by a restart.  The limiter is the memory of one process.  The
two reads of `ErrorLog` within a scan are taken as one; more than three folded
cabinets and the wording of letters are left out.  `ReportFacts` has the sums
(`PeriodMetrics`), the comparisons (`ScopeAnomalies`, `SpendOutlier`) and what a letter
contains (`DailyLetter`, `WeeklyLetter`); a day without a row is not a day without
spend.

## Modules `EntitySync`, `IngestionFacts`, `Conversions`

| code | actions |
| --- | --- |
| `syncCampaigns`: list, upsert, `archiveMissing` | `Begin`, `ListPage`, `ListWithoutCount`, `ListFails`, `Write`, `Count`, `Archive` |
| `createOneCampaign` and its mirror row | `LaunchCreates`, `LaunchWrites`, `LaunchLosesRow` |
| people in the cabinet | `SomebodyAdds`, `SomebodyRemoves`, `SomebodySwitches` |
| `runIngestion` (conversions) | `Start`, `SyncedEntities`, `Reports`, `WriteStat`, `StatsDone`, `AsksMetrika`, `ReadsStale`, `Apply`, `Zero`, `Finish`, `Throws` |

`archiveMissing` counts first and archives by a second query; the two are `Count` and
`Archive`, and a launch may write its row in between (`HalfStays` excepts its drafts).
`IngestionFacts` pairs the keywords of a cabinet with rows (`SyncKeywords`), puts
Metrika's rows over those of the platform (`ApplyMetrika`, `ToZero`) and places search
queries (`Resolve`).  `KeywordsDiffer` is an assumption about the platform: a group holds
no phrase twice.  In `Conversions` one day stands for the window, all rows of it exist
and money is left out.  A pass that finds Metrika not configured, silent or illegible leaves
the window as it is (`LeavesWindow`); in one that goes on, campaigns an ambiguous row may
have meant are `shielded` from `ToZero`, and keep what the platform says.  `broken` is the
history of both: the campaigns some pass left out, until a pass that began later has
placed them or set them to nought.  `OneModelAtRest` is about all others.

## Modules `BriefFacts`, `Onboarding`, `Escalation`

| code | actions |
| --- | --- |
| `startInterview`, the bot's message handler | `StartInterview`, `OfferMessage`, `ReadMessage` |
| the turn: `advance`, `persist`, the halts | `Advance`, `RepeatHalt`, `FailTurn` |
| `metrika-config.ts`, the operator | `SaveMetrikaConfig`, `EnterConfigByHand` |
| `metrika-backfill.ts` | `BackfillReads`, `BackfillWrites` |
| `admin-escalation.ts` | `Reply`, `Renew`, `Create`, `ClaimFails`, `SendLetter`, `SendFails`, `NoAdminChat`, `Release`, `ReleaseFails`, `Die`, `CleanUp`, `Tick` |

A message is a sequence of words and the addresses in it, a word a sequence of digits
or one symbol for its letters: enough for quotations (`QuoteFound`), numbers with their
multipliers (`NumbersIn`) and hosts that look alike (`HostsLookAlike`).  One field of the
brief stands for those a model may fill by what was meant.  `heard` (history) holds the
messages the client was told are taken.

## Modules `Experiments`, `CreativeFacts`

A night is `Serve` (the ads are shown), `Load` (the statuses of the cabinet), `Evaluate`
(`evaluateAdExperiment` within `runAbEvaluation`, the cards under their keys) and `EndDay`;
cards are decided any time later by `Approve`, `Reject` or `Expire`; `Resume` and
`Rewrite` are people and the repair of moderation.  Each card is about the losers that
were chosen when it was issued.  Rates are compared by cross multiplication, the z-test
by its square.  `CreativeFacts` has what is done to a draft (`FitToPlatform`,
`AcceptDraft`) and the account of paid generations (`GenerateImages`).

## Modules `VkTokens`, `YandexUnits`, `ClientFacts`, `Credentials`, `Llm`

| code | actions |
| --- | --- |
| a request to VK (`http.ts`) | `Begin`, `GetToken`, `Send`, `ForceRefresh` |
| a mint shared by the requests of a process (`auth.ts`) | `DeleteKnown`, `Ask`, `AtTheLimit`, `Release`, `AskFails`, `Store`, `Save` |
| the world of VK | `Restart`, `RevokedOutside`, `Tick` |
| a request to Yandex (`http.ts`) | `Ask`, `Refuse`, `Send`, `Hear`, `LoseAnswer` |
| Yandex, and a restart of the process | `Serve`, `Replenish`, `Restart` |
| `credentials` of the CLI | `LooksOnly`, `Set`, `Exchange`, `ExchangeCode`, `Save`, `Revoke` |
| refresh-tokens | `ListCredentials`, `ReadCredential`, `RefreshAccess`, `StoreRenewed`, `ComesDue` |
| `runAgent` | `Start`, `CheckBudget`, `GoodAnswer`, `BadAnswer`, `NoAnswer`, `Record`, `Forget` |

In `ClientFacts` an answer is `[status, applied]`: `applied` says what the platform did,
which the client cannot see.  A script of answers is put to `Request` (retries), to
`MassBatch`, `RunBatched` and `Create` (batches), to `ListEntities` and `GetPaged` (pages); the
promises compare what the caller learns with what was applied.  It is assumed that a
platform names an id for everything it created: `requireIds` takes an answer in order
without an id for nothing created.

`Credential.expiresAt` is always null in the code although `docs/RUNBOOK.md` orders by it;
the renewal goes by the expiry inside the credentials, as in the model.

## Modules `PlanFacts`, `KeywordFacts`, `CycleFacts`

Pure operators, each with the promise it is checked against over every small input:
`SplitBudget` and `LargestRemainder` against a whole budget, `BuildTargeting` against the
regions of the brief, `BuildGroups` and `GenerateTexts`; `Frequencies`, `Clusters`,
`SelectNegatives`, the upserts of negatives and keywords and
`RunWeeklyKeywordRefresh` over clients; `CronInterval` against the longest gap of the
times a cron has, `Retained`, `ReadHistory` and `JudgeDays` against what the queues did.
`CycleFacts` is instantiated twice: with the real constants for periods (a calendar from
2024, cron fields of minutes, hours, days) and with a day of four hours for verdicts.

Two things of the keywords the model shows without a property: a negative of nothing but
stop words is not noticed inside a phrase, and a blank seed in a snapshot keeps a
client out although the brief names a product.

## Runs

| run | module / cfg | instance | properties |
| --- | --- | --- | --- |
| approval_races | MCApproval / MCApproval | 1 card, 2 presses, 2 crons, no faults, clock 0..2 | OnceOnly, ToldOnce, CardAgreesWithRow, ImplementsLifecycle |
| approval_faults | MCApproval / MCApprovalFaults | 1 card, 1 press, 1 cron, one fault, clock 0..3, fairness | UntouchedIsUntouched, DryRunPromiseKept, OutcomeNotInverted, PendingIsDecided, ApprovedIsSettled |
| approval_failed_doc | MCApproval / MCApprovalFailed | as approval_faults | FailedMeansUntouched (violated) |
| campaign_launch | MCCampaignLaunch / MCCampaignLaunch | 2 launches, 2 applications, 3 cards, 2 slots, 2 generations, one edit, one fault | OnePerAsk, CreatedIsRemembered, BlockedForAReason |
| moderation | MCModeration / MCModeration | both platforms, 1 ad, 1 run, no sync, 2 attempts, 2 replacements, one fault, fairness | AttemptsCounted, OneLetter, ClaimIsGivenUp, LostRowIsArchived, DeadEndIsHandedOver |
| moderation_sync | MCModeration / MCModerationSync | VK, 1 ad, 1 run, 1 sync, 1 attempt, 1 replacement, no faults, fairness | BannerIsKnown, LeftBehindIsArchived |
| moderation_claims_doc | MCModeration / MCModerationClaims | 2 runs and a sync | OneRewriter (violated) |
| optimizer | MCOptimizer / MCOptimizer | 2 workers, a keyword and a query, 2 days, numbers that change at noon, one fault, a human's bid | WrittenOnce, AskedOnce, WindowHeld |
| reporting | MCReporting / MCReporting | 2 clients, daily and weekly, 4 ticks, one fault, noise in one tick | OneText, Answered, SilenceIsEarned, Heard |
| ingestion | EntitySync / MCEntitySync | 3 campaigns, pages of 2 of which 1 is served, 4 moves, one fault, fairness | LiveIsKept, HalfStays, RowsHeal |
| yandex_units_doc | YandexUnits / MCUnits | 4 jobs, 2 at once, 2 attempts, reserve 3, no faults, fairness | UnitsReturn (violated) |
| services | MCServices / MCServices | see below | InterviewIsHonest, HandStays, SilenceIsFounded, GroupStaysOn, TokensLast, ReserveHolds, SuccessesAreCharged, OneModelAtRest, AnswersAreWhole, PlansAreWhole, VerdictsAreFounded |

The instances inside `services`:

| focus | instance | property |
| --- | --- | --- |
| interview | 2 handlers, 3 messages of 4 kinds, 3 questions, an old complete brief, a configuration by hand | InterviewIsHonest, HandStays |
| escalation | 2 handlers, 1 ground, a window of 2 ticks, 5 ticks, one fault | SilenceIsFounded |
| experiment | 3 ads of 3 variants, 2 days, one fault | GroupStaysOn |
| vk tokens | 2 processes, 3 requests, a limit of 2 tokens, 3 mints, one fault | TokensLast |
| credentials | 4 inputs, 2 passes, 4 commands, one fault | TokensLast |
| units | 5 jobs, 2 at once, a reserve of 11 of 13, one fault | ReserveHolds |
| llm | 2 runs at once, 4 in all, one prompt, a budget of 2, one repair, one fault | SuccessesAreCharged |
| conversions | 2 passes at once, 3 in all, 2 campaigns, any of them shielded, one fault | OneModelAtRest |
| answers, plans, verdicts | every case of the topics of `MCFacts` | AnswersAreWhole, PlansAreWhole, VerdictsAreFounded |

Each of the last three is a family with one promise per topic (`AnswersHold`,
`PlansHold`, `VerdictsHold` of `MCFacts`).  The type invariants are stated in every module
with state; TLAPS proves those of `Approval`, `CampaignLaunch`, `Moderation` and `EntitySync`.

Every property has a mutant of the code in `PROJECT.json` that breaks it.  For the
families and the properties with several conjuncts there are more in the modules,
defined before what they change: `ProvenByHost` and `LiftsUnconfirmed`
(InterviewIsHonest); `AcceptsAny`, `ExchangeAtOnce`, `AnswerAlone` (TokensLast);
`NoBudgetCheck` (SuccessesAreCharged); `VkRetryableLost`, `NextByLimit`, `LastAtArrival`,
`ByPhraseAlone`, `ToZeroUnshielded`, `ResolveAny` (AnswersAreWhole); `KeptAsZero`,
`SuppressesByWord`, `UpsertByPhrase`, `Floors` for the largest remainder, `KnownAnew`,
`Forgotten`, `FailedIsFree`, `AcceptAnyFitted` (PlansAreWhole); `RowsInHalfOpen`,
`HistoryOfAll`, `WindowOnly`, `JudgeFinished` (VerdictsAreFounded).

### Why the bounds are enough

Cards do not interact in `Approval`: every operation
reads and writes one row, so one card with as many processes as can meet over it is
the interesting instance.  Two presses and two crons give every pair of operations,
and every triple with a repetition; the proofs remove the bound for the safety
properties.  The clock covers issue, deadline and the deadline for resuming
(`TTL + StuckAfter`), and `Insert` only happens early enough for these to come.  In
`approval_faults` the single fault may strike at any await, and afterwards the system
has to recover without another; `MaxFaults` counts crashes of processes and failed
updates.  Lost replies, refused writes, failed edits and failed notices are not
counted and may happen at every call.  In `campaign_launch` three cards let two
launches issue cards for one slot while a third waits, and two generations with
`freshAsks` bounded by two allow a `--new` over each earlier state.
In `moderation` two attempts and two replacements let a banner be replaced, its
replacement rejected and replaced again, and the counter reach its ceiling on both ways
(by attempts, and by parking); the run starts again and again, so every state one run
leaves behind is met by the next.  `moderation_sync` has one attempt: what it asks is
about one replacement and the sync around it, and the sync starts again and again.
Ads do not interact in `Moderation` except through the budget of a run, the limit on
missing rows and the row a sync makes for a new banner; the last is there with one ad.

In `optimizer` the bid starts at 20 kopecks, where rounding matters, and a human may set
30, whence the limits of step and window contradict each other.  The first day has two
runs that overlap at every await; later runs do not overlap (`Overlap`), which keeps
the log of two days, its window and a fault in the middle within reach.  The statistics
may move (`Dearer`) between the two ticks of that day alone (`Later`), which is where a
question can be asked again.  Entities meet
only in conflicts and quotas, which the query and the keyword share.  In `reporting` a
tick is one period of the alert scan, a day of reports two ticks; noise in the third
tick lets a burst, a cut and a fold meet the failures of reports, two clients let one
fail while the other goes on.  `OneRun` keeps the weekly run behind the daily one: they
share no row but `ErrorLog`.  In `ingestion` a platform that serves one row where two
were asked separates an offset by what was received from one by what was asked;
four moves let one go out and one come in between any two pages and again before
`Archive`.  Three ids are the fewest with which the guard of one half lets one go.
In `services` two handlers, passes or runs are the pair that can overlap; more tokens
than the limit are minted, the window of an escalation passes twice, and the month is
overrun.  One fault anywhere is the fault model throughout: with two, `GroupStaysOn` does
not hold (two failures in a row and the losers are counted by ads that do not run), and
the module says so.  The bound of `ReserveHolds` is
reached exactly: with one unit less TLC has a counterexample in the same instance.

Symmetry is declared for processes and cards only in runs without liveness.
`CHECK_DEADLOCK FALSE` in the runs that end: asks and cards used up, the last tick, the
last day, a case that has been put.

### Fairness

In `Approval`, `PendingIsDecided` and `ApprovedIsSettled` need it.  Assumed: the clock goes on,
a message call returns or throws, the worker starts a pass when none is running
(`CRON_SCHEDULE` has expire-approvals every five minutes and BullMQ restarts the job
after a restart of the worker), and a process that lives goes on.  All weak.  Not
assumed: that anybody issues a card, presses a button, redeploys, or that anything
succeeds; the single fault may kill the first pass.

In `Moderation` the five leads-to properties need it.  Assumed, all weak: the
scheduler starts a run and a sync when none is under way and a living one goes on
(`Running`, `Syncing`; the schedule has check-moderation every thirty minutes and
fetch-stats every hour), a claim nobody works on grows old, a backoff ends.  Not
assumed: that the platform ever judges an ad, that a submission succeeds, that a model
finds a text.

In `EntitySync`, `RowsHeal` needs a pass that comes again and goes on, and a launch under
way that is finished; both weak.  That the cabinet is left alone and answers whole in
the end is what the bounds `MaxMoves` and `MaxFaults` say.

In `YandexUnits`, `UnitsReturn` is refuted under weak fairness of `Replenish`, `Serve` and
`Hear` and strong fairness of asking and of the branch a job takes.  A restart is not
assumed, since nothing in the code restarts a healthy process.  With a `Replenish`
that also forgets what was heard, the property holds under the same fairness: it is
the code and not the fairness that violates it.

### What disagrees with the documentation

Three runs end in a counterexample to a sentence of the code base:

* `approval/apply.ts:182` says of `fail` that nothing has changed in the cabinet.
  `executeAction` throws also when a reply is lost after the write, and the catch
  calls `fail` for every error.  The card then reads FAILED over a change that exists.
* `moderation/run.ts:33` says overlapping runs are safe because a text is only
  submitted under an atomic claim.  `syncAds` writes `moderationStatus` without a
  condition, so a sync that listed the ad before the claim overwrites REWRITING with
  REJECTED; a second run reads that row, claims it with the new counter and submits
  while the first is still submitting.  Without a sync the sentence is true
  (theorem `OneRewriterWithoutSync`).
* `docs/RUNBOOK.md:73` says the Yandex client counts units by itself and puts work off
  until the next window (`clients/yandex-direct/errors.ts:72` has the constant).  The
  balance is known from answers alone, and once one was below the reserve every call is
  refused before it is sent: in a process that lives, for ever.

The following are stated in the modules with the sentence they come from, are violated,
and are not among the runs; where a cfg is named, it finds the counterexample with the
property in place of its own:

| property | what the code does | reproduce |
| --- | --- | --- |
| `ExpiredReturnsKey` (Approval) | a press behind the deadline expires a card without the handler that returns an A/B card's key (`scheduler/handlers.ts:20`) | an INVARIANT of MCApprovalFaults |
| `StructureGapShown` (CampaignLaunch) | the note about a campaign without groups stays in a result nobody reads (`campaigns/apply.ts:364`) | an INVARIANT of MCCampaignLaunch |
| `ReusedPlanIsCurrent` (CampaignLaunch) | `createdAt` is taken after the model calls, so an edit in between looks older than the plan (`campaigns/entry.ts:331`) | an INVARIANT of MCCampaignLaunch |
| `NextCycleIsHandedOver` (Moderation) | the journal entry of the last cycle has the same `parkedAt`; no letter is written (`moderation/repair.ts:329`) | a PROPERTY of MCModeration |
| `NextRunSends` (Reports) | the next run looks up the report of its own period, so an unsent text stays | an INVARIANT of MCReporting |
| `TailComes` (Alerts) | reasons cut by the limit of a scan can be outside what the next one reads (`alerts.ts:869`) | an INVARIANT of MCReporting |
| `FailedLeavesTrace` (Llm) | a call whose repairs are used up is entered without its cost | |
| `CeilingHolds`, `NumbersAreNamed` (Onboarding) | a turn may count beyond `MAX_QUESTIONS`; numbers of an old complete brief need no quotation | |
| `UnaddressedIsNoGround` (IngestionFacts) | a label with a number that is no campaign of the client is taken for a stranger's, and its campaign is set to nought | |
| `MixIsAudited` (Conversions) | a stage that throws is left before the check for mixed models | |
| `NoneWithoutSource` (KeywordFacts) | what the batches before a fallen one brought stays | |
| `RevokedStaysRevoked` (Credentials) | a renewal that read the row before a revocation writes it anew (`docs/RUNBOOK.md:192`) | |
| `NotCreatedIsNothing` (ClientFacts) | a creation in several requests whose second is refused says "not-created"; its callers ask only of campaigns, which are one request, and there it is true (`CreationIsTold`) | |
| `PastDayIsShown` (CycleFacts) | the depth of the history is counted back from now, not from the day asked for (`acceptance/collect.ts:95`, `docs/ACCEPTANCE.md:209`) | |

Met while modelling, without a property: the batches of Yandex lose what earlier
batches did when a later one throws (`clients/yandex-direct/writes.ts:101`); a VK list
without a count ends after one page; concurrent model runs exceed the "one call" of
`cost.ts` (`MonthHolds` has the true bound); the limiter of alerts is marked for the
spend scan before the scan is done.

## Proofs

All theorems hold for every value of the constants under the named assumptions of
the modules (`ApprovalAssumption`, `LaunchAssumption`, `ModerationAssumption`,
`OptimizerAssumption`, `ReportsAssumption`, `AlertsAssumption`, `SyncAssumption`: the
constants have their types, the kinds of processes are disjoint, the placeholders are no
members, a list of clients to report to is not empty, cabinets and ids are finite).
`ServicesProofs` takes the assumptions of a component as a hypothesis of its theorem:
types and nothing else in `EscTypes`, `UnitsTypes`, `CredTypes`; in `MonthTypes` types, and
finitely many runs but some; in `OnbTypes` that a brief from before is one the code could
have left (its address a client's); none in `HandIsKept` and `OneModelRemains`; in `VkTypes` that a token lives at
least `Remint + Margin` (a day against ten seconds and four hours in auth.ts), that a request
belongs to a process, and that processes have names of their own; in `ExpTypes` that there
are texts and at most one fault (with two, the statuses missed as a card is approved and the load missed
the night after, TLC finds `GroupStaysOn` false).  Its theorems are about `ServicesSpec`, with all components moving:
`SideBySide` takes a step of the whole to a step or a stutter of each.
Finite `Cards` or processes are not assumed in `ApprovalProofs`.  Where a theorem has a
further hypothesis (no sync, runs that do not overlap, runs that end within their window),
it is named here, and without it the property is false.

* `ApprovalProofs!TypeCorrect` — types.  Not inductive alone only in that a process
  away from idle has a card; that is part of `WorkersOK`.
* `ApprovalProofs!LeaseCorrect` — the inductive invariant `LeaseInv`: a process at an
  await behind the lease (`Leased`) works on an APPLYING row and is alone with it;
  before its `Execute` the card has no write; a row that was never leased has none.
  `OnceOnly` says nothing about who may write next, so it is not inductive: a second
  holder of the lease would be consistent with one write so far.  `AtMostOneWrite`
  follows from it.
* `ApprovalProofs!LifecycleImplemented` — step by step, under `TypeOK` and
  `LeaseInv`: every action of `Approval` is a step of the abstract life cycle or
  leaves the row's decision and the writes alone.  The lease invariant is needed for
  `Finish` and `Fail`, which are unconditional UPDATEs in the code: only the lease
  makes APPLYING the state they start from.
* `ApprovalProofs!OutcomeIsTrue`, `DryRunNeverWrites` — from `OutcomeInv`, which says
  at each await behind the lease what the cabinet has done (nothing, something
  confirmed, something refused or lost) and that `dry` is true where the card
  promised it.
* `ApprovalProofs!ChatTellsTheRow` (`CardAgreesWithRow`) — from `ChatInv`: of the processes
  that are about to put a last text on a card there is one (`OneSettler`), the text it
  holds agrees with the row (`AboutToShow`), and nobody is at work behind a card that
  already shows its end (`ShownIsOver`).  The property speaks of the chat alone, and an
  edit that is still under way would make it false a step later.
* `ApprovalProofs!UntouchedIsTrue` (`UntouchedIsUntouched`) — from the lease, the
  outcomes and the chat together.
* `ApprovalProofs!StuckIsToldOnce` (`ToldOnce`) — from `ReportInv` (what was told can be
  read from the row's mark, and one pass is about to tell) and `AgeInv`: the ages of a
  card and the clocks that handlers and passes remember come in the order of the code,
  without which a pass with an old clock could find a marked row overdue for approval.
* `CampaignLaunchProofs!CreationRemembered` — from `KeyInv`: an application between
  reservation and completion owns its pending key alone, and a free key has no
  campaign.  The mutual exclusion is the key's insert.
* `CampaignLaunchProofs!NeverOneTooMany` — from `KeyInv` and `GenerationInv`: the
  generation of every address that a key, a card, a plan or a launch mentions is at
  most the number of launches that asked for one more, and what a launch read in
  `taken` is a subset of what exists.  The counting is done with the theorems about
  finite sets and functions of the library.
* `CampaignLaunchProofs!BlockedOnlyMeanwhile` — from `OwnedUnlessFaulty`: while
  nothing failed every pending key has its owner at work.
* `ModerationProofs!TypeCorrect` — types, with any number of runs and syncs.  The
  bound of the counter is not a matter of types: `Claim` writes `retries + 1`.  It
  needs `Budgeted`: a run that rewrites an ad has a job with an attempt left, and a run
  that spends has a repair left.
* `ModerationProofs!OneRewriterWithoutSync` — for any number of runs, under the
  hypothesis `Syncs = {}` (the run `moderation_claims_doc` shows it is needed).  From
  `ClaimInv`: who is at `Claimed` has a row that reads REWRITING, its claim is not
  stale, and nobody else is there with the same row.  `GrowStale` is where the
  assumption about slow submissions enters.
* `ModerationProofs!AttemptsCountedWithoutSync` — same hypothesis, from `AttemptInv`:
  a run at its submission has a row with fewer texts sent than its counter, and no
  update lowers a counter without the history going back to zero with it.  It stands on
  `ClaimInv`: a second holder of the claim could spend the attempt of the first.
* `ModerationProofs!OneLetterWithoutOverlap`, `BannerIsKnownWithoutOverlap` — for any
  number of ads and syncs, under the hypothesis `NoOverlap`: `checkTarget`'s runs follow
  one another, as its schedule of thirty minutes means them to.  `LetterInv`: letters
  beyond the faults are in the journal or on their way to it, and a run at its letter
  found none there.  `BannerInv`: what a run remembers of a row (its snapshot, its list
  of rejected ads, its job) still names the banner the row has, since nobody else moves
  a row from one banner to the next.  Two overlapping runs break both (TLC shows it
  without a sync and without a fault): two look for the letter before either has logged
  its own; and a run with an older snapshot replaces the ad the row has left behind, and
  its `Settle` takes the row from the replacement another run has adopted meanwhile, of
  which no row knows then.
* `OptimizerProofs!ChangesComeOnce` (`WrittenOnce`), `QuestionsComeOnce` (`AskedOnce`) — from
  `KeyInv`: a run between the reservation of a key and what it is for is alone with that
  key (`OneHand`), what was done under a key leaves it reserved unless its answer was lost
  (`UsedIsReserved`), and a key in somebody's hand is unused (`InHandIsUnused`).  The key of a
  question holds the numbers it quotes, and so does the promise.  Nothing
  is assumed of the rules and guardrails: the keys hold whatever they propose.
* `OptimizerProofs!TypeCorrect` — types.  Most of the proof is about the pure half: the
  anchors, `resolveConflicts` and `applyGuardrails` are folds over sequences of any length.
  A fold is a recursive function; that it exists, and that its value stays in the set its
  steps stay in, is shown from the least length at which it would fail (`FoldProofs`: the
  least element of a set of numbers takes the place of an induction).
* `OptimizerProofs!WindowStaysHeld` (`WindowHeld`, an action property) — the clamp of
  guardrails.ts holds not only against the bid before a change but against the bid at the
  beginning of the window.  From `WindowInv`: of an entity whose changes are all told, the
  last row of the log tells what the cabinet has but for a change made and not yet logged
  (`Pending`: `LogTells`, `CabinetTold`), the local row has a bid the cabinet had
  (`MirrorTold`), and of a run, what it proposes starts from such a bid (`ProposedTold`), what
  it has decided keeps within the step of the anchor as long as no other change came between
  (`WindowKept`), and what it has written is what it decided (`DoneTold`).  The hypothesis is
  `[]Prompt`.  Without it the property is false, and TLC finds how: a run that hangs for
  longer than its window brings the local row back to the bid it wrote (6) after another run
  has taken the cabinet from 6 to 5; the next run knows 6, finds no row in its window to
  anchor it, and raises to 7, which is more than 5 and a fifth.
* `ReportingProofs!SilenceIsAlwaysEarned`, `RowsAreHeard` (`Heard`) — from `AlertInv`.  `Heard`
  speaks of rows both of whose scans are over; `EachScanHears` says of each scan by
  itself that it covered what it was due to see or did not take place, and
  `CooldownsFit` that a silence lasts what its kind of reason says, which is what makes
  "was told within its cooldown" true of a row a limiter suppressed.
* `ReportingProofs!OneTextOnly` (`OneText`) — from `LetterInv`: what a run is about to send is
  the stored edition, a letter is a copy of it, and one that is neither marked nor about
  to be is in doubt.  `EveryoneIsAnswered` (`Answered`) — from `AnsweredBut`: every client is
  answered but for those today's run has before it.  That a run which starts behind the
  others in its day still finds its period needs that no day passes with a run under way.
* `EntitySyncProofs!LiveAreKept` (`LiveIsKept`, an action property) — from `CoverInv`: as long
  as nothing moves, what was got is what the cabinet lists up to the offset.
  `HalfIsKept` (`HalfStays`) — from `HalfInv`: from the count to the update what is missing
  and is no draft does not grow beyond what was seen.  Both for every page size, served or
  asked, and any finite number of campaigns.
* `ServicesProofs!SilenceStaysFounded` — `SilenceIsFounded` is inductive by itself on top of
  the types.
* `ServicesProofs!ReserveIsKept` (`ReserveHolds`) — from `ReserveInv`, which counts the calls
  that may still be served below the reserve: those in flight, and those each answer yet
  to be heard with enough units in it will let out.  The k-th such answer can let out
  no more than the places it and the others leave free, whence the rounds of 1, 2, …
  `MaxConcurrent` calls.  An earlier form of the property promised two full rounds; TLC had
  found nothing against it with two calls at once, the induction did not close, and with
  four and more calls at once (the client has five) it is false.
* `ServicesProofs!OneModelRemains` (`OneModelAtRest`) — from `ConvInv`: what is not in the model
  of Metrika is some run's to see to still (a shielded campaign until the run that shields it
  ends), or is known to be left and no run under way began after that.  Each campaign for
  itself: a pass that shields one vouches for the others.
* `ServicesProofs!GroupIsNeverOff` (`GroupStaysOn`) — from `ExpInv`: before a fault, and at
  every comparison, what is taken for running does run (`status \subseteq cabinet`), one card
  at a time is open, and none that would leave no ad.  `LeaderStays` is the lemma that the
  losers `selectWinner` names never hold its leader, so that a card spares an ad that runs.
  After the one fault the load of the next night comes through before the next comparison;
  this is where a second fault would break it.
* `ServicesProofs!TokensStayUsable` (`TokensLast`) — the VK half from `VkInv`.  A process may
  delete of its own only the token it was asked with, which is the one in the credentials it
  holds or in the row it may read next; of each of these one of three things is true
  (`SafeWith`): deleting it loses nothing now (`Harmless`: it is another's, over, or older
  than `Remint`); or the memory says that it was minted a moment ago (`Remembered`, and then
  `ForceRefresh` tries it again instead); or the process has forgotten, as after a restart,
  but knows no other token and was not refused this one (`KnowsOnly`, and then it mints only
  when the token is near its end or was refused for being over).  The promise is about
  requests that failed; the history of every token (`Spared`) is what is inductive.  The
  credentials half (`StoredStaysUsable`): what a command or a pass holds and may write is as
  usable as the row, and a command at its exchange was confirmed.
* `ServicesProofs!SuccessesStayCharged` (`SuccessesAreCharged`) — `CostIsTold` from `LlmInv`: a run before its
  call has paid nothing, and one at its row knows all it paid.  Failed calls are outside of it
  (`FailedLeavesTrace` above is what the code breaks).  `MonthHolds` from `MonthInv`:
  what is entered, and a full call for every run that was let in and has still to pay, is
  below the limit and a full call for every run.  A run is let in only below the limit, so
  that the bound holds as it takes its place among them.  The spend of the month is a
  recursive function over the rows; that it exists and grows by what is appended
  (`SumsExist`, `RowAdds`) is shown from the least length at which it would fail, the
  library's well-foundedness of the numbers in place of an induction.
* `ServicesProofs!InterviewStaysHonest` (`InterviewIsHonest`) — from `OnbInv`: what a handler
  may write back is itself honest, holds the message it answers, and, if the version it
  read is still the row's, every message the row has (`HoldsAll`).  The last is why the
  condition on the version in `Persist` loses no answer; the honesty of the row alone says
  nothing of what handlers under way will put in its place.  `DraftAddress` is the lemma
  that an address in a brief was there before or passed `proveLandingUrl`, and
  `ProvenIsGiven` that such a one is in a message of the client.
* `ServicesProofs!HandIsKept` (`HandStays`, an action property) — from the WHERE of the
  backfill's update alone, whatever it read before: a column it writes was empty at that
  very step.  What does change a filled column is an operator, or the handler whose brief was
  completed, by its own step; that write has no condition (`metrika-config.ts:133`), so that
  a brief completed before the operator's entry and written after it takes its place.
* `OptimizerProofs!ConflictsAreResolved`, `ShareIsKept`, `EveryChangeIsGoverned` — the pure half of
  the optimizer, for sequences of any length: what `resolveConflicts` keeps, what
  `applyGuardrails` lets pass, and how `autoApply` and the cards share what passed.  The first two
  are folds: what is known of the first n changes (`Resolved`; the entities touched so far are
  no more than the cap) is kept by the next.  `ShareIsKept` takes a campaign with finitely many
  entities and some; without any, the share limits nothing.
* `ServicesProofs!WritesComeOnce`, `OneCampaignOnly` — `OnceSoFar`: a request that may be tried
  again has written nothing, whatever the answers so far; the key of a campaign is given back
  only after such an answer.
* `ServicesProofs!PacedAlways` — `IsPaced`: the moment the limiter remembers is that of the last
  request sent, and is not after its clock.
* `ServicesProofs!GroupsStayApart` — `GroupsSoFar`: the names and phrases of the groups made are
  among those the fold has marked as taken; the number `uniqueGroupName` adds is found because
  the names taken are finitely many.
* `ServicesProofs!NoKopeckIsLost` — when some weight is not zero, which `splitBudget` sees to
  before it shares anything.  The remainders of the n parts sum to `rest` times the sum of the
  weights, each is less than that sum, so `rest` is not negative and no more than the parts that have a
  remainder; the order by remainder and place gives each part its own rank, so exactly `rest`
  parts get one kopeck, none of them a part that was due none (`FirstAreCounted`).
* `ServicesProofs!AskedIsOnAccount` — `OnAccount`: what was spent is the sum of the rows of the
  account and the number of pictures asked for times the price of one, and fits what is left
  of the budget.  The account is stated over all pictures asked for; its part about the ones
  filtered by `SelectSeq` (`Charged`), which the prover cannot expand, stays with TLC.
* `ServicesProofs!SilenceIsNoughtOnly`, `QueryHasOneGroup` — by cases over sets of any size;
  conversions stored are numbers, and the groups of a client finitely many.

Only model-checked:

* the liveness properties (fairness and ENABLED are outside the prover):
  `PendingIsDecided`, `ApprovedIsSettled`, `ClaimIsGivenUp`, `LostRowIsArchived`,
  `DeadEndIsHandedOver`, `LeftBehindIsArchived`, `RowsHeal`;
* `AnswersAreWhole`, `PlansAreWhole`, `VerdictsAreFounded`: each bundles a dozen facts about
  pure functions over all inputs of a bounded size.  The facts named above are proved for
  every input (`WritesComeOnce`, `OneCampaignOnly`, `PacedAlways`, `SilenceIsNoughtOnly` and
  `QueryHasOneGroup` of the first; `GroupsStayApart`, `NoKopeckIsLost` and `AskedIsOnAccount`
  about what the second checks); the bundles stay with TLC.  What is left in them filters
  with `SelectSeq`, whose definition the prover cannot expand, or compares values of folds
  with a reference computed another way, or speaks of the sample of inputs the MC module
  builds.

## Plan

1. (done) `Approval`, `ApprovalLifecycle`, `CampaignLaunch`, `Moderation` and their proofs.
2. (done) `Guardrails`, `Optimizer`; `Reports`, `Alerts`, `Reporting`; `EntitySync`,
   `Conversions`; `Onboarding`, `Escalation`; `Experiments`; `VkTokens`, `YandexUnits`,
   `Credentials`, `Llm`; the pure modules.
3. (done but for what is named as left) Proofs of every safety invariant the runs check that
   the prover can reach, and of the pure facts that say most; see "Proofs".  Left: the other
   facts of the three bundles.
   None of the modules proved about declares a RECURSIVE operator, and each states its
   assumptions on constants by name.
4. Properties still worth stating.  In `Moderation` an ad the sync has seen accepted
   never gets its attempts back (`Upsert` leaves the counter alone and `List` then finds
   nothing to write).  `VkTokens` bounds what one process does to itself; what two processes
   do to each other at the limit has no promise in the code to state.

## Not modelled

* **server, plugins**: health endpoints, a limiter per address, a shutdown in order; no
  state that outlives a request.
* **web dashboard**: read-only queries rendered into pages.
* **deployment scripts**, but for a redeployment with another DRY_RUN: backup, health
  checks and rollback of images are shell I/O.
* **encryption**: what is stored is what is read back.
* **prompts, wording, layout, stemming, image processing**: the model's answers are inputs
  chosen freely from small sets, a stemmer is a constant function, letters have parts
  and no text.
* **acceptance**: what is collected from the database is an input of the verdict.
* **wiring of BullMQ**: repetition of jobs is in `Next`, their return after a restart in
  the fairness.
* The parts of modelled components named under each module above: previews of a dry run,
  several targets in one moderation run, the contents of bookkeeping and the codec of
  buttons, the bodies of requests, and `submitForModeration`, which logs a refusal.
