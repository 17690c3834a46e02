----------------------------- MODULE ClientFacts -----------------------------
(***************************************************************************)
(* How the clients of the platforms ask (src/src/clients/vk-ads,            *)
(* yandex-direct, metrika.ts and lib/retry.ts): what is asked again after   *)
(* which answer, how a list is read page by page, how a write of many       *)
(* objects is cut into batches and what its caller learns, and how a report *)
(* is waited for and taken apart.                                           *)
(*                                                                         *)
(* An answer is [status, applied]: applied says whether the platform did    *)
(* what it was asked, which the answer itself does not tell.                *)
(***************************************************************************)
EXTENDS Integers, Sequences, FiniteSets, SequencesExt

Ok == "ok"
\* Answers after which a platform certainly has done nothing.
Refusals == {"auth", "rate limit", "no units", "retry soon", "refused", "http refused"}
\* Answers after which it may have: an error inside the platform, a lost answer, an
\* answer of another shape.
Unknowns == {"server error", "http 5xx", "lost", "bad shape"}

-----------------------------------------------------------------------------
(* Asking again. *)

\* mapVkHttpError and the transport of VK: what may be asked again by itself.
VkRetryableLost(status, write) == status \in {"rate limit", "http 5xx", "lost"}
VkRetryable(status, write) == \/ status = "rate limit"
                              \/ status \in {"http 5xx", "lost"} /\ ~write

\* mapYandexError, mapHttpStatus; a transport that throws is no AppError at all.
YandexRetryable(status) == status \in {"rate limit", "no units", "retry soon", "server error", "http 5xx"}
ShouldRetryYandex(status) == status # "no units" /\ YandexRetryable(status)
NotApplied(status) == status \in Refusals
ShouldRetryYandexWrite(status) == ShouldRetryYandex(status) /\ NotApplied(status)

Again(platform, write, status) ==
    IF platform = "vk" THEN VkRetryable(status, write)
    ELSE IF write THEN ShouldRetryYandexWrite(status) ELSE ShouldRetryYandex(status)

\* withRetry over execute, raw: tries are left, refresh says that a token may still be
\* minted anew in this try (VK, after the first "auth").
Asking(attempts) == [over |-> FALSE, outcome |-> "none", left |-> attempts, refresh |-> TRUE, applied |-> 0]
Heard(acc, platform, write, answer) ==
    LET counted == [acc EXCEPT !.applied = @ + (IF answer.applied THEN 1 ELSE 0)]
    IN  IF acc.over THEN acc
        ELSE IF answer.status = Ok THEN [counted EXCEPT !.over = TRUE, !.outcome = Ok]
        ELSE IF platform = "vk" /\ answer.status = "auth" /\ acc.refresh
             THEN [counted EXCEPT !.refresh = FALSE]
        ELSE IF acc.left > 1 /\ Again(platform, write, answer.status)
             THEN [counted EXCEPT !.left = @ - 1, !.refresh = TRUE]
        ELSE [counted EXCEPT !.over = TRUE, !.outcome = answer.status]
Request(platform, write, answers, attempts) ==
    FoldLeft(LAMBDA acc, answer : Heard(acc, platform, write, answer), Asking(attempts), answers)

\* assertUnitsAvailable: nothing is asked below the reserve, once the rest is known.
UnitsAllow(known, remaining, reserve) == ~known \/ remaining >= reserve

\* computeThrottleDelayMs and acquire: the times at which requests that come in turn
\* are sent.  A window is how long nothing may be sent, from what VK said last.
Boundary(now, window) == window - (now % window)
ThrottleDelay(now, last, spacing, exhausted) ==
    IF exhausted > 0 THEN Boundary(now, exhausted)
    ELSE IF last < 0 \/ now - last >= spacing THEN 0 ELSE spacing - (now - last)
SendAt(acc, time, exhausted) ==
    [acc EXCEPT !.clock = time, !.sent = Append(@, [at |-> time, exhausted |-> exhausted])]
LastAtArrival(acc, now, delay, exhausted) == [SendAt(acc, now + delay, exhausted) EXCEPT !.last = now]
LastAtSending(acc, now, delay, exhausted) == [SendAt(acc, now + delay, exhausted) EXCEPT !.last = now + delay]
Acquire(acc, arrival, spacing, maxWait) ==
    LET now == Max({acc.clock, arrival.at})
        delay == ThrottleDelay(now, acc.last, spacing, arrival.exhausted)
    IN  IF delay > maxWait THEN [acc EXCEPT !.clock = now] ELSE LastAtSending(acc, now, delay, arrival.exhausted)
SentAt(arrivals, spacing, maxWait) ==
    FoldLeft(LAMBDA acc, a : Acquire(acc, a, spacing, maxWait),
             [clock |-> 0, last |-> -1, sent |-> <<>>], arrivals).sent

-----------------------------------------------------------------------------
(* Lists. The platform gives pages of at most cap entities. *)

Chunks(seq, size) == [b \in 1 .. (Len(seq) + size - 1) \div size |->
                        SubSeq(seq, (b - 1) * size + 1, Min({b * size, Len(seq)}))]
Page(cabinet, offset, size) == SubSeq(cabinet, offset + 1, Min({offset + size, Len(cabinet)}))

\* listEntities: on from the entities received, until they are as many as there are.
NextByReceived(offset, items, limit) == offset + Len(items)
NextByLimit(offset, items, limit) == offset + limit
NextOffset(offset, items, limit) == NextByReceived(offset, items, limit)
VkPage(acc, cabinet, limit, cap) ==
    LET items == Page(cabinet, acc.offset, Min({limit, cap}))
        next == NextOffset(acc.offset, items, limit)
    IN  IF acc.over THEN acc
        ELSE [list |-> acc.list \o items, offset |-> next,
              over |-> items = <<>> \/ next >= Len(cabinet)]
ListEntities(cabinet, limit, cap, maxPages) ==
    FoldLeft(LAMBDA acc, page : VkPage(acc, cabinet, limit, cap),
             [list |-> <<>>, offset |-> 0, over |-> FALSE], [i \in 1 .. maxPages |-> i]).list

\* getPaged: Direct says where it stopped, and nothing when it did not.
LimitedBy(cabinet, offset, size) == IF offset + size < Len(cabinet) THEN offset + size ELSE -1
YandexPage(acc, cabinet, limit) ==
    LET items == Page(cabinet, acc.offset, limit)
        limited == LimitedBy(cabinet, acc.offset, limit)
    IN  IF acc.over THEN acc
        ELSE [list |-> acc.list \o items, offset |-> limited, over |-> limited <= acc.offset \/ items = <<>>]
GetPaged(cabinet, limit, maxPages) ==
    FoldLeft(LAMBDA acc, page : YandexPage(acc, cabinet, limit),
             [list |-> <<>>, offset |-> 0, over |-> FALSE], [i \in 1 .. maxPages |-> i]).list

\* getGoalConversions: pages are counted by the rows received, and a budget of pages.
MetrikaPage(acc, rows, limit, maxPages) ==
    LET items == Page(rows, acc.offset, limit)
        got == acc.offset + Len(items)
        page == acc.page + 1
    IN  IF acc.over THEN acc
        ELSE [list |-> acc.list \o items, offset |-> got, page |-> page,
              failed |-> ~(Len(items) < limit \/ got >= Len(rows))
                         /\ (page >= maxPages \/ Len(rows) > limit * maxPages),
              over |-> \/ Len(items) < limit \/ got >= Len(rows)
                       \/ page >= maxPages \/ Len(rows) > limit * maxPages]
GetGoalConversions(rows, limit, maxPages) ==
    FoldLeft(LAMBDA acc, page : MetrikaPage(acc, rows, limit, maxPages),
             [list |-> <<>>, offset |-> 0, page |-> 0, failed |-> FALSE, over |-> FALSE],
             [i \in 1 .. maxPages |-> i])

\* byParent, getAdGroups, getAds: parents in batches, each batch a list of its own.
\* lists[p] is what the cabinet has below the parent p.
ListByParent(parents, size, lists) ==
    FlattenSeq([b \in DOMAIN Chunks(parents, size) |->
                  LET batch == Chunks(parents, size)[b] IN FlattenSeq([i \in DOMAIN batch |-> lists[batch[i]]])])

-----------------------------------------------------------------------------
(* Writes.  answers[b] is what the platform makes of the b-th batch: an error *)
(* in the sense of Request, or the objects it rejects.                        *)

\* massUpdateEntities.
PendingFrom(batches, b) == ToSet(FlattenSeq(SubSeq(batches, b, Len(batches))))
PendingAfter(batches, b) == ToSet(FlattenSeq(SubSeq(batches, b + 1, Len(batches))))
Pending(batches, b) == PendingFrom(batches, b)
MassBatch(acc, batches, b, answer) ==
    IF acc.over THEN acc
    ELSE IF answer.error THEN
        [acc EXCEPT !.over = TRUE,
                    !.told = IF acc.updated = {} /\ acc.failed = {} THEN "error" ELSE "partial",
                    !.pending = Pending(batches, b)]
    ELSE [acc EXCEPT !.failed = @ \cup (answer.rejected \cap ToSet(batches[b])),
                     !.updated = @ \cup (ToSet(batches[b]) \ answer.rejected)]
MassUpdate(ids, size, answers) ==
    LET batches == Chunks(ids, size)
    IN  FoldLeft(LAMBDA acc, b : MassBatch(acc, batches, b, answers[b]),
                 [over |-> FALSE, told |-> Ok, updated |-> {}, failed |-> {}, pending |-> {}],
                 [b \in DOMAIN batches |-> b])
\* writeResultOf, applied: a write of which nothing was taken is an error.
WriteResultOf(outcome) == IF outcome.told = Ok /\ outcome.updated = {} /\ outcome.failed # {}
                          THEN "rejected" ELSE outcome.told

\* setBids, setBudgets, switchStatus: nothing goes out in a dry run or without changes.
VkWrite(dryRun, ids, size, answers) ==
    IF dryRun \/ ids = <<>> THEN [told |-> "dry", changed |-> {}]
    ELSE LET made == MassUpdate(ids, size, answers)
         IN  [told |-> WriteResultOf(made), changed |-> made.updated]

\* updateAdText: a banner VK would not let be edited is made anew, and only then the old
\* one goes; if it stays, it is stopped, when that can be done.  What comes of the
\* creation: "ok", "no id" and "lost" (made all the same or not).
UpdateAdText(wasActive, create, madeAnew, deleted, stopped) ==
    LET anew == [told |-> "error", old |-> wasActive, new |-> madeAnew /\ wasActive]
    IN  IF create # Ok THEN anew
        ELSE IF deleted THEN [anew EXCEPT !.told = Ok, !.old = FALSE]
        ELSE [anew EXCEPT !.told = "orphan", !.old = wasActive /\ ~stopped]

\* uploadContacts: the same, counted.
UploadBatch(acc, batches, b, answer) ==
    IF acc.over THEN acc
    ELSE IF answer.error THEN [acc EXCEPT !.over = TRUE,
                                          !.told = IF acc.uploaded = 0 THEN "error" ELSE "partial"]
    ELSE [acc EXCEPT !.uploaded = @ + Len(batches[b]) - Cardinality(answer.rejected \cap ToSet(batches[b]))]
UploadContacts(contacts, size, answers) ==
    LET batches == Chunks(contacts, size)
    IN  FoldLeft(LAMBDA acc, b : UploadBatch(acc, batches, b, answers[b]),
                 [over |-> FALSE, told |-> Ok, uploaded |-> 0], [b \in DOMAIN batches |-> b])

\* hashContacts: what cannot be used is skipped, what is there already is counted.
HashContacts(contacts, usable) ==
    FoldLeft(LAMBDA acc, c : IF c \notin usable THEN [acc EXCEPT !.skipped = @ + 1]
                             ELSE IF c \in ToSet(acc.contacts) THEN [acc EXCEPT !.duplicates = @ + 1]
                             ELSE [acc EXCEPT !.contacts = Append(@, c)],
             [contacts |-> <<>>, skipped |-> 0, duplicates |-> 0], contacts)

\* runBatched and summariseResults of Direct: what failed is named by its place in the
\* whole; an error of a batch is the error of the write, and what was done before it
\* is not told.
Summarise(batch, rejected) ==
    [succeeded |-> SelectSeq(batch, LAMBDA id : id \notin rejected),
     failed |-> SelectSeq([i \in DOMAIN batch |-> i], LAMBDA i : batch[i] \in rejected)]
MergeSummaries(acc, next, offset) ==
    [acc EXCEPT !.succeeded = @ \o next.succeeded,
                !.failed = @ \o [k \in DOMAIN next.failed |-> next.failed[k] + offset]]
RunBatched(ids, size, answers) ==
    LET batches == Chunks(ids, size)
    IN  FoldLeft(LAMBDA acc, b :
                   IF acc.told # Ok THEN acc
                   ELSE IF answers[b].error THEN [acc EXCEPT !.told = "error"]
                   ELSE [MergeSummaries(acc, Summarise(batches[b], answers[b].rejected), acc.offset)
                           EXCEPT !.offset = @ + Len(batches[b])],
                 [told |-> Ok, succeeded |-> <<>>, failed |-> <<>>, offset |-> 0],
                 [b \in DOMAIN batches |-> b])

\* requireIds: what an answer in order lets a creation say: every id of the batch, or whether
\* any came.  An error keeps what callAdd knows of it.
RequireIds(batch, succeeded) ==
    IF Len(succeeded) = Len(batch) THEN Ok ELSE IF succeeded = <<>> THEN "not-created" ELSE "unknown"
CreateOutcome(status) == IF NotApplied(status) THEN "not-created" ELSE "unknown"

\* createAdGroups, createKeywords, createAds: batch by batch, in the order of the plan, until
\* one is not whole.  exists is what the cabinet has of it, ids what the caller learns.
AddBatch(acc, batch, answer) ==
    LET made == Summarise(batch, answer.rejected).succeeded
    IN  IF acc.outcome # Ok THEN acc
        ELSE IF answer.status # Ok
             THEN [acc EXCEPT !.outcome = CreateOutcome(answer.status),
                              !.exists = IF answer.applied THEN @ \o batch ELSE @]
        ELSE [exists |-> acc.exists \o made, outcome |-> RequireIds(batch, made),
              ids |-> IF RequireIds(batch, made) = Ok THEN acc.ids \o made ELSE acc.ids]
NothingAdded == [exists |-> <<>>, outcome |-> Ok, ids |-> <<>>]
Add(items, size, answers) ==
    LET batches == Chunks(items, size)
    IN  FoldLeft(LAMBDA acc, b : AddBatch(acc, batches[b], answers[b]), NothingAdded, [b \in DOMAIN batches |-> b])
\* requireAdTarget, of every advertisement before the first request; client, before any: a
\* dry run that comes here is a bug of the caller.
LacksTarget(items, aimless) == ToSet(items) \cap aimless # {}
Create(items, size, dryRun, aimless, answers) ==
    IF items # <<>> /\ (dryRun \/ LacksTarget(items, aimless))
    THEN [NothingAdded EXCEPT !.outcome = "not-created"] ELSE Add(items, size, answers)

\* createOneCampaign gives its key back after "not-created", and only a key that
\* was given back lets another attempt through.  The campaigns that come of two attempts.
CampaignsOf(first, second) ==
    LET once == Request("yandex", TRUE, first, Len(first))
        again == Request("yandex", TRUE, second, Len(second))
    IN  once.applied + (IF once.outcome # Ok /\ CreateOutcome(once.outcome) = "not-created"
                        THEN again.applied ELSE 0)

\* addCampaignNegativeKeywords: what is there stays, what is new comes after it once.
AddNegatives(current, phrases) ==
    current \o SelectSeq(FoldLeft(LAMBDA acc, p : IF p \in ToSet(acc) THEN acc ELSE Append(acc, p), <<>>, phrases),
                         LAMBDA p : p \notin ToSet(current))

-----------------------------------------------------------------------------
(* Reports of Direct. *)

\* fetchReport: polls are statuses in turn.
FetchReport(polls, maxPolls) ==
    LET seen == SubSeq(polls, 1, Min({maxPolls, Len(polls)}))
        over == {i \in DOMAIN seen : seen[i] \notin {"created", "queued"}}
    IN  IF over = {} THEN "timeout" ELSE seen[Min(over)]

\* splitTsvLine: a field is quoted if it begins with a quote; a quote in it is doubled.
Tab == "tab"
Quote == "quote"
EndField(acc) == [acc EXCEPT !.fields = Append(@, acc.current), !.current = <<>>]
TsvChar(acc, line, i) ==
    LET ch == line[i]
        doubled == i < Len(line) /\ line[IF i < Len(line) THEN i + 1 ELSE i] = Quote
    IN  IF acc.skip THEN [acc EXCEPT !.skip = FALSE]
        ELSE IF acc.quoted THEN
            IF ch = Quote
            THEN IF doubled THEN [acc EXCEPT !.current = Append(@, Quote), !.skip = TRUE]
                 ELSE [acc EXCEPT !.quoted = FALSE]
            ELSE [acc EXCEPT !.current = Append(@, ch)]
        ELSE IF ch = Quote /\ acc.current = <<>> THEN [acc EXCEPT !.quoted = TRUE]
        ELSE IF ch = Tab THEN EndField(acc)
        ELSE [acc EXCEPT !.current = Append(@, ch)]
SplitTsvLine(line) ==
    EndField(FoldLeft(LAMBDA acc, i : TsvChar(acc, line, i),
                      [fields |-> <<>>, current |-> <<>>, quoted |-> FALSE, skip |-> FALSE],
                      [i \in DOMAIN line |-> i])).fields
\* parseReportTsv: a row that is short has empty columns.
ParseRow(headers, line) ==
    LET values == SplitTsvLine(line)
    IN  [c \in DOMAIN headers |-> IF c \in DOMAIN values THEN values[c] ELSE <<>>]

-----------------------------------------------------------------------------
(***************************************************************************)
(* Properties, of all inputs of a run.                                     *)
(***************************************************************************)

\* However the answers of the platform come, no write that must not be repeated is done
\* twice by the retries: a refused one is asked again, one whose fate is unknown is not.
WrittenOnceAtMost(platform, answers, attempts) ==
    Request(platform, TRUE, answers, attempts).applied <= 1

\* A list of any length is read whole and in order, whatever the size of the pages; a
\* list that does not fit into the pages is never taken for a whole one by Metrika.
ListsAreWhole(cabinet, limit, cap) ==
    LET pages == Len(cabinet) + 1
        small == GetGoalConversions(cabinet, limit, 2)
    IN  /\ ListEntities(cabinet, limit, cap, pages) = cabinet
        /\ GetPaged(cabinet, limit, pages) = cabinet
        /\ small.failed \/ small.list = cabinet
        /\ ListByParent(cabinet, limit, [c \in Range(cabinet) |-> <<c>>]) = cabinet

\* What VK changed is told: a plain error means that no batch before it was taken, and
\* after a partial one an object is either known to be changed or rejected, or among
\* those still to be done - with the batch whose fate is unknown among them.
PartialIsTold(ids, size, answers) ==
    LET made == MassUpdate(ids, size, answers)
        failedAt == {b \in DOMAIN Chunks(ids, size) : answers[b].error}
        certain == IF failedAt = {} THEN ToSet(ids)
                   ELSE ToSet(SubSeq(ids, 1, (Min(failedAt) - 1) * size))
        rejected == UNION {answers[b].rejected \cap ToSet(Chunks(ids, size)[b]) : b \in DOMAIN Chunks(ids, size)}
    IN  /\ made.told = Ok <=> failedAt = {}
        /\ made.told = "error" => certain = {}
        /\ made.told # "error" => /\ made.updated = certain \ rejected
                                  /\ made.failed = certain \cap rejected
                                  /\ made.pending = ToSet(ids) \ certain
        /\ UploadContacts(ids, size, answers).uploaded = Cardinality(made.updated)

\* An advertisement that is shown stays shown through the change of its text; two that
\* are shown at once are never told as a success.
TextIsShown(create, madeAnew, deleted, stopped) ==
    LET made == UpdateAdText(TRUE, create, madeAnew, deleted, stopped)
    IN  (create = Ok => madeAnew) => /\ made.old \/ made.new
                                     /\ made.told = Ok => made.new /\ ~made.old

\* The objects Direct rejected are named by their places in the whole write.
RejectedAreNamed(ids, size, rejected) ==
    LET made == RunBatched(ids, size, [b \in DOMAIN Chunks(ids, size) |-> [error |-> FALSE, rejected |-> rejected]])
    IN  /\ {ids[i] : i \in ToSet(made.failed)} = ToSet(ids) \cap rejected
        /\ ToSet(made.succeeded) = ToSet(ids) \ rejected

\* A creation that is told as done is whole and in the order of the plan, by which the
\* caller pairs the groups; an advertisement without an address costs no request; and of
\* a creation in one request - a campaign is one - "not-created" is true.
CreationIsTold(items, size, dryRun, aimless, answers) ==
    LET made == Create(items, size, dryRun, aimless, answers)
    IN  /\ made.outcome = Ok => made.ids = items /\ made.exists = items
        /\ dryRun \/ LacksTarget(items, aimless) => made.exists = <<>>
        /\ Len(items) <= size /\ made.outcome = "not-created" => made.exists = <<>>

\* toNumericId, requireIds: "not-created" - nothing has appeared in the cabinet.  NOT so of
\* a creation in several requests, whose second was refused; apply.ts asks only of campaigns.
NotCreatedIsNothing(items, size, answers) ==
    LET made == Create(items, size, FALSE, {}, answers)
    IN  made.outcome = "not-created" => made.exists = <<>>

\* The retries of a request and the second attempt at a campaign that was not created make
\* one campaign together at the most, however the answers come.
OneCampaign(first, second) == CampaignsOf(first, second) <= 1

\* Requests that come at once go out one after another: with the spacing of the limit
\* between them, or, when VK said that a window is used up, at the beginning of the next.
RequestsArePaced(arrivals, spacing, maxWait) ==
    LET sent == SentAt(arrivals, spacing, maxWait)
    IN  \A i \in DOMAIN sent :
            IF sent[i].exhausted > 0 THEN sent[i].at % sent[i].exhausted = 0
            ELSE i > 1 => sent[i].at - sent[i - 1].at >= spacing

\* A line that was put together by the platform's rules is taken apart into the same fields.
Quoted(field) == <<Quote>> \o FlattenSeq([i \in DOMAIN field |->
                     IF field[i] = Quote THEN <<Quote, Quote>> ELSE <<field[i]>>]) \o <<Quote>>
NeedsQuotes(field) == Tab \in ToSet(field) \/ (field # <<>> /\ Head(field) = Quote)
Written(fields) ==
    LET parts == [i \in DOMAIN fields |-> IF NeedsQuotes(fields[i]) THEN Quoted(fields[i]) ELSE fields[i]]
    IN  FoldLeft(LAMBDA line, i : line \o (IF i = 1 THEN <<>> ELSE <<Tab>>) \o parts[i], <<>>,
                 [i \in DOMAIN fields |-> i])
RowsKeepColumns(fields) == SplitTsvLine(Written(fields)) = fields
=============================================================================
