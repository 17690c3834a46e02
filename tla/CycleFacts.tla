------------------------------ MODULE CycleFacts -----------------------------
(***************************************************************************)
(* How often a cron runs (src/src/scheduler: schedule.ts, queues.ts), what   *)
(* history of it Redis keeps, and the verdict of the acceptance over that   *)
(* history (src/src/acceptance: spec.ts, collect.ts, cycle.ts).             *)
(*                                                                         *)
(* A field of a cron expression is a set of parts [star, from, to, step].    *)
(***************************************************************************)
EXTENDS Integers, Sequences, SequencesExt, FiniteSetsExt

CONSTANTS HourMinutes, DayMinutes,
          HistoryDays,  \* HISTORY_DAYS
          MinRetained,  \* MIN_RETAINED
          FailedKept,   \* removeOnFail.count
          Slack         \* what readQueueHistory takes beyond the window

WeekDays == 7

-----------------------------------------------------------------------------
(* The period of a cron. *)

\* expandField: the values of a field; none if a part of it is not understood.
ExpandField(field, least, most) ==
    LET from(p) == IF p.star THEN least ELSE p.from
        to(p) == IF p.star THEN most ELSE p.to
        understood(p) == p.step >= 1 /\ least <= from(p) /\ from(p) <= to(p) /\ to(p) <= most
    IN  IF \E p \in field : ~understood(p) THEN {}
        ELSE UNION {{v \in from(p) .. to(p) : (v - from(p)) % p.step = 0} : p \in field}

\* Four years from 2024-01-01, and the three days after them: [month, date, day].
MonthLengths(leap) == <<31, IF leap THEN 29 ELSE 28, 31, 30, 31, 30, 31, 31, 30, 31, 30, 31>>
YearOf(leap) == FlattenSeq([m \in 1 .. 12 |->
                    [d \in 1 .. MonthLengths(leap)[m] |-> [month |-> m, date |-> d]]])
Calendar ==
    LET dates == YearOf(TRUE) \o YearOf(FALSE) \o YearOf(FALSE) \o YearOf(FALSE) \o SubSeq(YearOf(TRUE), 1, 3)
    IN  [i \in DOMAIN dates |-> [month |-> dates[i].month, date |-> dates[i].date, day |-> i % WeekDays]]

Restricted(field) == ~\E p \in field : field = {p} /\ p.star /\ p.step = 1
Matches(expr, d) ==
    LET byDate == d.date \in ExpandField(expr.dom, 1, 31)
        byDay == d.day \in {day % WeekDays : day \in ExpandField(expr.dow, 0, 7)}
    IN  /\ d.month \in ExpandField(expr.month, 1, 12)
        /\ IF Restricted(expr.dom) /\ Restricted(expr.dow) THEN byDate \/ byDay
           ELSE (Restricted(expr.dom) => byDate) /\ (Restricted(expr.dow) => byDay)

\* The longest way from a member of a set to the next one.
After(S, x) == {y \in S : y > x}
LongestStep(S) == Max({0} \cup {Min(After(S, x)) - x : x \in {x \in S : After(S, x) # {}}})

\* maxDayGap: a week by its days, anything with dates or months by the calendar; 0 if
\* the fields are not understood or no day matches.
DayGap(expr) ==
    LET week == {day % WeekDays : day \in ExpandField(expr.dow, 0, 7)}
        days == {i \in DOMAIN Calendar : Matches(expr, Calendar[i])}
        unread == \/ ExpandField(expr.dom, 1, 31) = {}
                  \/ ExpandField(expr.month, 1, 12) = {}
                  \/ ExpandField(expr.dow, 0, 7) = {}
    IN  IF ~Restricted(expr.dom) /\ ~Restricted(expr.month) /\ ~Restricted(expr.dow) THEN 1
        ELSE IF unread THEN 0
        ELSE IF ~Restricted(expr.dom) /\ ~Restricted(expr.month)
             THEN Max({LongestStep(week), Min(week) + WeekDays - Max(week)})
        ELSE IF days = {} THEN 0
        ELSE IF Cardinality(days) = 1 THEN Len(Calendar) ELSE LongestStep(days)

Times(expr) == {h * HourMinutes + m : h \in ExpandField(expr.hour, 0, (DayMinutes \div HourMinutes) - 1),
                                      m \in ExpandField(expr.minute, 0, HourMinutes - 1)}
WithinDay(expr) == IF Times(expr) = {} THEN HourMinutes ELSE LongestStep(Times(expr))
\* cronIntervalMinutes
CronInterval(expr) ==
    IF Times(expr) = {} \/ DayGap(expr) = 0 THEN HourMinutes
    ELSE Max({LongestStep(Times(expr)),
              DayMinutes - Max(Times(expr)) + Min(Times(expr)) + (DayGap(expr) - 1) * DayMinutes})

-----------------------------------------------------------------------------
(* What is kept, and what is read of it.  A run is [at, state, skipped, idle, bad]: *)
(* the minute it was put into the queue, and what its handler returned.            *)

\* What they ask of a cron.
Timetable(expr) == [interval |-> CronInterval(expr), times |-> Times(expr)]
\* jobOptionsFor: as many finished runs as the days of history have.
PerDay(job) == (DayMinutes + job.interval - 1) \div job.interval
Kept(job) == Max({MinRetained, PerDay(job) * HistoryDays + 2})
LastOf(runs, n) == IF Len(runs) <= n THEN runs ELSE SubSeq(runs, Len(runs) - n + 1, Len(runs))
Completed(run) == run.state = "completed"
Failed(run) == run.state = "failed"
Retained(job, runs, now) ==
    [completed |-> LastOf(SelectSeq(runs, LAMBDA r : Completed(r) /\ r.at >= now - HistoryDays * DayMinutes),
                          Kept(job)),
     failed |-> LastOf(SelectSeq(runs, Failed), FailedKept)]

CycleQueues(schedule) == {q \in DOMAIN schedule : schedule[q].interval <= DayMinutes}
ExpectedRuns(job) == DayMinutes \div job.interval

\* readQueueHistory: the latest runs, enough for the window and a day beside it.
WindowOnly(job, days) == ExpectedRuns(job) * days + Slack
Limit(job, days) == ExpectedRuns(job) * (days + 1) + Slack
ReadHistory(job, kept, from, days) ==
    LET runs == LastOf(kept.completed, Limit(job, days)) \o LastOf(kept.failed, Limit(job, days))
    IN  [runs |-> SelectSeq(runs, LAMBDA r : r.at >= from),
         oldest |-> {r.at : r \in ToSet(runs)}]
SliceDay(history, from) ==
    [history EXCEPT !.runs = SelectSeq(@, LAMBDA r : r.at >= from /\ r.at < from + DayMinutes)]

-----------------------------------------------------------------------------
(* The verdict.  Evidence is [db, queues]; schedule has the timetable of every queue. *)

BaseReady(db) == db.clients > 0 /\ db.credentials > 0 /\ db.campaigns > 0
\* One queue that remembers the day before knows for all of them.
Knowable(queues, from) == \E q \in DOMAIN queues : \E at \in queues[q].oldest : at <= from

JudgeFinished(job, history, knowable, ready) ==
    IF Len(history.runs) < ExpectedRuns(job) THEN (IF knowable THEN "fail" ELSE "unknown") ELSE "pass"
\* A run that was put off, failed or had nothing to work on is no run.
JudgeQueue(job, history, knowable, ready) ==
    LET done == SelectSeq(history.runs, LAMBDA r : Completed(r) /\ ~r.skipped)
        OrUnknown(can) == IF can THEN "fail" ELSE "unknown"
    IN  IF ~history.scheduled THEN OrUnknown(knowable)
        ELSE IF \E r \in ToSet(history.runs) : Failed(r) THEN "fail"
        ELSE IF Len(done) < ExpectedRuns(job) THEN OrUnknown(knowable)
        ELSE IF \E r \in ToSet(done) : r.bad THEN "fail"
        ELSE IF \A r \in ToSet(done) : r.idle THEN OrUnknown(ready)
        ELSE "pass"

DbChecks(db) ==
    {IF db.clients > 0 /\ db.credentials > 0 THEN "pass" ELSE "unknown",
     IF db.campaigns > 0 THEN "pass" ELSE "unknown",
     IF db.errors = 0 /\ db.manual = 0 /\ db.applyFailed = 0 THEN "pass" ELSE "fail",
     IF db.reports > 0 THEN "pass" ELSE IF BaseReady(db) THEN "fail" ELSE "unknown"}
RollUp(checks) == IF "fail" \in checks THEN "failed" ELSE IF "unknown" \in checks THEN "no-data" ELSE "passed"
JudgeDay(schedule, queues, db, from) ==
    RollUp(DbChecks(db) \cup {JudgeQueue(schedule[q], SliceDay(queues[q], from), Knowable(queues, from), BaseReady(db))
                              : q \in DOMAIN queues})

\* collectCycleEvidence and judgeCycle: the days of the window, the first one at `from`.
JudgeDays(schedule, runs, scheduled, db, from, days, now) ==
    LET read(q) == ReadHistory(schedule[q], Retained(schedule[q], runs[q], now), from, days)
        queues == [q \in CycleQueues(schedule) |->
                     [runs |-> read(q).runs, oldest |-> read(q).oldest, scheduled |-> q \in scheduled]]
    IN  [d \in 1 .. days |-> JudgeDay(schedule, queues, db, from + (d - 1) * DayMinutes)]
JudgeCycle(verdicts, required) ==
    LET passed == Cardinality({d \in DOMAIN verdicts : verdicts[d] = "passed"})
    IN  IF "failed" \in ToSet(verdicts) THEN "failed" ELSE IF passed >= required THEN "passed" ELSE "no-data"

-----------------------------------------------------------------------------
(* What these promise. *)

\* No two runs of a cron that follow each other are farther apart than its period, and
\* some are as far: what is derived from it (the depth of a scan, the life of a claim)
\* leaves no gap between two runs and is no longer than it must be.
PeriodIsLongestGap(expr) ==
    LET days == {i \in DOMAIN Calendar : Matches(expr, Calendar[i])}
        firings == {i * DayMinutes + t : i \in days, t \in Times(expr)}
    IN  Cardinality(firings) > 1 => CronInterval(expr) = LongestStep(firings)

\* A run that did its work, at every time the cron has in the day from `from` on.
Works(r) == Completed(r) /\ ~r.skipped /\ ~r.idle /\ ~r.bad
TicksOf(job, from) == {from + t : t \in job.times}
DayWorked(schedule, runs, from) ==
    \A q \in CycleQueues(schedule) :
        TicksOf(schedule[q], from) \subseteq {r.at : r \in {r \in ToSet(runs[q]) : Works(r)}}
DayMissed(schedule, runs, from) ==
    \E q \in CycleQueues(schedule) : \E at \in TicksOf(schedule[q], from) :
        \A r \in ToSet(runs[q]) : r.at = at => Failed(r) \/ r.skipped

Quiet(db) == BaseReady(db) /\ db.errors = 0 /\ db.manual = 0 /\ db.applyFailed = 0 /\ db.reports > 0
\* In the window that ends with yesterday a day all of whose runs did their work passes,
\* and a day on which one of them did not is never taken for a passed one; so the
\* verdict of the window is as good as its days.
VerdictIsFounded(schedule, runs, db, days, today, now) ==
    LET from == today - days * DayMinutes
        verdicts == JudgeDays(schedule, runs, DOMAIN schedule, db, from, days, now)
        start(d) == from + (d - 1) * DayMinutes
    IN  \A d \in 1 .. days :
            /\ Quiet(db) /\ DayWorked(schedule, runs, start(d)) => verdicts[d] = "passed"
            /\ DayMissed(schedule, runs, start(d)) =>
                   verdicts[d] # "passed" /\ JudgeCycle(verdicts, days) # "passed"

\* A past day that is asked for by name is shown as it was for as long as the history in
\* Redis reaches it (docs/ACCEPTANCE.md:209): not true, the depth that is read is counted
\* back from now, not from that day.
PastDayIsShown(schedule, runs, db, day, now) ==
    (/\ Quiet(db) /\ DayWorked(schedule, runs, day)
     /\ \A q \in CycleQueues(schedule) :
            LET kept == {r.at : r \in ToSet(Retained(schedule[q], runs[q], now).completed)}
            IN  TicksOf(schedule[q], day) \subseteq kept)
        => JudgeDays(schedule, runs, DOMAIN schedule, db, day, 1, now)[1] = "passed"
=============================================================================
