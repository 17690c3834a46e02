------------------------------ MODULE Reports ------------------------------
(***************************************************************************)
(* The daily and the weekly report of every active client                  *)
(* (src/src/reporter).  A job of the queue walks the clients: it looks the  *)
(* report of the period up, builds and stores it when there is none, sends  *)
(* the stored text and marks it sent.  What fails is written to ErrorLog,   *)
(* which the alert scan reads (module Alerts).                             *)
(*                                                                         *)
(* Of a text only its edition is kept: statistics are finished late, so a   *)
(* report built anew reads differently.  A crash makes the queue hand the   *)
(* job out again; a job that ends is not handed out again.                 *)
(***************************************************************************)
EXTENDS ErrorLog, Sequences

CONSTANTS Recipients,    \* the active clients, in the order of their names
          Kinds,         \* daily, weekly
          Length         \* ticks of the clock between two jobs of a kind

VARIABLES
  due,        \* kinds whose job waits in the queue
  job,        \* the run of each kind
  report,     \* the Report rows, by client, kind and period
  (*  history  *)
  editions,   \* how often a report was built
  letters,    \* the editions the client received, in order
  doubtful    \* reports whose delivery, mark or failure is not known

reportVars == <<due, job, report, editions, letters, doubtful>>
Clients == {Recipients[i] : i \in DOMAIN Recipients}

\* Without an active client there is nothing to report.
ASSUME ReportsAssumption ==
    /\ Recipients \in Seq(Clients) \ {<<>>}
    /\ Kinds \subseteq {"daily", "weekly"}
    /\ Length \in [Kinds -> Nat \ {0}]
    /\ LastTick \in Nat
    /\ MaxFaults \in Nat

\* yesterdayPeriod, lastWeekPeriod: what a run started in this tick is about.
PeriodOf(k) == clock \div Length[k]
Reviews == {"none", "ok", "failed", "skipped"}
Unread == [edition |-> 0, review |-> "none"]
Idle == [at |-> "idle", period |-> 0, todo |-> <<>>, text |-> Unread, code |-> "none"]
Keys == Clients \X Kinds \X (0 .. LastTick)
Current(k) == <<Head(job[k].todo), k, job[k].period>>
Held(f, key) == IF key \in DOMAIN f THEN f[key] ELSE 0
Extend(f, key, v) == [x \in DOMAIN f \cup {key} |-> IF x = key THEN v ELSE f[x]]

\* Every variable has its type, and a run that sends holds the stored text.
ReportsTypeOK ==
    /\ due \subseteq Kinds
    /\ DOMAIN job = Kinds /\ DOMAIN report \subseteq Keys
    /\ \A key \in DOMAIN report :
          /\ report[key].edition \in 1 .. editions[key]
          /\ report[key].review \in Reviews
          /\ report[key].sent \in BOOLEAN
    /\ \A k \in Kinds :
          /\ job[k].at \in {"idle", "find", "build", "send", "mark", "failed"}
          /\ job[k].at = "idle" => job[k] = Idle
          /\ job[k].at # "idle" => job[k].todo # <<>>
          /\ job[k].at \in {"send", "mark"} =>
                /\ Current(k) \in DOMAIN report
                /\ job[k].text.edition = report[Current(k)].edition
    /\ DOMAIN letters \subseteq DOMAIN report

ReportsInit ==
    /\ due = Kinds
    /\ job = [k \in Kinds |-> Idle]
    /\ report = <<>>
    /\ editions = <<>>
    /\ letters = <<>>
    /\ doubtful = {}


\* The run goes on with the next client, or ends.
Advance(k) == [Idle EXCEPT !.at = "find", !.period = job[k].period, !.todo = Tail(job[k].todo)]
NextUnlessFailed(k) == IF Len(job[k].todo) = 1 \/ job[k].at = "failed" THEN Idle ELSE Advance(k)
NextWithoutEnd(k) == Advance(k)
NextClient(k) == IF Len(job[k].todo) = 1 THEN Idle ELSE Advance(k)
Continue(k) == job' = [job EXCEPT ![k] = NextClient(k)]
Goto(k, at) == job' = [job EXCEPT ![k].at = at]
Throw(k, code) == job' = [job EXCEPT ![k].at = "failed", ![k].code = code]

-----------------------------------------------------------------------------

StartRun(k) ==
    /\ job[k].at = "idle" /\ k \in due
    /\ due' = due \ {k}
    /\ job' = [job EXCEPT ![k] = [Idle EXCEPT !.at = "find", !.period = PeriodOf(k),
                                             !.todo = Recipients]]
    /\ UNCHANGED <<clock, log, report, editions, letters, doubtful, faults>>

\* A report that was not sent is sent as it stands.
ReusableNever(row) == FALSE
Reusable(row) == ~row.sent

FindReport(k) ==
    /\ job[k].at = "find"
    /\ LET key == Current(k)
           text == [edition |-> report[key].edition, review |-> report[key].review]
       IN  IF key \notin DOMAIN report THEN Goto(k, "build")
           ELSE IF report[key].sent THEN Continue(k)
           ELSE IF Reusable(report[key])
                THEN job' = [job EXCEPT ![k].at = "send", ![k].text = text]
                ELSE Goto(k, "build")
    /\ UNCHANGED <<clock, log, due, report, editions, letters, doubtful, faults>>

\* A week without data is not shown to the model; a model that fails costs the
\* report its review only.  The upsert leaves sentAt alone.
BuildReport(k) ==
    /\ job[k].at = "build"
    /\ LET key == Current(k)
           edition == Held(editions, key) + 1
       IN  \E review \in IF k = "weekly" THEN Reviews \ {"none"} ELSE {"none"} :
              /\ editions' = Extend(editions, key, edition)
              /\ report' = Extend(report, key,
                              [edition |-> edition, review |-> review,
                               sent |-> key \in DOMAIN report /\ report[key].sent])
              /\ job' = [job EXCEPT ![k].at = "send",
                            ![k].text = [edition |-> edition, review |-> review]]
    /\ UNCHANGED <<clock, log, due, letters, doubtful, faults>>

\* Statistics or database fail: nothing is stored, or nothing is found out.
FailToBuild(k) ==
    /\ job[k].at \in {"find", "build"}
    /\ Fault
    /\ Throw(k, "REPORT_FAILED")
    /\ UNCHANGED <<clock, log, due, report, editions, letters, doubtful>>

Received(key, n, edition) ==
    letters' = Extend(letters, key, (IF key \in DOMAIN letters THEN letters[key] ELSE <<>>)
                                    \o [i \in 1 .. n |-> edition])

SendReport(k) ==
    /\ job[k].at = "send"
    /\ Received(Current(k), 1, job[k].text.edition)
    /\ Goto(k, "mark")
    /\ UNCHANGED <<clock, log, due, report, editions, doubtful, faults>>

\* The reply is lost (and autoRetry may have sent the text again), or nothing arrived.
SendFails(k) ==
    /\ job[k].at = "send"
    /\ Fault
    /\ \/ \E again \in {TRUE, FALSE} :
             /\ Received(Current(k), IF again THEN 2 ELSE 1, job[k].text.edition)
             /\ doubtful' = doubtful \cup {Current(k)}
             /\ IF again THEN Goto(k, "mark") ELSE Throw(k, "REPORT_DELIVERY_FAILED")
       \/ Throw(k, "REPORT_DELIVERY_FAILED") /\ UNCHANGED <<letters, doubtful>>
    /\ UNCHANGED <<clock, log, due, report, editions>>

MarkReportSent(k) ==
    /\ job[k].at = "mark"
    /\ report' = [report EXCEPT ![Current(k)].sent = TRUE]
    /\ Continue(k)
    /\ UNCHANGED <<clock, log, due, editions, letters, doubtful, faults>>

MarkFails(k) ==
    /\ job[k].at = "mark"
    /\ Fault
    /\ doubtful' = doubtful \cup {Current(k)}
    /\ Throw(k, "REPORT_FAILED")
    /\ UNCHANGED <<clock, log, due, report, editions, letters>>

\* recordFailure; a row that cannot be written is only logged.
RecordFailure(k) ==
    /\ job[k].at = "failed"
    /\ \/ /\ log' = log \cup {Row(Head(job[k].todo), job[k].code, k)}
          /\ UNCHANGED <<faults, doubtful>>
       \/ Fault /\ doubtful' = doubtful \cup {Current(k)} /\ UNCHANGED log
    /\ Continue(k)
    /\ UNCHANGED <<clock, due, report, editions, letters>>

\* The process dies; the queue finds the job stalled and hands it out again.
CrashRun(k) ==
    /\ job[k].at # "idle"
    /\ Fault
    /\ doubtful' = IF job[k].at = "mark" THEN doubtful \cup {Current(k)} ELSE doubtful
    /\ job' = [job EXCEPT ![k] = Idle]
    /\ due' = due \cup {k}
    /\ UNCHANGED <<clock, log, report, editions, letters>>

ReportsNext ==
    \E k \in Kinds :
        \/ StartRun(k) \/ FindReport(k) \/ BuildReport(k) \/ FailToBuild(k)
        \/ SendReport(k) \/ SendFails(k) \/ MarkReportSent(k) \/ MarkFails(k)
        \/ RecordFailure(k) \/ CrashRun(k)

\* The jobs of a day are through before the next are due (the queue retries at once).
RunsDone == \A k \in Kinds : job[k].at = "idle" /\ k \notin due
DueAt(t) == {k \in Kinds : t % Length[k] = 0}

-----------------------------------------------------------------------------
(***************************************************************************)
(* What a client may rely on.                                              *)
(***************************************************************************)

\* A client is sent the report of a period once, unless the process died or was
\* misled between sending and marking; and then it is the same text again,
\* although the figures have moved since.
OneText ==
    \A key \in DOMAIN letters :
        /\ \A i, j \in DOMAIN letters[key] : letters[key][i] = letters[key][j]
        /\ Len(letters[key]) > 1 => key \in doubtful

\* No client's trouble is another's: whatever fails, when the run of a period has
\* ended every client's report is marked sent, or ErrorLog says that it failed.
Answered ==
    \A k \in Kinds, c \in Clients : \A p \in 0 .. clock \div Length[k] :
        LET key == <<c, k, p>>
        IN  (clock \div Length[k] > p \/ RunsDone) =>
              \/ key \in DOMAIN report /\ report[key].sent
              \/ key \in doubtful
              \/ \E r \in log : r.client = c /\ r.stage = k /\ r.at \div Length[k] = p

\* What the alert and the code of the failure promise: the text is stored, and
\* the next run sends it.
NextRunSends ==
    \A k \in Kinds, c \in Clients : \A p \in 1 .. LastTick :
        LET last == <<c, k, p - 1>>
        IN  /\ <<c, k, p>> \in DOMAIN report /\ report[<<c, k, p>>].sent
            /\ last \in DOMAIN report \ doubtful
            => report[last].sent
=============================================================================
