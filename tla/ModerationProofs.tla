-------------------------- MODULE ModerationProofs --------------------------
(***************************************************************************)
(* What holds of Moderation for any number of runs, syncs, ads, banners,   *)
(* attempts and faults: type correctness; while no sync writes the rows,   *)
(* that an ad has one rewriter and that every text sent is counted; while  *)
(* no two runs overlap, that a stuck ad is handed over once and that no    *)
(* banner is lost.                                                         *)
(***************************************************************************)
EXTENDS Moderation, TLAPS

\* A run that repairs has a repair left, and an ad it rewrites or could not rewrite
\* has an attempt left.
Spending(w) == pc[w] \notin {"idle", "locals", "list", "work", "archive"}

Attempting(l, j) ==
    \/ l \in {"rewrite", "claim"} \cup Claimed
    \/ l \in {"check", "deliver", "log", "park"} /\ ~HandsOver(j)

Budgeted ==
    \A w \in Runs :
        /\ Spending(w) => left[w] >= 1
        /\ Attempting(pc[w], job[w]) => job[w].retries < MaxRetries

RunsInv == RunsOK /\ Budgeted

TypeInv == RowsOK /\ PlatformOK /\ RunsInv /\ SyncsOK

-----------------------------------------------------------------------------
(* The parts of TypeInv under the steps the actions are built from. *)

LEMMA RowsSame == ASSUME RowsOK, UNCHANGED <<rowVars, tableVars>> PROVE RowsOK'
  BY DEF RowsOK, rowVars, tableVars

LEMMA PlatformSame == ASSUME PlatformOK, UNCHANGED <<platformVars, historyVars, faults>> PROVE PlatformOK'
  BY DEF PlatformOK, platformVars, historyVars

LEMMA RunsSame == ASSUME RunsInv, UNCHANGED runVars PROVE RunsInv'
  BY DEF RunsInv, RunsOK, Budgeted, Spending, Attempting, HandsOver, runVars, pollVars

LEMMA SyncsSame == ASSUME SyncsOK, UNCHANGED syncVars PROVE SyncsOK'
  BY DEF SyncsOK, syncVars

LEMMA FaultOK == ASSUME faults \in Nat, Fault PROVE faults' \in Nat
  BY DEF Fault

LEMMA ProceedOK ==
    ASSUME RunsInv, NEW w \in Runs, NEW l \in Awaits, NEW j \in Jobs, left[w] >= 1,
           Attempting(l, j) => j.retries < MaxRetries,
           Proceed(w, l, j)
    PROVE  RunsInv'
<1>1. RunsOK'
  BY DEF RunsInv, RunsOK, Proceed, pollVars
<1>2. Budgeted'
  <2> SUFFICES ASSUME NEW v \in Runs
               PROVE  /\ Spending(v)' => left'[v] >= 1
                      /\ Attempting(pc'[v], job'[v]) => job'[v].retries < MaxRetries
    BY DEF Budgeted
  <2>1. CASE v = w
    BY <2>1 DEF RunsInv, RunsOK, Proceed
  <2>2. CASE v # w
    BY <2>2 DEF RunsInv, RunsOK, Budgeted, Spending, Proceed
  <2> QED BY <2>1, <2>2
<1> QED BY <1>1, <1>2 DEF RunsInv

LEMMA DoneOK ==
    ASSUME RunsInv, NEW w \in Runs, NEW cost \in {0, 1}, left[w] >= cost, Done(w, cost)
    PROVE  RunsInv'
<1> USE ModerationAssumption
<1>1. left' \in [Runs -> 0 .. MaxRepairs]
  BY DEF RunsInv, RunsOK, Done
<1>2. RunsOK'
  BY <1>1 DEF RunsInv, RunsOK, Done, pollVars, Awaits
<1>3. Budgeted'
  <2> SUFFICES ASSUME NEW v \in Runs
               PROVE  /\ Spending(v)' => left'[v] >= 1
                      /\ Attempting(pc'[v], job'[v]) => job'[v].retries < MaxRetries
    BY DEF Budgeted
  <2>1. CASE v = w
    BY <2>1 DEF RunsInv, RunsOK, Done, Spending, Attempting, Claimed
  <2>2. CASE v # w
    BY <2>2 DEF RunsInv, RunsOK, Budgeted, Spending, Done
  <2> QED BY <2>1, <2>2
<1> QED BY <1>2, <1>3 DEF RunsInv

LEMMA EndRunOK ==
    ASSUME RunsInv, NEW w \in Runs, EndRun(w)
    PROVE  RunsInv'
<1> USE ModerationAssumption
<1>1. RunsOK'
  BY DEF RunsInv, RunsOK, EndRun, Awaits
<1>2. Budgeted'
  <2> SUFFICES ASSUME NEW v \in Runs
               PROVE  /\ Spending(v)' => left'[v] >= 1
                      /\ Attempting(pc'[v], job'[v]) => job'[v].retries < MaxRetries
    BY DEF Budgeted
  <2>1. CASE v = w
    BY <2>1 DEF RunsInv, RunsOK, EndRun, Spending, Attempting, Claimed
  <2>2. CASE v # w
    BY <2>2 DEF RunsInv, RunsOK, Budgeted, Spending, EndRun
  <2> QED BY <2>1, <2>2
<1> QED BY <1>1, <1>2 DEF RunsInv

-----------------------------------------------------------------------------
(* Type correctness, one lemma per group of actions. *)

LEMMA TypeInit == Init => TypeInv
<1> SUFFICES ASSUME Init PROVE TypeInv
  OBVIOUS
<1> USE ModerationAssumption
<1>1. RowsOK
  BY DEF Init, RowsOK, Rows, Banners, NoBanner, Verdicts
<1>2. PlatformOK
  BY DEF Init, PlatformOK, Rows, Banners, Verdicts
<1>3. RunsInv
  BY DEF Init, RunsInv, RunsOK, Budgeted, Spending, Attempting, Awaits, Claimed
<1>4. SyncsOK
  BY DEF Init, SyncsOK
<1> QED BY <1>1, <1>2, <1>3, <1>4 DEF TypeInv

\* What a run takes out of its snapshot of a row is a job.
LEMMA JobOfType ==
    ASSUME NEW r \in Rows, NEW row \in Snapshots, NEW cause \in {"none", "missing"}
    PROVE  JobOf(r, row, cause) \in Jobs
  BY DEF JobOf, Snapshots, Jobs

LEMMA TypePolling ==
    ASSUME TypeInv, NEW w \in Runs, Polling(w)
    PROVE  TypeInv'
<1> USE DEF TypeInv
<1> USE ModerationAssumption
<1>1. CASE Reclaim(w)
  <2>1. RowsOK'
    BY <1>1 DEF Reclaim, RowsOK, tableVars, Verdicts
  <2>2. RunsOK'
    BY <1>1 DEF Reclaim, RunsInv, RunsOK, pollVars, Awaits
  <2>3. Budgeted'
    BY <1>1 DEF Reclaim, RunsInv, RunsOK, Budgeted, Spending, Attempting, Claimed, HandsOver
  <2> QED BY <1>1, <2>1, <2>2, <2>3, PlatformSame, SyncsSame DEF Reclaim, RunsInv
<1>2. CASE ReadLocals(w)
  <2> DEFINE seen == [r \in Existing |->
          [ext |-> ext[r], active |-> active[r], mod |-> mod[r], retries |-> retries[r]]]
  <2>1. /\ locals' = [locals EXCEPT ![w] = seen]
        /\ pc' = [pc EXCEPT ![w] = "list"]
        /\ UNCHANGED <<updates, missing, rejected, left, job>>
    BY <1>2 DEF ReadLocals
  <2>2. Existing \in SUBSET Rows
    BY DEF Existing
  <2>3. \A r \in Existing : seen[r] \in Snapshots
    BY <2>2 DEF Existing, RowsOK, Snapshots
  <2>4. DOMAIN seen \in SUBSET Rows /\ seen \in [DOMAIN seen -> Snapshots]
    BY <2>2, <2>3
  <2> HIDE DEF seen
  <2>5. RunsOK'
    BY <2>1, <2>4 DEF RunsInv, RunsOK, Awaits
  <2>6. Budgeted'
    BY <2>1 DEF RunsInv, RunsOK, Budgeted, Spending, Attempting, Claimed, HandsOver
  <2> QED BY <1>2, <2>5, <2>6, RowsSame, PlatformSame, SyncsSame DEF ReadLocals, RunsInv
<1>3. CASE List(w)
  <2> DEFINE rows == locals[w]
             met(seen) == {r \in DOMAIN rows : rows[r].ext \in seen /\ rows[r].mod # "REWRITING"}
             written(seen, reworded) == {<<r, verdict[rows[r].ext]>> : r \in reworded \cup
                        {q \in met(seen) : verdict[rows[q].ext] # rows[q].mod}}
             toRepair(seen) == {JobOf(r, rows[r], "none") : r \in
                    {q \in met(seen) : rows[q].active /\ verdict[rows[q].ext] = "REJECTED"}}
  <2>1. PICK seen \in SUBSET listed : \E reworded \in SUBSET met(seen) :
           /\ faults' = faults \/ Fault
           /\ updates' = [updates EXCEPT ![w] = written(seen, reworded)]
           /\ rejected' = [rejected EXCEPT ![w] = toRepair(seen)]
           /\ missing' = [missing EXCEPT ![w] =
                 IF Cardinality(Missing(rows, seen)) > MaxMissing THEN {} ELSE Missing(rows, seen)]
    BY <1>3 DEF List
  <2>2. PICK reworded \in SUBSET met(seen) :
           /\ faults' = faults \/ Fault
           /\ updates' = [updates EXCEPT ![w] = written(seen, reworded)]
           /\ rejected' = [rejected EXCEPT ![w] = toRepair(seen)]
           /\ missing' = [missing EXCEPT ![w] =
                 IF Cardinality(Missing(rows, seen)) > MaxMissing THEN {} ELSE Missing(rows, seen)]
    BY <2>1
  <2>3. DOMAIN rows \in SUBSET Rows /\ \A r \in DOMAIN rows : rows[r] \in Snapshots
    BY DEF RunsInv, RunsOK
  <2>4. \A b \in listed : verdict[b] \in Verdicts
    BY DEF PlatformOK, Banners
  <2>5. written(seen, reworded) \in SUBSET (Rows \X Verdicts)
    BY <2>3, <2>4
  <2>6. toRepair(seen) \in SUBSET Jobs
    BY <2>3, JobOfType
  <2>7. Missing(rows, seen) \in SUBSET Jobs
    <3> HIDE DEF rows
    <3> QED BY <2>3, JobOfType DEF Missing
  <2>8. /\ locals' = [locals EXCEPT ![w] = <<>>]
        /\ pc' = [pc EXCEPT ![w] = "work"]
        /\ UNCHANGED <<left, job>>
    BY <1>3 DEF List
  <2> HIDE DEF rows, met, written, toRepair
  <2>9. RunsOK'
    BY <2>2, <2>5, <2>6, <2>7, <2>8 DEF RunsInv, RunsOK, Awaits
  <2>10. Budgeted'
    BY <2>8 DEF RunsInv, RunsOK, Budgeted, Spending, Attempting, Claimed, HandsOver
  <2>11. PlatformOK'
    BY <1>3, <2>2, FaultOK DEF List, PlatformOK, platformVars, historyVars
  <2> QED BY <1>3, <2>9, <2>10, <2>11, RowsSame, SyncsSame DEF List, RunsInv
<1>4. CASE WriteVerdict(w)
  <2>1. PICK u \in updates[w] :
          /\ updates' = [updates EXCEPT ![w] = @ \ {u}]
          /\ mod' = [mod EXCEPT ![u[1]] = IF mod[u[1]] # "REWRITING" THEN u[2] ELSE @]
          /\ retries' = [retries EXCEPT ![u[1]] =
                IF mod[u[1]] # "REWRITING" /\ u[2] = "APPROVED" THEN 0 ELSE @]
          /\ sent' = [sent EXCEPT ![u[1]] =
                IF mod[u[1]] # "REWRITING" /\ u[2] = "APPROVED" THEN 0 ELSE @]
          /\ letters' = [letters EXCEPT ![u[1]] =
                IF mod[u[1]] # "REWRITING" /\ u[2] = "APPROVED" THEN 0 ELSE @]
          /\ told' \in {told, told \ {u[1]}}
    BY <1>4 DEF WriteVerdict
  <2>2. u[1] \in Rows /\ u[2] \in Verdicts
    BY DEF RunsInv, RunsOK
  <2>3. UNCHANGED <<ext, active, superseded, stale, tableVars, platformVars, faults>>
    BY <1>4 DEF WriteVerdict
  <2>4. UNCHANGED <<pc, locals, missing, rejected, left, job>>
    BY <1>4 DEF WriteVerdict
  <2>5. RowsOK'
    BY <2>1, <2>2, <2>3 DEF RowsOK, tableVars
  <2>6. PlatformOK'
    BY <2>1, <2>2, <2>3 DEF PlatformOK, platformVars
  <2>7. RunsOK'
    BY <2>1, <2>4 DEF RunsInv, RunsOK
  <2>8. Budgeted'
    BY <2>4 DEF RunsInv, Budgeted, Spending, Attempting, HandsOver
  <2> QED BY <1>4, <2>5, <2>6, <2>7, <2>8, SyncsSame DEF WriteVerdict, RunsInv
<1> QED BY <1>1, <1>2, <1>3, <1>4 DEF Polling

\* The ad at hand of a run that repairs, and what it has left to spend.
LEMMA AtHand ==
    ASSUME TypeInv, NEW w \in Runs, pc[w] \notin {"idle", "locals", "list", "work"}
    PROVE  /\ job[w] \in Jobs
           /\ job[w].row \in Rows
           /\ job[w].ext \in Banners
           /\ job[w].retries \in 0 .. MaxRetries
           /\ job[w].new \in Banners \cup {NoBanner}
           /\ left[w] >= 0
           /\ pc[w] # "archive" => left[w] >= 1
           /\ Attempting(pc[w], job[w]) => job[w].retries < MaxRetries
<1>1. job[w] \in Jobs /\ left[w] >= 0
  BY ModerationAssumption DEF TypeInv, RunsInv, RunsOK
<1>2. /\ pc[w] # "archive" => left[w] >= 1
      /\ Attempting(pc[w], job[w]) => job[w].retries < MaxRetries
  BY DEF TypeInv, RunsInv, Budgeted, Spending
<1> QED BY <1>1, <1>2 DEF Jobs

\* The job the run goes on with, which remembers a replacement or a cause.
LEMMA JobChanged ==
    ASSUME NEW j \in Jobs, NEW new \in Banners \cup {NoBanner},
           NEW cause \in {"none", "exhausted", "unwritable", "failed", "taken", "missing"}
    PROVE  /\ [j EXCEPT !.new = new] \in Jobs
           /\ [j EXCEPT !.cause = cause] \in Jobs
           /\ [[j EXCEPT !.cause = cause] EXCEPT !.new = new] \in Jobs
           /\ [j EXCEPT !.new = new].retries = j.retries
           /\ [j EXCEPT !.cause = cause].retries = j.retries
           /\ [j EXCEPT !.cause = cause].cause = cause
           /\ [[j EXCEPT !.cause = cause] EXCEPT !.new = new].retries = j.retries
  BY DEF Jobs

LEMMA Replacement ==
    ASSUME NEW j \in Jobs, NEW new \in Banners \cup {NoBanner}
    PROVE  [j EXCEPT !.new = new] \in Jobs /\ [j EXCEPT !.new = new].retries = j.retries
  BY DEF Jobs

LEMMA TypeMissing ==
    ASSUME TypeInv, NEW w \in Runs, ReportMissing(w) \/ Archive(w)
    PROVE  TypeInv'
<1> USE DEF TypeInv
<1>1. CASE ReportMissing(w)
  <2>1. PICK j \in missing[w] :
          /\ missing' = [missing EXCEPT ![w] = @ \ {j}]
          /\ pc' = [pc EXCEPT ![w] = "archive"]
          /\ job' = [job EXCEPT ![w] = j]
          /\ told' = told \cup {j.row}
    BY <1>1 DEF ReportMissing
  <2>2. j \in Jobs /\ j.row \in Rows
    BY DEF RunsInv, RunsOK, Jobs
  <2>3. UNCHANGED <<locals, updates, rejected, left>>
    BY <1>1 DEF ReportMissing
  <2>4. RunsOK'
    BY <2>1, <2>2, <2>3 DEF RunsInv, RunsOK, Awaits
  <2>5. Budgeted'
    BY <2>1, <2>3 DEF RunsInv, RunsOK, Budgeted, Spending, Attempting, Claimed, HandsOver
  <2>6. PlatformOK'
    BY <1>1, <2>1, <2>2 DEF ReportMissing, PlatformOK, platformVars
  <2> QED BY <1>1, <2>4, <2>5, <2>6, RowsSame, SyncsSame DEF ReportMissing, RunsInv
<1>2. CASE Archive(w)
  <2>1. RunsInv'
    BY <1>2, DoneOK DEF Archive, RunsInv, RunsOK
  <2>2. RowsOK'
    BY <1>2 DEF Archive, RowsOK, tableVars
  <2> QED BY <1>2, <2>1, <2>2, PlatformSame, SyncsSame DEF Archive
<1> QED BY <1>1, <1>2

LEMMA TypePick ==
    ASSUME TypeInv, NEW w \in Runs, Pick(w)
    PROVE  TypeInv'
<1> USE DEF TypeInv
<1>1. PICK j \in rejected[w] :
        /\ rejected' = [rejected EXCEPT ![w] = @ \ {j}]
        /\ \/ UNCHANGED <<pc, job>>
           \/ /\ pc' = [pc EXCEPT ![w] = "check"]
              /\ job' = [job EXCEPT ![w] = [j EXCEPT !.cause = "exhausted"]]
           \/ /\ j.retries < MaxRetries
              /\ pc' = [pc EXCEPT ![w] = "rewrite"]
              /\ job' = [job EXCEPT ![w] = j]
  BY DEF Pick
<1>2. j \in Jobs /\ [j EXCEPT !.cause = "exhausted"] \in Jobs
      /\ [j EXCEPT !.cause = "exhausted"].cause = "exhausted"
  BY JobChanged DEF RunsInv, RunsOK
<1>3. UNCHANGED <<locals, updates, missing, left>> /\ left[w] >= 1
  BY DEF Pick, RunsInv, RunsOK
<1>4. RunsOK' /\ Budgeted'
  <2>1. CASE UNCHANGED <<pc, job>>
    BY <1>1, <1>3, <2>1 DEF RunsInv, RunsOK, Budgeted, Spending, Attempting, HandsOver
  <2>2. CASE /\ pc' = [pc EXCEPT ![w] = "check"]
             /\ job' = [job EXCEPT ![w] = [j EXCEPT !.cause = "exhausted"]]
    <3>1. RunsOK'
      BY <1>1, <1>2, <1>3, <2>2 DEF RunsInv, RunsOK, Awaits
    <3>2. Budgeted'
      BY <1>2, <1>3, <2>2 DEF RunsInv, RunsOK, Budgeted, Spending, Attempting, Claimed, HandsOver
    <3> QED BY <3>1, <3>2
  <2>3. CASE /\ j.retries < MaxRetries
             /\ pc' = [pc EXCEPT ![w] = "rewrite"]
             /\ job' = [job EXCEPT ![w] = j]
    <3>1. RunsOK'
      BY <1>1, <1>2, <1>3, <2>3 DEF RunsInv, RunsOK, Awaits
    <3>2. Budgeted'
      BY <1>3, <2>3 DEF RunsInv, RunsOK, Budgeted, Spending, Attempting, HandsOver
    <3> QED BY <3>1, <3>2
  <2> QED BY <1>1, <2>1, <2>2, <2>3
<1> QED BY <1>4, RowsSame, PlatformSame, SyncsSame DEF Pick, RunsInv

LEMMA TypeRewrite ==
    ASSUME TypeInv, NEW w \in Runs, Rewrite(w)
    PROVE  TypeInv'
<1> USE DEF TypeInv
<1>1. /\ job[w] \in Jobs /\ left[w] >= 1 /\ job[w].retries < MaxRetries
  BY AtHand DEF Rewrite, Attempting
<1>2. RunsInv'
  <2>1. CASE Proceed(w, "claim", job[w])
    BY <1>1, <2>1, ProceedOK DEF Awaits
  <2>2. CASE Proceed(w, "check", [job[w] EXCEPT !.cause = "unwritable"])
    BY <1>1, <2>2, ProceedOK, JobChanged DEF Awaits
  <2> QED BY <2>1, <2>2 DEF Rewrite
<1> QED BY <1>2, RowsSame, PlatformSame, SyncsSame DEF Rewrite

LEMMA TypeClaim ==
    ASSUME TypeInv, NEW w \in Runs, Claim(w)
    PROVE  TypeInv'
<1> USE DEF TypeInv
<1> DEFINE j == job[w]
<1>1. /\ j \in Jobs /\ left[w] >= 1 /\ left[w] >= 0
      /\ j.retries < MaxRetries /\ j.row \in Rows /\ j.retries \in Nat
  BY AtHand, ModerationAssumption DEF Claim, Attempting
<1>2. RunsInv'
  <2>1. CASE Proceed(w, "submit", j)
    BY <1>1, <2>1, ProceedOK DEF Awaits, Claimed
  <2>2. CASE Done(w, 0)
    BY <1>1, <2>2, DoneOK
  <2> QED BY <2>1, <2>2 DEF Claim
<1>3. RowsOK'
  <2>1. CASE /\ mod' = [mod EXCEPT ![j.row] = "REWRITING"]
             /\ retries' = [retries EXCEPT ![j.row] = j.retries + 1]
             /\ stale' = stale \ {j.row}
    <3>1. j.retries + 1 \in 0 .. MaxRetries
      BY <1>1, ModerationAssumption
    <3> HIDE DEF j
    <3> QED BY <1>1, <2>1, <3>1 DEF Claim, RowsOK, tableVars
  <2>2. CASE UNCHANGED <<mod, retries, stale>>
    BY <2>2 DEF Claim, RowsOK, tableVars
  <2> QED BY <2>1, <2>2 DEF Claim
<1> QED BY <1>2, <1>3, PlatformSame, SyncsSame DEF Claim

\* What a submission does to the platform, and what the run then knows.
LEMMA TypeSubmit ==
    ASSUME TypeInv, NEW w \in Runs, Submit(w)
    PROVE  TypeInv'
<1> USE DEF TypeInv
<1> DEFINE j == job[w]
           failed == [j EXCEPT !.cause = "failed"]
<1>1. /\ j \in Jobs /\ left[w] >= 1 /\ j.retries < MaxRetries
      /\ j.row \in Rows /\ j.ext \in Banners
  BY AtHand DEF Submit, Attempting, Claimed
<1>2. failed \in Jobs /\ failed.retries = j.retries
  BY <1>1, JobChanged
<1>3. \A new \in Banners :
        /\ [j EXCEPT !.new = new] \in Jobs
        /\ [j EXCEPT !.new = new].retries = j.retries
        /\ [failed EXCEPT !.new = new] \in Jobs
        /\ [failed EXCEPT !.new = new].retries = j.retries
  <2> SUFFICES ASSUME NEW new \in Banners
               PROVE  /\ [j EXCEPT !.new = new] \in Jobs
                      /\ [j EXCEPT !.new = new].retries = j.retries
                      /\ [failed EXCEPT !.new = new] \in Jobs
                      /\ [failed EXCEPT !.new = new].retries = j.retries
    OBVIOUS
  <2>1. \A i \in Jobs : [i EXCEPT !.new = new] \in Jobs /\ [i EXCEPT !.new = new].retries = i.retries
    BY Replacement
  <2> HIDE DEF j, failed
  <2>2. [j EXCEPT !.new = new] \in Jobs /\ [j EXCEPT !.new = new].retries = j.retries
    BY <1>1, <2>1
  <2>3. [failed EXCEPT !.new = new] \in Jobs /\ [failed EXCEPT !.new = new].retries = failed.retries
    BY <1>2, <2>1
  <2> QED BY <1>2, <2>2, <2>3
<1>4. next <= LastBanner => next \in Banners
  BY ModerationAssumption DEF PlatformOK, Banners
<1>5. {"settle", "adopt", "release"} \subseteq Awaits
  BY DEF Awaits, Claimed
<1>6. RunsInv'
  <2>1. CASE Proceed(w, "settle", j)
    BY <1>1, <1>5, <2>1, ProceedOK
  <2>2. CASE next <= LastBanner /\ Proceed(w, "settle", [j EXCEPT !.new = next])
    BY <1>1, <1>3, <1>4, <1>5, <2>2, ProceedOK
  <2>3. CASE next <= LastBanner /\ Proceed(w, "adopt", [failed EXCEPT !.new = next])
    BY <1>1, <1>3, <1>4, <1>5, <2>3, ProceedOK
  <2>4. CASE Proceed(w, "release", failed)
    BY <1>1, <1>2, <1>5, <2>4, ProceedOK
  <2> QED BY <2>1, <2>2, <2>3, <2>4 DEF Submit, Replaced
<1>7. sent' \in [Rows -> Nat]
  <2>1. sent' = sent \/ sent' = [sent EXCEPT ![j.row] = @ + 1]
    BY DEF Submit
  <2> QED BY <1>1, <2>1 DEF PlatformOK
<1>8. faults' \in Nat
  BY FaultOK DEF Submit, PlatformOK
<1>9. /\ channel' \in Channels
      /\ next' \in 0 .. LastBanner + 1
      /\ listed' \in SUBSET Banners
      /\ running' \in SUBSET listed'
      /\ \A b \in listed' : b < next'
      /\ verdict' \in [Banners -> Verdicts]
  <2>1. CASE Edited(j.ext)
    BY <1>1, <2>1 DEF Edited, PlatformOK, Verdicts
  <2>2. ASSUME NEW gone \in SUBSET Banners, NEW stopped \in SUBSET Banners, Replaced(gone, stopped)
        PROVE  <1>9!1 /\ <1>9!2 /\ <1>9!3 /\ <1>9!4 /\ <1>9!5 /\ <1>9!6
    <3>1. next \in Banners /\ next' \in 0 .. LastBanner + 1
      BY <1>4, <2>2, ModerationAssumption DEF Replaced, PlatformOK
    <3>2. listed' \in SUBSET Banners /\ running' \in SUBSET listed'
      BY <2>2, <3>1 DEF Replaced, PlatformOK
    <3>3. \A b \in listed' : b < next'
      BY <2>2, ModerationAssumption DEF Replaced, PlatformOK, Banners
    <3>4. verdict' \in [Banners -> Verdicts] /\ channel' \in Channels
      BY <2>2 DEF Replaced, PlatformOK, Verdicts
    <3> QED BY <3>1, <3>2, <3>3, <3>4
  <2>3. CASE UNCHANGED platformVars
    BY <2>3 DEF PlatformOK, platformVars
  <2>4. \/ Edited(j.ext)
        \/ \E gone, stopped \in {{}, {j.ext}} : Replaced(gone, stopped)
        \/ UNCHANGED platformVars
    BY DEF Submit
  <2>5. {{}, {j.ext}} \subseteq SUBSET Banners
    BY <1>1
  <2> QED BY <2>1, <2>2, <2>3, <2>4, <2>5
<1>10. PlatformOK'
  <2>1. UNCHANGED <<letters, told>>
    BY DEF Submit
  <2> QED BY <1>7, <1>8, <1>9, <2>1 DEF PlatformOK
<1> QED BY <1>6, <1>10, RowsSame, SyncsSame DEF Submit

LEMMA TypeSettling ==
    ASSUME TypeInv, NEW w \in Runs, Settle(w) \/ Adopt(w) \/ Release(w)
    PROVE  TypeInv'
<1> USE DEF TypeInv
<1> DEFINE j == job[w]
<1>1. /\ j \in Jobs /\ left[w] >= 1 /\ j.retries < MaxRetries
      /\ j.row \in Rows /\ j.ext \in Banners /\ j.new \in Banners \cup {NoBanner}
  BY AtHand DEF Settle, Adopt, Release, Attempting, Claimed
<1>2. [j EXCEPT !.cause = "taken"] \in Jobs /\ [j EXCEPT !.cause = "taken"].retries = j.retries
  BY <1>1, JobChanged
<1>3. {"check", "release"} \subseteq Awaits
  BY DEF Awaits, Claimed
<1>4. Done(w, 1) => RunsInv'
  BY <1>1, DoneOK
<1>5. \A l \in {"check", "release"} : Proceed(w, l, j) => RunsInv'
  BY <1>1, <1>3, ProceedOK
<1>6. CASE Settle(w)
  <2>1. RunsInv'
    <3>1. CASE Proceed(w, "check", [j EXCEPT !.cause = "taken"])
      BY <1>1, <1>2, <1>3, <3>1, ProceedOK
    <3> QED BY <1>4, <1>6, <3>1 DEF Settle
  <2>2. /\ UNCHANGED <<retries, tableVars>>
        /\ stale' = stale \ {j.row}
        /\ mod' = [mod EXCEPT ![j.row] = "PENDING"]
    BY <1>6 DEF Settle
  <2>3. active' = active \/ active' = [active EXCEPT ![j.row] = FALSE]
    BY <1>6 DEF Settle
  <2>4. UNCHANGED <<ext, superseded>> \/ (j.new \in Banners /\ Move(j.row, j.ext, j.new))
    BY <1>1, <1>6 DEF Settle
  <2> HIDE DEF j
  <2>5. /\ ext' \in [Rows -> Banners \cup {NoBanner}]
        /\ superseded' \in [Rows -> SUBSET Banners]
    BY <1>1, <2>4 DEF Move, RowsOK
  <2>6. active' \in [Rows -> BOOLEAN]
    BY <1>1, <2>3 DEF RowsOK
  <2>7. RowsOK'
    BY <1>1, <2>2, <2>5, <2>6 DEF RowsOK, tableVars, Verdicts
  <2> QED BY <1>6, <2>1, <2>7, PlatformSame, SyncsSame DEF Settle
<1>7. CASE Adopt(w)
  <2>1. RowsOK'
    BY <1>1, <1>7 DEF Adopt, Move, RowsOK, tableVars, Verdicts
  <2> QED BY <1>5, <1>7, <2>1, PlatformSame, SyncsSame DEF Adopt
<1>8. CASE Release(w)
  <2>1. RowsOK'
    BY <1>1, <1>8 DEF Release, RowsOK, tableVars, Verdicts
  <2> QED BY <1>5, <1>8, <2>1, PlatformSame, SyncsSame DEF Release
<1> QED BY <1>6, <1>7, <1>8

LEMMA ParkAtType ==
    ASSUME TypeInv, NEW w \in Runs, pc[w] \in {"check", "deliver", "log", "park"}
    PROVE  ParkAt(job[w]) \in 1 .. MaxRetries
<1> USE ModerationAssumption
<1>1. job[w].retries \in 0 .. MaxRetries
  BY AtHand
<1>2. CASE HandsOver(job[w])
  BY <1>2 DEF ParkAt
<1>3. CASE ~HandsOver(job[w])
  <2>1. job[w].retries < MaxRetries
    BY <1>3, AtHand DEF Attempting
  <2> QED BY <1>1, <1>3, <2>1 DEF ParkAt
<1> QED BY <1>2, <1>3

LEMMA TypeEscalating ==
    ASSUME TypeInv, NEW w \in Runs, Escalating(w)
    PROVE  TypeInv'
<1> USE DEF TypeInv
<1> DEFINE j == job[w]
<1>1. /\ j \in Jobs /\ left[w] >= 1 /\ left[w] >= 0 /\ j.row \in Rows
      /\ ~HandsOver(j) => j.retries < MaxRetries
  BY AtHand DEF Escalating, Check, Deliver, Log, Park, Attempting
<1>2. ParkAt(j) \in 1 .. MaxRetries
  BY ParkAtType DEF Escalating, Check, Deliver, Log, Park
<1>3. \A l \in {"deliver", "log", "park"} : Proceed(w, l, j) => RunsInv'
  <2> SUFFICES ASSUME NEW l \in {"deliver", "log", "park"}, Proceed(w, l, j) PROVE RunsInv'
    OBVIOUS
  <2>1. l \in Awaits /\ (Attempting(l, j) => ~HandsOver(j))
    BY DEF Awaits, Attempting, Claimed
  <2> QED BY <1>1, <2>1, ProceedOK
<1>4. \A cost \in {0, 1} : Done(w, cost) => RunsInv'
  BY <1>1, DoneOK
<1>5. CASE Check(w)
  BY <1>3, <1>4, <1>5, RowsSame, PlatformSame, SyncsSame DEF Check
<1>6. CASE Deliver(w)
  <2>1. PlatformOK'
    BY <1>1, <1>6 DEF Deliver, PlatformOK, platformVars
  <2> QED BY <1>3, <1>6, <2>1, RowsSame, SyncsSame DEF Deliver
<1>7. CASE Log(w)
  <2>1. RowsOK'
    BY <1>1, <1>2, <1>7 DEF Log, RowsOK, rowVars
  <2> QED BY <1>3, <1>7, <2>1, PlatformSame, SyncsSame DEF Log
<1>8. CASE Park(w)
  <2>1. RowsOK'
    BY <1>1, <1>2, <1>8 DEF Park, RowsOK, tableVars
  <2> QED BY <1>4, <1>8, <2>1, PlatformSame, SyncsSame DEF Park
<1> QED BY <1>5, <1>6, <1>7, <1>8 DEF Escalating

LEMMA TypeFaulty ==
    ASSUME TypeInv, NEW w \in Runs, Throw(w) \/ Crash(w) \/ Finish(w)
    PROVE  TypeInv'
<1> USE DEF TypeInv
<1>1. CASE Throw(w)
  <2> DEFINE j == job[w]
  <2>1. /\ j \in Jobs /\ j.row \in Rows /\ left[w] >= 0
        /\ pc[w] # "archive" => left[w] >= 1
        /\ pc[w] = "adopt" => j.retries < MaxRetries
    BY <1>1, AtHand DEF Throw, Attempting, Claimed
  <2>2. RunsInv'
    <3>1. CASE pc[w] = "adopt" /\ Proceed(w, "release", j)
      BY <2>1, <3>1, ProceedOK DEF Awaits, Claimed
    <3>2. CASE Done(w, IF pc[w] = "archive" THEN 0 ELSE 1)
      BY <2>1, <3>2, DoneOK
    <3> QED BY <1>1, <3>1, <3>2 DEF Throw
  <2>3. RowsOK'
    BY <1>1, <2>1 DEF Throw, RowsOK, rowVars
  <2>4. PlatformOK'
    BY <1>1, FaultOK DEF Throw, PlatformOK, platformVars, historyVars
  <2> QED BY <1>1, <2>2, <2>3, <2>4, SyncsSame DEF Throw
<1>2. CASE Crash(w)
  <2>1. PlatformOK'
    BY <1>2, FaultOK DEF Crash, PlatformOK, platformVars, historyVars
  <2> QED BY <1>2, <2>1, EndRunOK, RowsSame, SyncsSame DEF Crash
<1>3. CASE Finish(w)
  BY <1>3, EndRunOK, RowsSame, PlatformSame, SyncsSame DEF Finish
<1> QED BY <1>1, <1>2, <1>3

LEMMA TypeSyncing ==
    ASSUME TypeInv, NEW s \in Syncs, Syncing(s)
    PROVE  TypeInv'
<1> USE DEF TypeInv
<1>1. CASE ReadMarked(s)
  <2>1. \A r \in Rows : superseded[r] \in SUBSET Banners
    BY DEF RowsOK
  <2>2. UNION {superseded[r] : r \in Rows} \in SUBSET Banners
    BY <2>1
  <2>3. /\ marked' = [marked EXCEPT ![s] = UNION {superseded[r] : r \in Rows}]
        /\ at' = [at EXCEPT ![s] = "list"]
        /\ UNCHANGED remote
    BY <1>1 DEF ReadMarked
  <2>4. SyncsOK'
    <3> DEFINE read == UNION {superseded[r] : r \in Rows}
    <3> HIDE DEF read
    <3> QED BY <2>2, <2>3 DEF SyncsOK, read
  <2> QED BY <1>1, <2>4, RowsSame, PlatformSame, RunsSame DEF ReadMarked
<1>2. CASE ListRemote(s)
  <2> DEFINE answer == [b \in listed |-> <<verdict[b], b \in running>>]
  <2>1. DOMAIN answer \in SUBSET Banners /\ answer \in [DOMAIN answer -> Verdicts \X BOOLEAN]
    <3>1. \A b \in listed : b \in Banners /\ verdict[b] \in Verdicts
      BY DEF PlatformOK
    <3>2. \A b \in listed : (b \in running) \in BOOLEAN
      OBVIOUS
    <3>3. \A b \in listed : <<verdict[b], b \in running>> \in Verdicts \X BOOLEAN
      BY <3>1, <3>2, Zenon
    <3>4. answer \in [listed -> Verdicts \X BOOLEAN]
      BY <3>3, Zenon
    <3>5. DOMAIN answer = listed /\ listed \in SUBSET Banners
      BY <3>1, Zenon
    <3> HIDE DEF answer
    <3> QED BY <3>4, <3>5
  <2>2. /\ remote' = [remote EXCEPT ![s] = answer]
        /\ at' = [at EXCEPT ![s] = "upsert"]
        /\ UNCHANGED marked
    BY <1>2 DEF ListRemote
  <2>3. SyncsOK'
    <3> HIDE DEF answer
    <3> QED BY <2>1, <2>2 DEF SyncsOK
  <2> QED BY <1>2, <2>3, RowsSame, PlatformSame, RunsSame DEF ListRemote
<1>3. CASE Upsert(s)
  <2>1. PICK b \in DOMAIN remote[s] :
          /\ remote' = [remote EXCEPT ![s] = [o \in DOMAIN remote[s] \ {b} |-> remote[s][o]]]
          /\ \E r \in Rows :
                /\ ext' = [ext EXCEPT ![r] = b]
                /\ mod' = [mod EXCEPT ![r] = remote[s][b][1]]
                /\ active' = [active EXCEPT ![r] = InService(s, b)]
                /\ stale' = stale \ {r}
    BY <1>3 DEF Upsert
  <2>2. PICK r \in Rows :
                /\ ext' = [ext EXCEPT ![r] = b]
                /\ mod' = [mod EXCEPT ![r] = remote[s][b][1]]
                /\ active' = [active EXCEPT ![r] = InService(s, b)]
                /\ stale' = stale \ {r}
    BY <2>1
  <2>3. b \in Banners /\ remote[s][b] \in Verdicts \X BOOLEAN
    BY DEF SyncsOK
  <2>4. remote[s][b][1] \in Verdicts /\ InService(s, b) \in BOOLEAN
    BY <2>3 DEF InService
  <2>5. UNCHANGED <<retries, superseded, tableVars>>
    BY <1>3 DEF Upsert
  <2>6. RowsOK'
    BY <2>2, <2>3, <2>4, <2>5 DEF RowsOK, tableVars
  <2>7. SyncsOK'
    <3> DEFINE rest == [o \in DOMAIN remote[s] \ {b} |-> remote[s][o]]
    <3>1. DOMAIN rest \in SUBSET Banners /\ rest \in [DOMAIN rest -> Verdicts \X BOOLEAN]
      BY DEF SyncsOK
    <3>2. UNCHANGED <<at, marked>>
      BY <1>3 DEF Upsert
    <3> HIDE DEF rest
    <3> QED BY <2>1, <3>1, <3>2 DEF SyncsOK
  <2> QED BY <1>3, <2>6, <2>7, PlatformSame, RunsSame DEF Upsert
<1>4. CASE EndSync(s)
  <2>1. SyncsOK'
    BY <1>4 DEF EndSync, SyncsOK
  <2> QED BY <1>4, <2>1, RowsSame, PlatformSame, RunsSame DEF EndSync
<1> QED BY <1>1, <1>2, <1>3, <1>4 DEF Syncing

LEMMA TypeEnvironment ==
    ASSUME TypeInv,
           \/ \E b \in Banners : Judge(b)
           \/ \E r \in Rows : GrowStale(r) \/ BackoffEnds(r)
    PROVE  TypeInv'
<1> USE DEF TypeInv
<1>1. CASE \E b \in Banners : Judge(b)
  <2>1. PlatformOK'
    BY <1>1 DEF Judge, PlatformOK, Verdicts, historyVars
  <2> QED BY <1>1, <2>1, RowsSame, RunsSame, SyncsSame DEF Judge
<1>2. CASE \E r \in Rows : GrowStale(r)
  <2>1. RowsOK'
    BY <1>2 DEF GrowStale, RowsOK, tableVars
  <2> QED BY <1>2, <2>1, PlatformSame, RunsSame, SyncsSame DEF GrowStale
<1>3. CASE \E r \in Rows : BackoffEnds(r)
  <2>1. RowsOK'
    BY <1>3 DEF BackoffEnds, RowsOK, rowVars
  <2> QED BY <1>3, <2>1, PlatformSame, RunsSame, SyncsSame DEF BackoffEnds
<1> QED BY <1>1, <1>2, <1>3

LEMMA TypeStep == TypeInv /\ [Next]_vars => TypeInv'
<1> SUFFICES ASSUME TypeInv, [Next]_vars PROVE TypeInv'
  OBVIOUS
<1>1. CASE UNCHANGED vars
  BY <1>1, RowsSame, PlatformSame, RunsSame, SyncsSame DEF TypeInv, vars
<1>2. CASE \E w \in Runs : Running(w) \/ Throw(w) \/ Crash(w)
  <2> PICK w \in Runs : Running(w) \/ Throw(w) \/ Crash(w)
    BY <1>2
  <2> QED BY TypePolling, TypeMissing, TypePick, TypeRewrite, TypeClaim, TypeSubmit, TypeSettling,
             TypeEscalating, TypeFaulty DEF Running, Repairing
<1>3. CASE \E s \in Syncs : Syncing(s)
  BY <1>3, TypeSyncing
<1> QED BY <1>1, <1>2, <1>3, TypeEnvironment DEF Next

\* Every variable keeps its type (TypeOK): the counters stay within MaxRetries, a run
\* does not spend more repairs than it has, and has an ad at hand wherever it uses one.
THEOREM TypeCorrect == Spec => []TypeOK
<1>1. Spec => []TypeInv
  BY TypeInit, TypeStep, PTL DEF Spec
<1>2. TypeInv => TypeOK
  BY DEF TypeInv, TypeOK, RunsInv
<1> QED BY <1>1, <1>2, PTL

-----------------------------------------------------------------------------
(* A claim is its run's alone while no sync writes the rows: nothing but   *)
(* its run, or age, ends it, and age spares the claim of a run that lives. *)

ClaimInv ==
    /\ \A w \in Runs : pc[w] \in Claimed => mod[job[w].row] = "REWRITING" /\ job[w].row \notin stale
    /\ OneRewriter

\* A step of w, or of nobody, that leaves the claims of the others alone.
LEMMA ClaimFrame ==
    ASSUME ClaimInv, NEW w \in Runs,
           \A v \in Runs \ {w} : pc'[v] = pc[v] /\ job'[v] = job[v],
           pc'[w] \in Claimed => pc[w] \in Claimed /\ job'[w].row = job[w].row,
           \A v \in Runs : pc'[v] \in Claimed =>
               mod'[job[v].row] = "REWRITING" /\ job[v].row \notin stale'
    PROVE  ClaimInv'
<1>1. \A v \in Runs : pc'[v] \in Claimed => pc[v] \in Claimed /\ job'[v].row = job[v].row
  OBVIOUS
<1>2. \A v \in Runs : pc'[v] \in Claimed =>
          mod'[job'[v].row] = "REWRITING" /\ job'[v].row \notin stale'
  BY <1>1
<1>3. OneRewriter'
  BY <1>1 DEF ClaimInv, OneRewriter
<1> QED BY <1>2, <1>3 DEF ClaimInv

\* What Proceed, Done and EndRun leave alone, and where they take a run.
LEMMA RunMoves ==
    ASSUME TypeInv, NEW w \in Runs
    PROVE  /\ \A l, j : Proceed(w, l, j) =>
                 /\ pc'[w] = l /\ job'[w] = j
                 /\ \A v \in Runs \ {w} : pc'[v] = pc[v] /\ job'[v] = job[v]
           /\ \A cost : Done(w, cost) =>
                 /\ pc'[w] = "work"
                 /\ \A v \in Runs \ {w} : pc'[v] = pc[v] /\ job'[v] = job[v]
           /\ EndRun(w) =>
                 /\ pc'[w] = "idle"
                 /\ \A v \in Runs \ {w} : pc'[v] = pc[v] /\ job'[v] = job[v]
  BY DEF TypeInv, RunsInv, RunsOK, Proceed, Done, EndRun

LEMMA ClaimPolling ==
    ASSUME TypeInv, ClaimInv, NEW w \in Runs, Polling(w)
    PROVE  ClaimInv'
<1>1. /\ pc'[w] \notin Claimed
      /\ \A v \in Runs \ {w} : pc'[v] = pc[v] /\ job'[v] = job[v]
  BY DEF Polling, Reclaim, ReadLocals, List, WriteVerdict, TypeInv, RunsInv, RunsOK, Claimed
<1>2. \A v \in Runs : pc[v] \in Claimed => job[v].row \in Rows
  BY AtHand DEF Claimed
<1>3. ASSUME NEW v \in Runs, pc'[v] \in Claimed
      PROVE  mod'[job[v].row] = "REWRITING" /\ job[v].row \notin stale'
  <2>1. /\ pc[v] \in Claimed /\ job[v].row \in Rows
        /\ mod[job[v].row] = "REWRITING" /\ job[v].row \notin stale
    BY <1>1, <1>2, <1>3 DEF ClaimInv
  <2>2. CASE Reclaim(w)
    BY <2>1, <2>2 DEF Reclaim, Dead
  <2>3. CASE ReadLocals(w) \/ List(w)
    BY <2>1, <2>3 DEF ReadLocals, List, rowVars
  <2>4. CASE WriteVerdict(w)
    <3>1. PICK u \in updates[w] :
            mod' = [mod EXCEPT ![u[1]] = IF mod[u[1]] # "REWRITING" THEN u[2] ELSE @]
      BY <2>4 DEF WriteVerdict
    <3> QED BY <2>1, <2>4, <3>1 DEF WriteVerdict, TypeInv, RowsOK
  <2> QED BY <2>2, <2>3, <2>4 DEF Polling
<1> QED BY <1>1, <1>3, ClaimFrame

\* The steps of a run that neither take nor give up a claim.
LEMMA ClaimElsewhere ==
    ASSUME TypeInv, ClaimInv, NEW w \in Runs,
           ReportMissing(w) \/ Archive(w) \/ Pick(w) \/ Rewrite(w) \/ Submit(w) \/ Escalating(w)
           \/ Throw(w) \/ Crash(w) \/ Finish(w)
    PROVE  ClaimInv'
<1>1. UNCHANGED <<mod, stale>>
  BY DEF ReportMissing, Archive, Pick, Rewrite, Submit, Escalating, Check, Deliver, Log, Park,
         Throw, Crash, Finish, rowVars
<1>2. /\ \A v \in Runs \ {w} : pc'[v] = pc[v] /\ job'[v] = job[v]
      /\ pc'[w] \in Claimed => pc[w] \in Claimed /\ job'[w].row = job[w].row
  <2>1. CASE ReportMissing(w)
    BY <2>1 DEF ReportMissing, TypeInv, RunsInv, RunsOK, Claimed
  <2>2. CASE Pick(w)
    BY <2>2 DEF Pick, TypeInv, RunsInv, RunsOK, Claimed
  <2>3. CASE Archive(w) \/ Rewrite(w) \/ Escalating(w) \/ Crash(w) \/ Finish(w)
    BY <2>3, RunMoves DEF Archive, Rewrite, Escalating, Check, Deliver, Log, Park, Crash, Finish, Claimed
  <2>4. CASE Throw(w)
    BY <2>4, RunMoves DEF Throw, Claimed
  <2>5. CASE Submit(w)
    <3>1. job[w] \in Jobs
      BY <2>5, AtHand DEF Submit
    <3>2. /\ \A new : [job[w] EXCEPT !.new = new].row = job[w].row
          /\ [job[w] EXCEPT !.cause = "failed"].row = job[w].row
          /\ \A new : [[job[w] EXCEPT !.cause = "failed"] EXCEPT !.new = new].row = job[w].row
      BY <3>1 DEF Jobs
    <3>3. \E l, j : Proceed(w, l, j) /\ j.row = job[w].row
      BY <2>5, <3>2 DEF Submit
    <3> QED BY <2>5, <3>3, RunMoves DEF Submit, Claimed
  <2> QED BY <2>1, <2>2, <2>3, <2>4, <2>5
<1>3. \A v \in Runs : pc'[v] \in Claimed =>
          mod'[job[v].row] = "REWRITING" /\ job[v].row \notin stale'
  BY <1>1, <1>2 DEF ClaimInv
<1> QED BY <1>2, <1>3, ClaimFrame

\* The row of a claim taken was REJECTED: nobody held it.
LEMMA ClaimTaken ==
    ASSUME TypeInv, ClaimInv, NEW w \in Runs, Claim(w)
    PROVE  ClaimInv'
<1> DEFINE j == job[w]
<1>1. pc[w] = "claim" /\ j.row \in Rows
  BY AtHand DEF Claim
<1>2. CASE ~ClaimWhere(j)
  <2>1. UNCHANGED <<mod, stale>> /\ Done(w, 0)
    BY <1>2 DEF Claim
  <2>2. /\ pc'[w] \notin Claimed
        /\ \A v \in Runs \ {w} : pc'[v] = pc[v] /\ job'[v] = job[v]
    BY <2>1, RunMoves DEF Claimed
  <2>3. \A v \in Runs : pc'[v] \in Claimed =>
            mod'[job[v].row] = "REWRITING" /\ job[v].row \notin stale'
    BY <2>1, <2>2 DEF ClaimInv
  <2> QED BY <2>2, <2>3, ClaimFrame
<1>3. CASE ClaimWhere(j)
  <2>1. /\ mod' = [mod EXCEPT ![j.row] = "REWRITING"]
        /\ stale' = stale \ {j.row}
        /\ Proceed(w, "submit", j)
        /\ mod[j.row] = "REJECTED"
    BY <1>3 DEF Claim, ClaimWhere
  <2>2. /\ job'[w] = j
        /\ \A v \in Runs \ {w} : pc'[v] = pc[v] /\ job'[v] = job[v]
    BY <2>1, RunMoves
  <2>3. \A v \in Runs : pc[v] \in Claimed => job[v].row # j.row /\ job[v].row \in Rows
    BY <2>1, AtHand DEF ClaimInv, Claimed
  <2>4. \A v \in Runs : pc'[v] \in Claimed =>
            mod'[job'[v].row] = "REWRITING" /\ job'[v].row \notin stale'
    <3> SUFFICES ASSUME NEW v \in Runs, pc'[v] \in Claimed
                 PROVE  mod'[job'[v].row] = "REWRITING" /\ job'[v].row \notin stale'
      OBVIOUS
    <3>1. CASE v = w
      BY <1>1, <2>1, <2>2, <3>1 DEF TypeInv, RowsOK
    <3>2. CASE v # w
      <4>1. pc[v] \in Claimed /\ job'[v] = job[v]
        BY <2>2, <3>2
      <4>2. mod[job[v].row] = "REWRITING" /\ job[v].row \notin stale
        BY <4>1 DEF ClaimInv
      <4> QED BY <2>1, <2>3, <4>1, <4>2 DEF TypeInv, RowsOK
    <3> QED BY <3>1, <3>2
  <2>5. OneRewriter'
    BY <2>2, <2>3 DEF ClaimInv, OneRewriter
  <2> QED BY <2>4, <2>5 DEF ClaimInv
<1> QED BY <1>2, <1>3

\* What ends a claim touches no row but its own.
LEMMA ClaimEnded ==
    ASSUME TypeInv, ClaimInv, NEW w \in Runs, Settle(w) \/ Adopt(w) \/ Release(w)
    PROVE  ClaimInv'
<1> DEFINE j == job[w]
<1>1. pc[w] \in Claimed /\ j \in Jobs /\ j.row \in Rows
  BY AtHand DEF Settle, Adopt, Release, Claimed
<1>2. /\ \A v \in Runs \ {w} : pc'[v] = pc[v] /\ job'[v] = job[v]
      /\ pc'[w] \in Claimed => job'[w] = j /\ UNCHANGED <<mod, stale>>
  BY RunMoves DEF Settle, Adopt, Release, Claimed
<1>3. /\ \A r \in Rows \ {j.row} : mod'[r] = mod[r]
      /\ stale' \subseteq stale
  BY <1>1 DEF Settle, Adopt, Release, TypeInv, RowsOK
<1>4. ASSUME NEW v \in Runs, pc'[v] \in Claimed
      PROVE  mod'[job[v].row] = "REWRITING" /\ job[v].row \notin stale'
  <2>1. CASE v = w
    BY <1>1, <1>2, <1>4, <2>1 DEF ClaimInv
  <2>2. CASE v # w
    <3>1. pc[v] \in Claimed
      BY <1>2, <1>4, <2>2
    <3>2. job[v].row # j.row /\ job[v].row \in Rows
      BY <1>1, <2>2, <3>1, AtHand DEF ClaimInv, OneRewriter, Claimed
    <3> QED BY <1>3, <3>1, <3>2 DEF ClaimInv
  <2> QED BY <2>1, <2>2
<1>5. pc'[w] \in Claimed => pc[w] \in Claimed /\ job'[w].row = job[w].row
  BY <1>1, <1>2
<1> QED BY <1>2, <1>4, <1>5, ClaimFrame

LEMMA ClaimStep ==
    ASSUME Syncs = {}
    PROVE  TypeInv /\ ClaimInv /\ [Next]_vars => ClaimInv'
<1> SUFFICES ASSUME TypeInv, ClaimInv, [Next]_vars PROVE ClaimInv'
  OBVIOUS
<1>1. CASE UNCHANGED vars
  BY <1>1 DEF ClaimInv, OneRewriter, vars, rowVars, runVars
<1>2. CASE \E w \in Runs : Running(w) \/ Throw(w) \/ Crash(w)
  <2> PICK w \in Runs : Running(w) \/ Throw(w) \/ Crash(w)
    BY <1>2
  <2> QED BY ClaimPolling, ClaimElsewhere, ClaimTaken, ClaimEnded DEF Running, Repairing
<1>3. CASE \E b \in Banners : Judge(b)
  BY <1>3 DEF Judge, ClaimInv, OneRewriter, rowVars, runVars
<1>4. CASE \E r \in Rows : BackoffEnds(r)
  BY <1>4 DEF BackoffEnds, ClaimInv, OneRewriter, rowVars, runVars
<1>5. CASE \E r \in Rows : GrowStale(r)
  BY <1>5 DEF GrowStale, ClaimInv, OneRewriter, runVars
<1> QED BY <1>1, <1>2, <1>3, <1>4, <1>5 DEF Next

\* Overlapping runs never send two texts for one ad (OneRewriter), as long as nothing
\* but the runs writes moderationStatus; MCModerationClaims shows what a sync does.
THEOREM OneRewriterWithoutSync == ASSUME Syncs = {} PROVE Spec => []OneRewriter
<1>1. Init => ClaimInv
  BY DEF Init, ClaimInv, OneRewriter, Claimed
<1>2. TypeInv /\ ClaimInv /\ [Next]_vars => ClaimInv'
  BY ClaimStep
<1>3. ClaimInv => OneRewriter
  BY DEF ClaimInv
<1> QED BY <1>1, <1>2, <1>3, TypeInit, TypeStep, PTL DEF Spec

-----------------------------------------------------------------------------
(* Every text sent is counted: the claim counts it before it is sent, and  *)
(* while the claim lasts nobody resets the counter.                        *)

AttemptInv ==
    /\ \A r \in Rows : sent[r] <= retries[r]
    /\ \A w \in Runs : pc[w] = "submit" => sent[job[w].row] < retries[job[w].row]

\* A step that neither counts nor sends, nor takes a run to its submission.
LEMMA AttemptFrame ==
    ASSUME AttemptInv, UNCHANGED <<sent, retries>>,
           \A v \in Runs : pc'[v] = "submit" => pc[v] = "submit" /\ job'[v] = job[v]
    PROVE  AttemptInv'
  BY DEF AttemptInv

\* The ad of a run at its submission.
LEMMA AtSubmission ==
    ASSUME TypeInv, ClaimInv, NEW v \in Runs, pc[v] = "submit"
    PROVE  job[v].row \in Rows /\ mod[job[v].row] = "REWRITING"
  BY AtHand DEF ClaimInv, Claimed

LEMMA AttemptQuiet ==
    ASSUME TypeInv, AttemptInv, NEW w \in Runs,
           \/ Reclaim(w) \/ ReadLocals(w) \/ List(w) \/ ReportMissing(w) \/ Archive(w) \/ Pick(w)
           \/ Rewrite(w) \/ Settle(w) \/ Adopt(w) \/ Release(w) \/ Check(w) \/ Deliver(w) \/ Log(w)
           \/ Throw(w) \/ Crash(w) \/ Finish(w)
    PROVE  AttemptInv'
<1>1. UNCHANGED <<sent, retries>>
  BY DEF Reclaim, ReadLocals, List, ReportMissing, Archive, Pick, Rewrite, Settle, Adopt, Release,
         Check, Deliver, Log, Throw, Crash, Finish, rowVars, historyVars
<1>2. /\ pc'[w] # "submit"
      /\ \A v \in Runs \ {w} : pc'[v] = pc[v] /\ job'[v] = job[v]
  <2>1. CASE Reclaim(w) \/ ReadLocals(w) \/ List(w) \/ ReportMissing(w)
    BY <2>1 DEF Reclaim, ReadLocals, List, ReportMissing, TypeInv, RunsInv, RunsOK
  <2>2. CASE Pick(w)
    BY <2>2 DEF Pick, TypeInv, RunsInv, RunsOK
  <2>3. CASE Archive(w) \/ Rewrite(w) \/ Crash(w) \/ Finish(w) \/ Throw(w)
    BY <2>3, RunMoves DEF Archive, Rewrite, Crash, Finish, Throw
  <2>4. CASE Settle(w) \/ Adopt(w) \/ Release(w) \/ Check(w) \/ Deliver(w) \/ Log(w)
    BY <2>4, RunMoves DEF Settle, Adopt, Release, Check, Deliver, Log
  <2> QED BY <2>1, <2>2, <2>3, <2>4
<1>3. \A v \in Runs : pc'[v] = "submit" => pc[v] = "submit" /\ job'[v] = job[v]
  BY <1>2
<1> QED BY <1>1, <1>3, AttemptFrame

\* A counter is reset only where no claim stands: no run is about to send.
LEMMA AttemptReset ==
    ASSUME TypeInv, ClaimInv, AttemptInv, NEW w \in Runs, WriteVerdict(w)
    PROVE  AttemptInv'
<1>1. PICK u \in updates[w] :
        /\ retries' = [retries EXCEPT ![u[1]] =
              IF mod[u[1]] # "REWRITING" /\ u[2] = "APPROVED" THEN 0 ELSE @]
        /\ sent' = [sent EXCEPT ![u[1]] =
              IF mod[u[1]] # "REWRITING" /\ u[2] = "APPROVED" THEN 0 ELSE @]
  BY DEF WriteVerdict
<1>2. UNCHANGED <<pc, job>> /\ u[1] \in Rows
  BY DEF WriteVerdict, TypeInv, RunsInv, RunsOK
<1>3. \A r \in Rows : \/ sent'[r] = sent[r] /\ retries'[r] = retries[r]
                      \/ sent'[r] = 0 /\ retries'[r] = 0 /\ mod[r] # "REWRITING"
  BY <1>1, <1>2 DEF TypeInv, RowsOK, PlatformOK
<1>4. \A r \in Rows : sent'[r] <= retries'[r]
  BY <1>3 DEF AttemptInv
<1>5. \A v \in Runs : pc'[v] = "submit" => sent'[job'[v].row] < retries'[job'[v].row]
  BY <1>2, <1>3, AtSubmission DEF AttemptInv
<1> QED BY <1>4, <1>5 DEF AttemptInv

LEMMA AttemptCounted ==
    ASSUME TypeInv, ClaimInv, AttemptInv, NEW w \in Runs, Claim(w)
    PROVE  AttemptInv'
<1> DEFINE j == job[w]
<1>1. pc[w] = "claim" /\ j.row \in Rows /\ UNCHANGED sent
  BY AtHand DEF Claim, historyVars
<1>2. CASE ~ClaimWhere(j)
  <2>1. UNCHANGED retries /\ Done(w, 0)
    BY <1>2 DEF Claim
  <2> QED BY <1>1, <2>1, RunMoves, AttemptFrame
<1>3. CASE ClaimWhere(j)
  <2>1. /\ retries' = [retries EXCEPT ![j.row] = j.retries + 1]
        /\ Proceed(w, "submit", j)
        /\ retries[j.row] = j.retries
        /\ mod[j.row] = "REJECTED"
    BY <1>3 DEF Claim, ClaimWhere
  <2>2. /\ job'[w] = j
        /\ \A v \in Runs \ {w} : pc'[v] = pc[v] /\ job'[v] = job[v]
    BY <2>1, RunMoves
  <2>3. /\ \A r \in Rows \ {j.row} : retries'[r] = retries[r]
        /\ retries'[j.row] = retries[j.row] + 1
        /\ sent[j.row] \in Nat /\ retries[j.row] \in Nat
    BY <1>1, <2>1, ModerationAssumption DEF TypeInv, RowsOK, PlatformOK
  <2>4. \A r \in Rows : sent'[r] <= retries'[r]
    BY <1>1, <2>3 DEF AttemptInv
  <2>5. \A v \in Runs : pc'[v] = "submit" => sent'[job'[v].row] < retries'[job'[v].row]
    <3> SUFFICES ASSUME NEW v \in Runs, pc'[v] = "submit"
                 PROVE  sent'[job'[v].row] < retries'[job'[v].row]
      OBVIOUS
    <3>1. CASE v = w
      BY <1>1, <2>2, <2>3, <3>1 DEF AttemptInv
    <3>2. CASE v # w
      <4>1. pc[v] = "submit" /\ job'[v] = job[v]
        BY <2>2, <3>2
      <4>2. job[v].row \in Rows \ {j.row}
        BY <2>1, <4>1, AtSubmission
      <4> QED BY <1>1, <2>3, <4>1, <4>2 DEF AttemptInv
    <3> QED BY <3>1, <3>2
  <2> QED BY <2>4, <2>5 DEF AttemptInv
<1> QED BY <1>2, <1>3

\* The one rewriter of the ad sends what was counted.
LEMMA AttemptSent ==
    ASSUME TypeInv, ClaimInv, AttemptInv, NEW w \in Runs, Submit(w)
    PROVE  AttemptInv'
<1> DEFINE j == job[w]
<1>1. pc[w] = "submit" /\ j.row \in Rows /\ UNCHANGED retries
  BY AtHand DEF Submit, rowVars
<1>2. sent' = sent \/ sent' = [sent EXCEPT ![j.row] = @ + 1]
  BY DEF Submit
<1>3. pc'[w] # "submit" /\ \A v \in Runs \ {w} : pc'[v] = pc[v] /\ job'[v] = job[v]
  BY RunMoves DEF Submit
<1>4. \A r \in Rows : /\ sent[r] \in Nat /\ retries[r] \in Nat
                      /\ sent'[r] = sent[r] \/ (r = j.row /\ sent'[r] = sent[r] + 1)
  BY <1>1, <1>2, ModerationAssumption DEF TypeInv, RowsOK, PlatformOK
<1>5. sent[j.row] < retries[j.row]
  BY <1>1 DEF AttemptInv
<1>6. \A r \in Rows : sent'[r] <= retries'[r]
  BY <1>1, <1>4, <1>5 DEF AttemptInv
<1>7. \A v \in Runs : pc'[v] = "submit" => sent'[job'[v].row] < retries'[job'[v].row]
  <2> SUFFICES ASSUME NEW v \in Runs, pc'[v] = "submit"
               PROVE  sent'[job'[v].row] < retries'[job'[v].row]
    OBVIOUS
  <2>1. v # w /\ pc[v] = "submit" /\ job'[v] = job[v]
    BY <1>3
  <2>2. job[v].row \in Rows /\ job[v].row # j.row
    BY <1>1, <2>1, AtSubmission DEF ClaimInv, OneRewriter, Claimed
  <2> QED BY <1>1, <1>4, <2>1, <2>2 DEF AttemptInv
<1> QED BY <1>6, <1>7 DEF AttemptInv

\* Parking only raises the counter.
LEMMA AttemptParked ==
    ASSUME TypeInv, AttemptInv, NEW w \in Runs, Park(w)
    PROVE  AttemptInv'
<1> DEFINE j == job[w]
<1>1. /\ pc[w] = "park" /\ j.row \in Rows /\ UNCHANGED sent
      /\ j.retries \in 0 .. MaxRetries
      /\ pc'[w] = "work" /\ \A v \in Runs \ {w} : pc'[v] = pc[v] /\ job'[v] = job[v]
  BY AtHand, RunMoves DEF Park, historyVars
<1>2. ParkAt(j) \in 1 .. MaxRetries /\ ParkAt(j) >= j.retries
  BY <1>1, ParkAtType, ModerationAssumption DEF ParkAt
<1>3. \/ retries' = retries
      \/ retries[j.row] = j.retries /\ retries' = [retries EXCEPT ![j.row] = ParkAt(j)]
  BY DEF Park, TypeInv, RowsOK
<1>4. \A r \in Rows : /\ retries'[r] >= retries[r]
                      /\ sent[r] \in Nat /\ retries[r] \in Nat /\ retries'[r] \in Nat
  BY <1>1, <1>2, <1>3, ModerationAssumption DEF TypeInv, RowsOK, PlatformOK
<1>5. \A r \in Rows : sent'[r] <= retries'[r]
  BY <1>1, <1>4 DEF AttemptInv
<1>6. \A v \in Runs : pc'[v] = "submit" =>
          pc[v] = "submit" /\ job'[v] = job[v] /\ job[v].row \in Rows
  BY <1>1, AtHand
<1>7. \A v \in Runs : pc'[v] = "submit" => sent'[job'[v].row] < retries'[job'[v].row]
  BY <1>1, <1>4, <1>6 DEF AttemptInv
<1> QED BY <1>5, <1>7 DEF AttemptInv

LEMMA AttemptStep ==
    ASSUME Syncs = {}
    PROVE  TypeInv /\ ClaimInv /\ AttemptInv /\ [Next]_vars => AttemptInv'
<1> SUFFICES ASSUME TypeInv, ClaimInv, AttemptInv, [Next]_vars PROVE AttemptInv'
  OBVIOUS
<1>1. CASE UNCHANGED vars
  BY <1>1, AttemptFrame DEF vars, rowVars, runVars, historyVars
<1>2. CASE \E w \in Runs : Running(w) \/ Throw(w) \/ Crash(w)
  <2> PICK w \in Runs : Running(w) \/ Throw(w) \/ Crash(w)
    BY <1>2
  <2> QED BY AttemptQuiet, AttemptReset, AttemptCounted, AttemptSent, AttemptParked
          DEF Running, Polling, Repairing, Escalating
<1>3. CASE (\E b \in Banners : Judge(b)) \/ (\E r \in Rows : GrowStale(r) \/ BackoffEnds(r))
  BY <1>3, AttemptFrame DEF Judge, GrowStale, BackoffEnds, rowVars, runVars, historyVars
<1> QED BY <1>1, <1>2, <1>3 DEF Next

\* An ad costs its attempts and no more (AttemptsCounted): a text that reached the
\* platform is counted although its run, or its reply, was lost.
THEOREM AttemptsCountedWithoutSync == ASSUME Syncs = {} PROVE Spec => []AttemptsCounted
<1>1. Init => ClaimInv /\ AttemptInv
  BY DEF Init, ClaimInv, OneRewriter, Claimed, AttemptInv
<1>2. TypeInv /\ ClaimInv /\ [Next]_vars => ClaimInv'
  BY ClaimStep
<1>3. TypeInv /\ ClaimInv /\ AttemptInv /\ [Next]_vars => AttemptInv'
  BY AttemptStep
<1>4. TypeInv /\ AttemptInv => AttemptsCounted
  BY ModerationAssumption DEF TypeInv, RowsOK, AttemptInv, AttemptsCounted
<1> QED BY <1>1, <1>2, <1>3, <1>4, TypeInit, TypeStep, PTL DEF Spec

-----------------------------------------------------------------------------
(* One letter for one stuck ad, while the runs of an account do not        *)
(* overlap: two runs that both look for the letter of the other before     *)
(* either has logged its own write two.  Any number of syncs may run.      *)

NoOverlap == \A v, w \in Runs : v = w

\* The letter that hands the ad of the row over is out, and not yet in the log.
HandingOver(w, r) == pc[w] = "log" /\ HandsOver(job[w]) /\ job[w].row = r

HandedOver(r) == MaxRetries \in escalated[r] \/ \E w \in Runs : HandingOver(w, r)

\* A letter beyond those that a fault has repeated is in the log or on its way to it,
\* and a run about to write one has found none.
LetterInv ==
    /\ \A r \in Rows : letters[r] <= faults + (IF HandedOver(r) THEN 1 ELSE 0)
    /\ \A w \in Runs : pc[w] = "deliver" /\ HandsOver(job[w]) => MaxRetries \notin escalated[job[w].row]

\* Steps that raise no counter of letters: each row's is lowered, or what hands its
\* ad over lasts.
LEMMA LetterFrame ==
    ASSUME TypeInv, LetterInv, faults' \in Nat,
           \A r \in Rows :
              \/ letters'[r] = 0
              \/ letters'[r] = letters[r] /\ faults' = faults /\ (HandedOver(r) => HandedOver(r)')
              \/ letters'[r] = letters[r] /\ faults' = faults + 1
    PROVE  \A r \in Rows : letters'[r] <= faults' + (IF HandedOver(r)' THEN 1 ELSE 0)
<1> SUFFICES ASSUME NEW r \in Rows
             PROVE  letters'[r] <= faults' + (IF HandedOver(r)' THEN 1 ELSE 0)
  OBVIOUS
<1>1. letters[r] \in Nat /\ faults \in Nat
  BY DEF TypeInv, PlatformOK
<1>2. letters[r] <= faults + (IF HandedOver(r) THEN 1 ELSE 0)
  BY DEF LetterInv
<1> QED BY <1>1, <1>2

\* A step that writes no letter and no log, and neither ends nor begins a letter.
LEMMA LetterQuiet ==
    ASSUME TypeInv, LetterInv, UNCHANGED <<letters, escalated>>, faults' \in Nat,
           \A v \in Runs : /\ pc[v] = "log" => (pc'[v] = "log" /\ job'[v] = job[v]) \/ faults' = faults + 1
                           /\ pc'[v] = "deliver" => pc[v] = "deliver" /\ job'[v] = job[v],
           faults' = faults \/ faults' = faults + 1
    PROVE  LetterInv'
<1>1. \A r \in Rows : faults' = faults => (HandedOver(r) => HandedOver(r)')
  <2> SUFFICES ASSUME faults' = faults, NEW r \in Rows, HandedOver(r) PROVE HandedOver(r)'
    OBVIOUS
  <2>1. faults \in Nat
    BY DEF TypeInv, PlatformOK
  <2>2. \A v \in Runs : HandingOver(v, r) => HandingOver(v, r)'
    BY <2>1 DEF HandingOver, HandsOver
  <2> QED BY <2>2 DEF HandedOver
<1>2. \A r \in Rows : letters'[r] <= faults' + (IF HandedOver(r)' THEN 1 ELSE 0)
  BY <1>1, LetterFrame
<1>3. \A v \in Runs : pc'[v] = "deliver" /\ HandsOver(job[v])' => MaxRetries \notin escalated'[job'[v].row]
  BY DEF LetterInv, HandsOver
<1> QED BY <1>2, <1>3 DEF LetterInv

LEMMA LetterElsewhere ==
    ASSUME TypeInv, LetterInv, NEW w \in Runs,
           \/ Reclaim(w) \/ ReadLocals(w) \/ List(w) \/ ReportMissing(w) \/ Archive(w) \/ Pick(w)
           \/ Rewrite(w) \/ Claim(w) \/ Submit(w) \/ Settle(w) \/ Adopt(w) \/ Release(w) \/ Park(w)
           \/ Throw(w) \/ Crash(w) \/ Finish(w)
    PROVE  LetterInv'
<1>1. UNCHANGED <<letters, escalated>>
  BY DEF Reclaim, ReadLocals, List, ReportMissing, Archive, Pick, Rewrite, Claim, Submit, Settle, Adopt,
         Release, Park, Throw, Crash, Finish, historyVars, tableVars
<1>2. /\ pc'[w] # "deliver" /\ (pc[w] = "log" => faults' = faults + 1)
      /\ \A v \in Runs \ {w} : pc'[v] = pc[v] /\ job'[v] = job[v]
  <2>1. CASE Reclaim(w) \/ ReadLocals(w) \/ List(w) \/ ReportMissing(w)
    BY <2>1 DEF Reclaim, ReadLocals, List, ReportMissing, TypeInv, RunsInv, RunsOK
  <2>2. CASE Pick(w)
    BY <2>2 DEF Pick, TypeInv, RunsInv, RunsOK
  <2>3. CASE Archive(w) \/ Rewrite(w) \/ Claim(w) \/ Finish(w)
    BY <2>3, RunMoves DEF Archive, Rewrite, Claim, Finish
  <2>4. CASE Settle(w) \/ Adopt(w) \/ Release(w) \/ Park(w)
    BY <2>4, RunMoves DEF Settle, Adopt, Release, Park
  <2>5. CASE Submit(w)
    BY <2>5, RunMoves DEF Submit
  <2>6. CASE Crash(w) \/ Throw(w)
    BY <2>6, RunMoves DEF Crash, Throw, Fault
  <2> QED BY <2>1, <2>2, <2>3, <2>4, <2>5, <2>6
<1>3. faults' = faults \/ faults' = faults + 1
  BY DEF Reclaim, ReadLocals, List, ReportMissing, Archive, Pick, Rewrite, Claim, Submit, Settle, Adopt,
         Release, Park, Throw, Crash, Finish, Fault
<1>4. faults' \in Nat
  BY <1>3 DEF TypeInv, PlatformOK
<1> QED BY <1>1, <1>2, <1>3, <1>4, LetterQuiet

\* An accepted ad's counter starts anew.
LEMMA LetterReset ==
    ASSUME TypeInv, LetterInv, NEW w \in Runs, WriteVerdict(w)
    PROVE  LetterInv'
<1>1. PICK u \in updates[w] :
        letters' = [letters EXCEPT ![u[1]] = IF mod[u[1]] # "REWRITING" /\ u[2] = "APPROVED" THEN 0 ELSE @]
  BY DEF WriteVerdict
<1>2. UNCHANGED <<pc, job, escalated, faults>>
  BY DEF WriteVerdict, tableVars
<1>3. \A r \in Rows : HandedOver(r) => HandedOver(r)'
  BY <1>2 DEF HandedOver, HandingOver, HandsOver
<1>4. \A r \in Rows : letters'[r] = 0 \/ letters'[r] = letters[r]
  BY <1>1 DEF TypeInv, PlatformOK
<1>5. faults' \in Nat
  BY <1>2 DEF TypeInv, PlatformOK
<1>6. \A r \in Rows : letters'[r] <= faults' + (IF HandedOver(r)' THEN 1 ELSE 0)
  BY <1>2, <1>3, <1>4, <1>5, LetterFrame
<1> QED BY <1>2, <1>6 DEF LetterInv, HandsOver

\* The log is read before a letter is written.
LEMMA LetterChecked ==
    ASSUME TypeInv, LetterInv, NEW w \in Runs, Check(w)
    PROVE  LetterInv'
<1>1. pc[w] = "check" /\ UNCHANGED <<letters, escalated, faults>>
  BY DEF Check, historyVars, tableVars
<1>2. CASE Known(job[w])
  <2>1. pc'[w] = "work" /\ \A v \in Runs \ {w} : pc'[v] = pc[v] /\ job'[v] = job[v]
    BY <1>2, RunMoves DEF Check
  <2>2. faults' \in Nat
    BY <1>1 DEF TypeInv, PlatformOK
  <2> QED BY <1>1, <2>1, <2>2, LetterQuiet
<1>3. CASE ~Known(job[w])
  <2>1. /\ pc'[w] = "deliver" /\ job'[w] = job[w]
        /\ \A v \in Runs \ {w} : pc'[v] = pc[v] /\ job'[v] = job[v]
    BY <1>3, RunMoves DEF Check
  <2>2. \A r \in Rows : HandedOver(r) => HandedOver(r)'
    BY <1>1, <2>1 DEF HandedOver, HandingOver, HandsOver
  <2>3. faults' \in Nat
    BY <1>1 DEF TypeInv, PlatformOK
  <2>4. \A r \in Rows : letters'[r] <= faults' + (IF HandedOver(r)' THEN 1 ELSE 0)
    BY <1>1, <2>2, <2>3, LetterFrame
  <2>5. HandsOver(job[w]) => MaxRetries \notin escalated[job[w].row]
    BY <1>3 DEF Known, ParkAt
  <2>6. \A v \in Runs : pc'[v] = "deliver" /\ HandsOver(job[v])' => MaxRetries \notin escalated'[job'[v].row]
    BY <1>1, <2>1, <2>5 DEF LetterInv, HandsOver
  <2> QED BY <2>4, <2>6 DEF LetterInv
<1> QED BY <1>2, <1>3

\* The letter is written by the only run there is: nothing is on its way to the log.
LEMMA LetterWritten ==
    ASSUME NoOverlap, TypeInv, LetterInv, NEW w \in Runs, Deliver(w)
    PROVE  LetterInv'
<1> DEFINE j == job[w]
<1>1. pc[w] = "deliver" /\ j.row \in Rows /\ UNCHANGED <<escalated, faults>>
  BY AtHand DEF Deliver, tableVars
<1>2. \A v \in Runs : pc'[v] = "log" /\ pc[v] = "deliver" /\ job'[v] = j
  BY <1>1, RunMoves DEF Deliver, NoOverlap
<1>3. letters' = [letters EXCEPT ![j.row] = IF HandsOver(j) THEN @ + 1 ELSE @]
  BY DEF Deliver
<1>4. \A r \in Rows : letters'[r] <= faults' + (IF HandedOver(r)' THEN 1 ELSE 0)
  <2> SUFFICES ASSUME NEW r \in Rows
               PROVE  letters'[r] <= faults' + (IF HandedOver(r)' THEN 1 ELSE 0)
    OBVIOUS
  <2>1. letters[r] \in Nat /\ faults \in Nat
    BY DEF TypeInv, PlatformOK
  <2>2. letters[r] <= faults + (IF HandedOver(r) THEN 1 ELSE 0)
    BY DEF LetterInv
  <2>3. HandedOver(r) <=> MaxRetries \in escalated[r]
    BY <1>2 DEF HandedOver, HandingOver
  <2>4. CASE r = j.row /\ HandsOver(j)
    <3>1. ~HandedOver(r)
      BY <1>1, <2>3, <2>4 DEF LetterInv
    <3>2. HandedOver(r)'
      BY <1>2, <2>4 DEF HandedOver, HandingOver, HandsOver
    <3>3. letters'[r] = letters[r] + 1
      BY <1>3, <2>4 DEF TypeInv, PlatformOK
    <3> QED BY <1>1, <2>1, <2>2, <3>1, <3>2, <3>3
  <2>5. CASE ~(r = j.row /\ HandsOver(j))
    <3>1. HandedOver(r) => HandedOver(r)'
      BY <1>1, <2>3 DEF HandedOver
    <3>2. letters'[r] = letters[r]
      BY <1>1, <1>3, <2>5 DEF TypeInv, PlatformOK
    <3> QED BY <1>1, <2>1, <2>2, <3>1, <3>2
  <2> QED BY <2>4, <2>5
<1>5. \A v \in Runs : pc'[v] # "deliver"
  BY <1>2
<1> QED BY <1>4, <1>5 DEF LetterInv

\* What was on its way to the log is in it.
LEMMA LetterLogged ==
    ASSUME NoOverlap, TypeInv, LetterInv, NEW w \in Runs, Log(w)
    PROVE  LetterInv'
<1> DEFINE j == job[w]
<1>1. pc[w] = "log" /\ j.row \in Rows /\ UNCHANGED <<letters, faults>>
  BY AtHand DEF Log, historyVars
<1>2. \A v \in Runs : pc'[v] = "park" /\ v = w
  BY RunMoves DEF Log, NoOverlap
<1>3. escalated' = [escalated EXCEPT ![j.row] = @ \cup {ParkAt(j)}]
  BY DEF Log
<1>4. \A r \in Rows : HandedOver(r) => HandedOver(r)'
  <2> SUFFICES ASSUME NEW r \in Rows, HandedOver(r) PROVE MaxRetries \in escalated'[r]
    BY DEF HandedOver
  <2>1. CASE MaxRetries \in escalated[r]
    BY <1>1, <1>3, <2>1 DEF TypeInv, RowsOK
  <2>2. CASE HandsOver(j) /\ j.row = r
    BY <1>1, <1>3, <2>2 DEF TypeInv, RowsOK, ParkAt
  <2> QED BY <1>2, <2>1, <2>2 DEF HandedOver, HandingOver
<1>5. faults' \in Nat
  BY <1>1 DEF TypeInv, PlatformOK
<1>6. \A r \in Rows : letters'[r] <= faults' + (IF HandedOver(r)' THEN 1 ELSE 0)
  BY <1>1, <1>4, <1>5, LetterFrame
<1> QED BY <1>2, <1>6 DEF LetterInv

LEMMA LetterStep ==
    ASSUME NoOverlap
    PROVE  TypeInv /\ LetterInv /\ [Next]_vars => LetterInv'
<1> SUFFICES ASSUME TypeInv, LetterInv, [Next]_vars PROVE LetterInv'
  OBVIOUS
<1>1. CASE \E w \in Runs : Running(w) \/ Throw(w) \/ Crash(w)
  <2> PICK w \in Runs : Running(w) \/ Throw(w) \/ Crash(w)
    BY <1>1
  <2> QED BY LetterElsewhere, LetterReset, LetterChecked, LetterWritten, LetterLogged
          DEF Running, Polling, Repairing, Escalating
<1>2. ASSUME UNCHANGED <<letters, escalated, pc, job, faults>> PROVE LetterInv'
  <2>1. faults' \in Nat
    BY <1>2 DEF TypeInv, PlatformOK
  <2> QED BY <1>2, <2>1, LetterQuiet
<1>3. CASE UNCHANGED vars
  BY <1>2, <1>3 DEF vars, historyVars, tableVars, runVars
<1>4. CASE \E s \in Syncs : Syncing(s)
  BY <1>2, <1>4 DEF Syncing, ReadMarked, ListRemote, Upsert, EndSync, historyVars, tableVars, runVars
<1>5. CASE (\E b \in Banners : Judge(b)) \/ (\E r \in Rows : GrowStale(r) \/ BackoffEnds(r))
  BY <1>2, <1>5 DEF Judge, GrowStale, BackoffEnds, historyVars, tableVars, runVars
<1> QED BY <1>1, <1>3, <1>4, <1>5 DEF Next

\* One stuck ad, one letter (OneLetter): the rewriting that was not possible and the
\* exhausted attempts that follow hand the ad over once, but for the letters a fault
\* between the sending and the log repeats.
THEOREM OneLetterWithoutOverlap == ASSUME NoOverlap PROVE Spec => []OneLetter
<1>1. Init => LetterInv
  <2> SUFFICES ASSUME Init PROVE LetterInv
    OBVIOUS
  <2>1. faults = 0 /\ \A r \in Rows : letters[r] = 0
    BY DEF Init
  <2>2. \A v \in Runs : pc[v] # "deliver"
    BY DEF Init
  <2> QED BY <2>1, <2>2 DEF LetterInv
<1>2. TypeInv /\ LetterInv /\ [Next]_vars => LetterInv'
  BY LetterStep
<1>3. TypeInv /\ LetterInv => OneLetter
  <2> SUFFICES ASSUME TypeInv, LetterInv, NEW r \in Rows PROVE letters[r] <= 1 + faults
    BY DEF OneLetter
  <2>1. letters[r] \in Nat /\ faults \in Nat
    BY DEF TypeInv, PlatformOK
  <2>2. letters[r] <= faults + (IF HandedOver(r) THEN 1 ELSE 0)
    BY DEF LetterInv
  <2> QED BY <2>1, <2>2
<1> QED BY <1>1, <1>2, <1>3, TypeInit, TypeStep, PTL DEF Spec

-----------------------------------------------------------------------------
(* A banner a replacement has made is known, while the runs of an account  *)
(* do not overlap and nothing has failed: the row a run works on is still  *)
(* at the banner the run read.  Any number of syncs may run: they give a   *)
(* row its first banner, and never another one.                            *)

\* What a run has read of the ids of its rows is still true, and no row is to be
\* repaired twice.
InPlaceOf(w) ==
    /\ pc[w] # "list" => locals[w] = <<>>
    /\ \A r \in DOMAIN locals[w] : locals[w][r].ext = ext[r]
    /\ \A j \in rejected[w] : ext[j.row] = j.ext
    /\ \A i, j \in rejected[w] : i.row = j.row => i = j
    /\ pc[w] \in {"rewrite", "claim"} \cup Claimed =>
          ext[job[w].row] = job[w].ext /\ \A j \in rejected[w] : j.row # job[w].row

InPlace == \A w \in Runs : InPlaceOf(w)

HasRow(b) == \E r \in Rows : ext[r] = b \/ b \in superseded[r]

OnItsWay(b) == \E w \in Runs : pc[w] \in {"settle", "adopt"} /\ job[w].new = b

AllKnown == \A b \in listed : HasRow(b) \/ OnItsWay(b)

BannerInv == faults > 0 \/ (AllKnown /\ InPlace)

LEMMA BannersAreReal ==
    ASSUME TypeInv
    PROVE  listed \subseteq Banners /\ NoBanner \notin Banners
  BY ModerationAssumption DEF TypeInv, PlatformOK, Banners, NoBanner

\* The rows a run has read of, and has to repair, have banners.
LEMMA ReadsAreReal ==
    ASSUME TypeInv, NEW w \in Runs
    PROVE  /\ \A r \in DOMAIN locals[w] : r \in Rows /\ locals[w][r].ext \in Banners
           /\ \A j \in rejected[w] : j.row \in Rows /\ j.ext \in Banners
           /\ pc[w] \in {"rewrite", "claim"} \cup Claimed => job[w].row \in Rows /\ job[w].ext \in Banners
<1>1. \A r \in DOMAIN locals[w] : r \in Rows /\ locals[w][r] \in Snapshots
  BY DEF TypeInv, RunsInv, RunsOK
<1>2. \A j \in rejected[w] : j \in Jobs
  BY DEF TypeInv, RunsInv, RunsOK
<1>3. pc[w] \in {"rewrite", "claim"} \cup Claimed => job[w].row \in Rows /\ job[w].ext \in Banners
  BY AtHand DEF Claimed
<1> QED BY <1>1, <1>2, <1>3 DEF Snapshots, Jobs

\* A step that gives a row a banner only where it has none.
LEMMA BannerFrame ==
    ASSUME TypeInv, BannerInv, UNCHANGED <<faults, listed, superseded, runVars>>,
           \A r \in Rows : ext[r] # NoBanner => ext'[r] = ext[r]
    PROVE  BannerInv'
<1>1. UNCHANGED <<faults, listed, superseded, pc, job, locals, rejected>>
  BY DEF runVars, pollVars
<1>2. ASSUME AllKnown PROVE AllKnown'
  <2> SUFFICES ASSUME NEW b \in listed PROVE HasRow(b)' \/ OnItsWay(b)'
    BY <1>1 DEF AllKnown
  <2>1. CASE HasRow(b)
    BY <1>1, <2>1, BannersAreReal DEF HasRow
  <2>2. CASE OnItsWay(b)
    BY <1>1, <2>2 DEF OnItsWay
  <2> QED BY <1>2, <2>1, <2>2 DEF AllKnown
<1>3. ASSUME InPlace PROVE InPlace'
  <2> SUFFICES ASSUME NEW w \in Runs PROVE InPlaceOf(w)'
    BY DEF InPlace
  <2>1. InPlaceOf(w)
    BY <1>3 DEF InPlace
  <2>2. \A r \in Rows : ext[r] \in Banners => ext'[r] = ext[r]
    BY BannersAreReal
  <2>3. \A r \in DOMAIN locals[w] : locals[w][r].ext = ext'[r]
    BY <2>1, <2>2, ReadsAreReal DEF InPlaceOf
  <2>4. \A j \in rejected[w] : ext'[j.row] = j.ext
    BY <2>1, <2>2, ReadsAreReal DEF InPlaceOf
  <2>5. pc[w] \in {"rewrite", "claim"} \cup Claimed => ext'[job[w].row] = job[w].ext
    BY <2>1, <2>2, ReadsAreReal DEF InPlaceOf
  <2> QED BY <1>1, <2>1, <2>3, <2>4, <2>5 DEF InPlaceOf
<1> QED BY <1>1, <1>2, <1>3 DEF BannerInv

\* A step of the only run that leaves the rows' banners and the listing alone.
LEMMA BannerQuiet ==
    ASSUME NoOverlap, TypeInv, BannerInv, NEW w \in Runs,
           UNCHANGED <<ext, superseded>>, faults' = faults, listed' = listed,
           pc[w] \notin {"settle", "adopt"} \/ (\A b \in listed : OnItsWay(b) => HasRow(b)),
           InPlaceOf(w) => InPlaceOf(w)'
    PROVE  BannerInv'
<1>1. \A v \in Runs : v = w
  BY DEF NoOverlap
<1>2. InPlace => InPlace'
  BY <1>1 DEF InPlace
<1>3. \A b \in listed : HasRow(b) => HasRow(b)'
  BY DEF HasRow
<1>4. \A b \in listed : OnItsWay(b) => HasRow(b)
  BY <1>1 DEF OnItsWay
<1>5. AllKnown => AllKnown'
  BY <1>3, <1>4 DEF AllKnown
<1> QED BY <1>2, <1>5 DEF BannerInv

LEMMA BannerPolling ==
    ASSUME NoOverlap, TypeInv, BannerInv, NEW w \in Runs, Polling(w), faults' = faults, faults = 0
    PROVE  BannerInv'
<1>1. UNCHANGED <<ext, superseded, listed>> /\ pc[w] \notin {"settle", "adopt"}
  BY DEF Polling, Reclaim, ReadLocals, List, WriteVerdict, rowVars, platformVars
<1>2. ASSUME InPlaceOf(w) PROVE InPlaceOf(w)'
  <2>1. CASE Reclaim(w)
    <3>1. /\ pc'[w] = "locals" /\ pc[w] = "idle"
          /\ UNCHANGED <<locals, rejected, ext>>
      BY <2>1 DEF Reclaim, pollVars, TypeInv, RunsInv, RunsOK
    <3> QED BY <1>2, <3>1 DEF InPlaceOf, Claimed
  <2>2. CASE ReadLocals(w)
    <3>1. /\ pc'[w] = "list" /\ UNCHANGED <<rejected, ext>>
          /\ locals'[w] = [r \in Existing |->
               [ext |-> ext[r], active |-> active[r], mod |-> mod[r], retries |-> retries[r]]]
      BY <2>2 DEF ReadLocals, rowVars, TypeInv, RunsInv, RunsOK
    <3>2. \A r \in DOMAIN locals'[w] : locals'[w][r].ext = ext'[r]
      BY <3>1
    <3> QED BY <1>2, <3>1, <3>2 DEF InPlaceOf, Claimed
  <2>3. CASE List(w)
    <3> DEFINE rows == locals[w]
               met(seen) == {r \in DOMAIN rows : rows[r].ext \in seen /\ rows[r].mod # "REWRITING"}
               hit(seen) == {q \in met(seen) : rows[q].active /\ verdict[rows[q].ext] = "REJECTED"}
    <3>1. /\ pc'[w] = "work" /\ locals'[w] = <<>> /\ UNCHANGED ext
      BY <2>3 DEF List, rowVars, TypeInv, RunsInv, RunsOK
    <3>2. PICK seen \in SUBSET listed :
              rejected' = [rejected EXCEPT ![w] = {JobOf(r, rows[r], "none") : r \in hit(seen)}]
      BY <2>3 DEF List
    <3>3. rejected'[w] = {JobOf(r, rows[r], "none") : r \in hit(seen)}
      BY <3>2 DEF TypeInv, RunsInv, RunsOK
    <3>4. hit(seen) \subseteq DOMAIN rows
      OBVIOUS
    <3> HIDE DEF hit, met
    <3>5. \A r \in DOMAIN rows : JobOf(r, rows[r], "none").row = r /\ JobOf(r, rows[r], "none").ext = rows[r].ext
      BY DEF JobOf
    <3>6. \A r \in DOMAIN rows : rows[r].ext = ext[r]
      BY <1>2 DEF InPlaceOf
    <3> HIDE DEF rows
    <3>7. \A j \in rejected'[w] : ext'[j.row] = j.ext
      BY <3>1, <3>3, <3>4, <3>5, <3>6
    <3>8. \A i, j \in rejected'[w] : i.row = j.row => i = j
      BY <3>3, <3>4, <3>5
    <3> QED BY <3>1, <3>7, <3>8 DEF InPlaceOf, Claimed
  <2>4. CASE WriteVerdict(w)
    BY <1>2, <2>4 DEF WriteVerdict, InPlaceOf
  <2> QED BY <2>1, <2>2, <2>3, <2>4 DEF Polling
<1> QED BY <1>1, <1>2, BannerQuiet

\* The steps of a repair that begin and end it, and those of a letter.
LEMMA BannerBusy ==
    ASSUME NoOverlap, TypeInv, BannerInv, NEW w \in Runs, faults' = faults,
           \/ ReportMissing(w) \/ Archive(w) \/ Pick(w) \/ Rewrite(w) \/ Claim(w) \/ Release(w)
           \/ Escalating(w) \/ Finish(w)
    PROVE  BannerInv'
<1>1. UNCHANGED <<ext, superseded, listed>> /\ pc[w] \notin {"settle", "adopt"}
  BY DEF ReportMissing, Archive, Pick, Rewrite, Claim, Release, Escalating, Check, Deliver, Log, Park,
         Finish, rowVars, platformVars
<1>2. ASSUME InPlaceOf(w) PROVE InPlaceOf(w)'
  <2> DEFINE bound(l) == l \in {"rewrite", "claim"} \cup Claimed
  <2>1. ASSUME pc[w] # "list", pc'[w] # "list", UNCHANGED <<locals, rejected>>,
               bound(pc'[w]) => bound(pc[w]) /\ job'[w] = job[w]
        PROVE  InPlaceOf(w)'
    BY <1>1, <1>2, <2>1 DEF InPlaceOf
  <2>2. CASE ReportMissing(w)
    <3>1. pc[w] = "work" /\ pc'[w] = "archive" /\ UNCHANGED <<locals, rejected>>
      BY <2>2 DEF ReportMissing, TypeInv, RunsInv, RunsOK
    <3> QED BY <2>1, <3>1 DEF Claimed
  <2>3. CASE Pick(w)
    <3>1. PICK j \in rejected[w] :
            /\ rejected' = [rejected EXCEPT ![w] = @ \ {j}]
            /\ \/ UNCHANGED <<pc, job>>
               \/ pc' = [pc EXCEPT ![w] = "check"]
               \/ pc' = [pc EXCEPT ![w] = "rewrite"] /\ job' = [job EXCEPT ![w] = j]
      BY <2>3 DEF Pick
    <3>2. rejected'[w] = rejected[w] \ {j} /\ pc[w] = "work" /\ UNCHANGED locals
      BY <2>3, <3>1 DEF Pick, TypeInv, RunsInv, RunsOK
    <3>3. \/ pc'[w] \in {"work", "check"}
          \/ pc'[w] = "rewrite" /\ job'[w] = j
      BY <3>1, <3>2 DEF TypeInv, RunsInv, RunsOK
    <3> QED BY <1>1, <1>2, <3>2, <3>3 DEF InPlaceOf, Claimed
  <2>4. CASE Archive(w) \/ Rewrite(w) \/ Claim(w) \/ Release(w) \/ Escalating(w)
    <3>1. /\ UNCHANGED <<locals, rejected>>
          /\ pc[w] \in {"archive", "rewrite", "claim", "release", "check", "deliver", "log", "park"}
      BY <2>4 DEF Archive, Rewrite, Claim, Release, Escalating, Check, Deliver, Log, Park, Proceed, Done,
                  pollVars
    <3>2. CASE Archive(w) \/ Release(w) \/ Escalating(w)
      <4>1. pc'[w] \in {"work", "check", "deliver", "log", "park"}
        BY <3>2, RunMoves DEF Archive, Release, Escalating, Check, Deliver, Log, Park
      <4> QED BY <2>1, <3>1, <4>1 DEF Claimed
    <3>3. CASE Rewrite(w)
      <4>1. CASE Proceed(w, "claim", job[w])
        <5>1. pc'[w] = "claim" /\ job'[w] = job[w]
          BY <4>1, RunMoves
        <5> QED BY <2>1, <3>1, <3>3, <5>1 DEF Rewrite
      <4>2. CASE Proceed(w, "check", [job[w] EXCEPT !.cause = "unwritable"])
        <5>1. pc'[w] = "check"
          BY <4>2, RunMoves
        <5> QED BY <2>1, <3>1, <5>1 DEF Claimed
      <4> QED BY <3>3, <4>1, <4>2 DEF Rewrite
    <3>4. CASE Claim(w)
      <4>1. CASE Proceed(w, "submit", job[w])
        <5>1. pc'[w] = "submit" /\ job'[w] = job[w]
          BY <4>1, RunMoves
        <5> QED BY <2>1, <3>1, <3>4, <5>1 DEF Claim
      <4>2. CASE Done(w, 0)
        <5>1. pc'[w] = "work"
          BY <4>2, RunMoves
        <5> QED BY <2>1, <3>1, <5>1 DEF Claimed
      <4> QED BY <3>4, <4>1, <4>2 DEF Claim
    <3> QED BY <2>4, <3>2, <3>3, <3>4
  <2>5. CASE Finish(w)
    <3>1. pc'[w] = "idle" /\ locals'[w] = <<>> /\ rejected'[w] = {}
      BY <2>5 DEF Finish, EndRun, TypeInv, RunsInv, RunsOK
    <3> QED BY <3>1 DEF InPlaceOf, Claimed
  <2> QED BY <2>2, <2>3, <2>4, <2>5 DEF Escalating
<1> QED BY <1>1, <1>2, BannerQuiet

\* The run knows the banner its submission has made.
LEMMA BannerMade ==
    ASSUME NoOverlap, TypeInv, BannerInv, NEW w \in Runs, Submit(w), faults' = faults, faults = 0
    PROVE  BannerInv'
<1> DEFINE j == job[w]
           failed == [j EXCEPT !.cause = "failed"]
<1>1. /\ pc[w] = "submit" /\ j \in Jobs /\ next \in Nat
      /\ UNCHANGED <<ext, superseded>>
  BY AtHand, ModerationAssumption DEF Submit, rowVars, TypeInv, PlatformOK
<1>2. /\ failed.row = j.row /\ failed.ext = j.ext
      /\ \A n : /\ [j EXCEPT !.new = n].row = j.row /\ [j EXCEPT !.new = n].ext = j.ext
                /\ [j EXCEPT !.new = n].new = n
                /\ [failed EXCEPT !.new = n].row = j.row /\ [failed EXCEPT !.new = n].ext = j.ext
                /\ [failed EXCEPT !.new = n].new = n
  BY <1>1 DEF Jobs
<1>3. \/ listed' = listed /\ \E l \in {"settle", "release"}, i \in {j, failed} : Proceed(w, l, i)
      \/ /\ \E gone, stopped : Replaced(gone, stopped)
         /\ \/ Proceed(w, "settle", [j EXCEPT !.new = next])
            \/ Proceed(w, "adopt", [failed EXCEPT !.new = next])
  <2>1. ~Fault
    BY DEF Fault
  <2> QED BY <2>1 DEF Submit, Edited, platformVars
<1>4. \A v \in Runs : v = w
  BY DEF NoOverlap
<1>5. AllKnown /\ InPlaceOf(w)
  BY DEF BannerInv, InPlace
<1>6. \A b \in listed : HasRow(b) /\ HasRow(b)'
  BY <1>1, <1>4, <1>5 DEF AllKnown, OnItsWay, HasRow
<1> HIDE DEF failed
<1>7. /\ UNCHANGED <<locals, rejected>> /\ pc'[w] \in Claimed
      /\ job'[w].row = j.row /\ job'[w].ext = j.ext
      /\ \/ listed' = listed
         \/ listed' \subseteq listed \cup {next} /\ pc'[w] \in {"settle", "adopt"} /\ job'[w].new = next
  <2>1. CASE listed' = listed /\ \E l \in {"settle", "release"}, i \in {j, failed} : Proceed(w, l, i)
    <3>1. PICK l \in {"settle", "release"}, i \in {j, failed} : Proceed(w, l, i)
      BY <2>1
    <3>2. pc'[w] = l /\ job'[w] = i
      BY <3>1, RunMoves
    <3>3. UNCHANGED <<locals, rejected>>
      BY <3>1 DEF Proceed, pollVars
    <3>4. i.row = j.row /\ i.ext = j.ext
      BY <1>2
    <3>5. l \in Claimed
      BY DEF Claimed
    <3> QED BY <2>1, <3>2, <3>3, <3>4, <3>5
  <2>2. CASE /\ \E gone, stopped : Replaced(gone, stopped)
             /\ \/ Proceed(w, "settle", [j EXCEPT !.new = next])
                \/ Proceed(w, "adopt", [failed EXCEPT !.new = next])
    <3>1. listed' \subseteq listed \cup {next}
      BY <2>2 DEF Replaced
    <3>2. \/ pc'[w] = "settle" /\ job'[w] = [j EXCEPT !.new = next]
          \/ pc'[w] = "adopt" /\ job'[w] = [failed EXCEPT !.new = next]
      BY <2>2, RunMoves
    <3>3. UNCHANGED <<locals, rejected>>
      BY <2>2 DEF Proceed, pollVars
    <3> QED BY <1>2, <3>1, <3>2, <3>3 DEF Claimed
  <2> QED BY <1>3, <2>1, <2>2
<1>8. InPlaceOf(w)'
  <2>1. /\ locals[w] = <<>> /\ ext[j.row] = j.ext /\ \A i \in rejected[w] : i.row # j.row
    BY <1>1, <1>5 DEF InPlaceOf, Claimed
  <2>2. pc'[w] # "list"
    BY <1>7 DEF Claimed
  <2> QED BY <1>1, <1>5, <1>7, <2>1, <2>2 DEF InPlaceOf
<1>9. AllKnown'
  BY <1>6, <1>7 DEF AllKnown, OnItsWay
<1> QED BY <1>4, <1>8, <1>9 DEF BannerInv, InPlace

\* The row moves to its new banner and keeps the one it was at; or a sync has made a
\* row for the new one.
LEMMA BannerSettled ==
    ASSUME NoOverlap, TypeInv, BannerInv, NEW w \in Runs, Settle(w) \/ Adopt(w), faults' = faults,
           faults = 0
    PROVE  BannerInv'
<1> DEFINE j == job[w]
<1>1. /\ pc[w] \in {"settle", "adopt"} /\ j \in Jobs /\ j.row \in Rows
      /\ UNCHANGED <<listed, locals, rejected>>
  <2>1. pc[w] \in {"settle", "adopt"} /\ UNCHANGED <<listed, locals, rejected>>
    BY DEF Settle, Adopt, platformVars, Proceed, Done, pollVars
  <2> QED BY <2>1, AtHand
<1>2. \A v \in Runs : v = w
  BY DEF NoOverlap
<1>3. AllKnown /\ InPlaceOf(w)
  BY DEF BannerInv, InPlace
<1>4. /\ locals[w] = <<>> /\ ext[j.row] = j.ext /\ \A i \in rejected[w] : i.row # j.row
      /\ \A i \in rejected[w] : ext[i.row] = i.ext
      /\ \A i, k \in rejected[w] : i.row = k.row => i = k
  BY <1>1, <1>3 DEF InPlaceOf, Claimed
<1>5. \/ Move(j.row, j.ext, j.new)
      \/ UNCHANGED <<ext, superseded>> /\ (j.new = NoBanner \/ Taken(j.row, j.new))
  BY DEF Settle, Adopt
<1>6. \/ pc'[w] \in {"work", "check"}
      \/ pc'[w] = "release" /\ job'[w] = j /\ UNCHANGED ext
  BY RunMoves DEF Settle, Adopt
<1>7. \A i \in rejected[w] : i.row \in Rows
  BY ReadsAreReal
<1>8. \A r \in Rows \ {j.row} : ext'[r] = ext[r]
  BY <1>5 DEF Move, TypeInv, RowsOK
<1>9. InPlaceOf(w)'
  <2>1. \A i \in rejected'[w] : ext'[i.row] = i.ext
    BY <1>1, <1>4, <1>7, <1>8
  <2> QED BY <1>1, <1>4, <1>6, <2>1 DEF InPlaceOf, Claimed
<1>10. AllKnown'
  <2> SUFFICES ASSUME NEW b \in listed PROVE HasRow(b)'
    BY <1>1 DEF AllKnown
  <2>1. b # NoBanner
    BY BannersAreReal
  <2>2. HasRow(b) \/ b = j.new
    BY <1>2, <1>3 DEF AllKnown, OnItsWay
  <2>3. CASE Move(j.row, j.ext, j.new)
    <3>1. /\ ext'[j.row] = j.new
          /\ superseded'[j.row] = superseded[j.row] \cup {ext[j.row]}
          /\ \A r \in Rows \ {j.row} : ext'[r] = ext[r] /\ superseded'[r] = superseded[r]
      BY <1>1, <1>4, <2>3 DEF Move, TypeInv, RowsOK
    <3> QED BY <1>1, <2>2, <3>1 DEF HasRow
  <2>4. CASE UNCHANGED <<ext, superseded>> /\ (j.new = NoBanner \/ Taken(j.row, j.new))
    BY <2>1, <2>2, <2>4 DEF HasRow, Taken
  <2> QED BY <1>5, <2>3, <2>4
<1> QED BY <1>2, <1>9, <1>10 DEF BannerInv, InPlace

LEMMA BannerStep ==
    ASSUME NoOverlap
    PROVE  TypeInv /\ BannerInv /\ [Next]_vars => BannerInv'
<1> SUFFICES ASSUME TypeInv, BannerInv, [Next]_vars PROVE BannerInv'
  OBVIOUS
<1>1. CASE \E w \in Runs : Running(w) \/ Throw(w) \/ Crash(w)
  <2> PICK w \in Runs : Running(w) \/ Throw(w) \/ Crash(w)
    BY <1>1
  <2>1. faults \in Nat /\ (faults' = faults \/ faults' = faults + 1)
    BY DEF TypeInv, PlatformOK, Running, Polling, Repairing, Escalating, Reclaim, ReadLocals, List,
           WriteVerdict, ReportMissing, Archive, Pick, Rewrite, Claim, Submit, Settle, Adopt, Release,
           Check, Deliver, Log, Park, Throw, Crash, Finish, Fault
  <2>2. CASE faults' > 0
    BY <2>2 DEF BannerInv
  <2>3. CASE ~(faults' > 0)
    <3>1. faults = 0 /\ faults' = faults
      BY <2>1, <2>3
    <3>2. ~Throw(w) /\ ~Crash(w)
      BY <3>1 DEF Throw, Crash, Fault
    <3> QED BY <3>1, <3>2, BannerPolling, BannerBusy, BannerMade, BannerSettled
            DEF Running, Repairing
  <2> QED BY <2>2, <2>3
<1>2. CASE UNCHANGED vars
  BY <1>2, BannerFrame DEF vars, rowVars, platformVars
<1>3. CASE \E s \in Syncs : Syncing(s)
  <2> PICK s \in Syncs : Syncing(s)
    BY <1>3
  <2>1. UNCHANGED <<faults, listed, superseded, runVars>>
    BY DEF Syncing, ReadMarked, ListRemote, Upsert, EndSync, rowVars, platformVars
  <2>2. \A r \in Rows : ext[r] # NoBanner => ext'[r] = ext[r]
    <3>1. CASE Upsert(s)
      BY <3>1 DEF Upsert, TypeInv, RowsOK
    <3>2. CASE ReadMarked(s) \/ ListRemote(s) \/ EndSync(s)
      BY <3>2 DEF ReadMarked, ListRemote, EndSync, rowVars
    <3> QED BY <3>1, <3>2 DEF Syncing
  <2> QED BY <2>1, <2>2, BannerFrame
<1>4. CASE (\E b \in Banners : Judge(b)) \/ (\E r \in Rows : GrowStale(r) \/ BackoffEnds(r))
  BY <1>4, BannerFrame DEF Judge, GrowStale, BackoffEnds, rowVars, platformVars
<1> QED BY <1>1, <1>2, <1>3, <1>4 DEF Next

\* A banner a replacement has made is known by a row, as its ad or as one it left
\* behind, or its run is about to write it down (BannerIsKnown).
THEOREM BannerIsKnownWithoutOverlap == ASSUME NoOverlap PROVE Spec => []BannerIsKnown
<1>1. Init => BannerInv
  <2> SUFFICES ASSUME Init PROVE AllKnown /\ InPlace
    BY DEF BannerInv
  <2>1. \A b \in listed : b \in Rows /\ ext[b] = b
    BY ModerationAssumption DEF Init, Rows, Banners
  <2>2. AllKnown
    BY <2>1 DEF AllKnown, HasRow
  <2>3. \A w \in Runs : pc[w] = "idle" /\ locals[w] = <<>> /\ rejected[w] = {}
    BY DEF Init
  <2> QED BY <2>2, <2>3 DEF InPlace, InPlaceOf, Claimed
<1>2. TypeInv /\ BannerInv /\ [Next]_vars => BannerInv'
  BY BannerStep
<1>3. BannerInv => BannerIsKnown
  BY DEF BannerInv, AllKnown, HasRow, OnItsWay, BannerIsKnown
<1> QED BY <1>1, <1>2, <1>3, TypeInit, TypeStep, PTL DEF Spec
=============================================================================
