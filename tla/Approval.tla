------------------------------ MODULE Approval ------------------------------
(***************************************************************************)
(* The approval subsystem (src/src/approval): a change the optimizer, the  *)
(* campaign planner or the A/B evaluation wants to make becomes a row of   *)
(* PendingApproval and a Telegram card with buttons.  Button presses       *)
(* (processApprovalCallback) and cron passes (expireApprovals) run in      *)
(* different processes and share only the database, so every decision is a *)
(* conditional UPDATE.  One action below is one await of the code: what    *)
(* happens between two awaits of one process can be interleaved with every *)
(* other process, and a process can die there.                             *)
(*                                                                         *)
(* Time is counted in ticks of STUCK_APPROVAL_MINUTES or less.             *)
(***************************************************************************)
EXTENDS Naturals

CONSTANTS Cards,        \* approval cards (PendingApproval rows)
          Presses,      \* callback handlers the bot can run at one time
          Crons,        \* processes that can run the expire-approvals job
          NoCard,       \* the job of an idle process
          TTL,          \* APPROVAL_TTL_MINUTES, in ticks
          StuckAfter,   \* STUCK_APPROVAL_MINUTES, in ticks
          MaxClock,     \* bound on the clock
          MaxFaults     \* bound on the processes that die and row updates that fail

Workers == Presses \cup Crons

ASSUME ApprovalAssumption ==
    /\ NoCard \notin Cards
    /\ Presses \cap Crons = {}
    /\ TTL \in Nat \ {0}
    /\ StuckAfter \in Nat \ {0}
    /\ MaxClock \in Nat
    /\ MaxFaults \in Nat

VARIABLES
  (*  the row of PendingApproval  *)
  decision,     \* the column decision; "NONE" before the insert
  decidedAt,    \* the column decidedAt
  expiresAt,    \* the column expiresAt
  error,        \* what the column error tells
  msgSaved,     \* the column tgMessageId is not null
  promised,     \* payload.meta.dryRun: the card says "dry run"
  keyHeld,      \* the issuer's IdempotencyKey that silences a second card
  (*  outside the database  *)
  issuing,      \* where createApproval is with the card
  inChat,       \* the card hangs in the chat and its buttons work
  shown,        \* what the card's text says
  told,         \* "result unknown, check the cabinet" messages sent
  writes,       \* write requests sent to the cabinet
  effect,       \* what the cabinet did with them
  dryRun,       \* DRY_RUN of the running deployment
  clock,
  (*  the processes  *)
  pc,           \* the await a process is at
  job,          \* the card it works on
  now,          \* the time it read when its handler or pass began
  todo,         \* a cron pass: the selected cards not looked at yet
  resume,       \* a cron pass: those it selected as APPROVED
  dry,          \* the mode applyApproval decided on
  notes,        \* applyApproval has something to add to the outcome
  faults        \* processes that died and row updates that failed so far

rowVars  == <<decision, decidedAt, expiresAt, error, msgSaved, promised, keyHeld>>
chatVars == <<inChat, shown, told>>
cabinetVars == <<writes, effect>>
passVars == <<now, todo, resume>>
applyVars == <<dry, notes>>
workerVars == <<pc, job, passVars, applyVars>>
vars == <<rowVars, issuing, chatVars, cabinetVars, dryRun, clock, workerVars, faults>>

-----------------------------------------------------------------------------
Decisions == {"NONE", "PENDING", "APPROVED", "REJECTED", "EXPIRED",
              "APPLYING", "APPLIED", "FAILED"}

\* Decisions no code path leaves.
Final == {"REJECTED", "EXPIRED", "APPLIED", "FAILED"}

\* The awaits of applyApproval behind the lease, up to the row's last update.
Leased == {"prepare", "execute", "record", "finish", "fail"}

\* The awaits at which a process has no card in hand.
Between == {"idle", "expire", "reconcile"}

Pcs == {"approve", "reject", "explain", "lease", "release", "tell", "showRejected",
        "showExpired", "showApplied", "showFailed"} \cup Leased \cup Between

RowsOK ==
    /\ decision \in [Cards -> Decisions]
    /\ decidedAt \in [Cards -> Nat]
    /\ expiresAt \in [Cards -> Nat]
    /\ error \in [Cards -> {"none", "undelivered", "reason", "notes", "stuck", "abandoned"}]
    /\ msgSaved \in [Cards -> BOOLEAN]
    /\ promised \in [Cards -> BOOLEAN]
    /\ keyHeld \in [Cards -> BOOLEAN]

OutsideOK ==
    /\ issuing \in [Cards -> {"new", "send", "save", "undelivered", "done"}]
    /\ inChat \in [Cards -> BOOLEAN]
    /\ shown \in [Cards -> {"question", "rejected", "expired", "applied", "failed"}]
    /\ told \in [Cards -> Nat]
    /\ writes \in [Cards -> Nat]
    /\ effect \in [Cards -> {"untouched", "changed", "nothingToDo", "refused", "lost"}]
    /\ dryRun \in BOOLEAN
    /\ clock \in Nat
    /\ faults \in Nat

WorkersOK ==
    /\ pc \in [Workers -> Pcs]
    /\ job \in [Workers -> Cards \cup {NoCard}]
    /\ \A w \in Workers : pc[w] \notin Between => job[w] \in Cards
    /\ now \in [Workers -> Nat]
    /\ todo \in [Workers -> SUBSET Cards]
    /\ resume \in [Workers -> SUBSET Cards]
    /\ dry \in [Workers -> BOOLEAN]
    /\ notes \in [Workers -> BOOLEAN]

\* Every variable has its type, and a process that is at work has a card.
TypeOK == RowsOK /\ OutsideOK /\ WorkersOK

\* A process dies, or the database fails an update; MaxFaults of them happen.
Fault ==
    /\ faults < MaxFaults
    /\ faults' = faults + 1

-----------------------------------------------------------------------------
(* createApproval: the row first, then the message, then the message's id. *)

\* The row is inserted; the card's mode is fixed here, from DRY_RUN or the
\* issuer's own request.  An issuer such as the A/B evaluation already holds an
\* idempotency key.  Cards are issued early enough for their deadlines to come
\* before MaxClock.
Insert(a) ==
    /\ issuing[a] = "new"
    /\ clock + TTL + StuckAfter <= MaxClock
    /\ \E asked \in BOOLEAN : promised' = [promised EXCEPT ![a] = dryRun \/ asked]
    /\ decision' = [decision EXCEPT ![a] = "PENDING"]
    /\ expiresAt' = [expiresAt EXCEPT ![a] = clock + TTL]
    /\ keyHeld' = [keyHeld EXCEPT ![a] = TRUE]
    /\ issuing' = [issuing EXCEPT ![a] = "send"]
    /\ UNCHANGED <<decidedAt, error, msgSaved, chatVars, cabinetVars, dryRun, clock,
                   workerVars, faults>>

\* sendMessage returns, or throws: the message may hang in the chat all the same.
Send(a) ==
    /\ issuing[a] = "send"
    /\ \/ /\ inChat' = [inChat EXCEPT ![a] = TRUE]
          /\ issuing' = [issuing EXCEPT ![a] = "save"]
       \/ /\ \E delivered \in BOOLEAN : inChat' = [inChat EXCEPT ![a] = delivered]
          /\ issuing' = [issuing EXCEPT ![a] = "undelivered"]
    /\ UNCHANGED <<rowVars, shown, told, cabinetVars, dryRun, clock, workerVars, faults>>

\* The unconditional update {tgMessageId, error: null}; when both attempts fail
\* the row stays as it is and the issuer still reports success.
SaveMessageId(a) ==
    /\ issuing[a] = "save"
    /\ issuing' = [issuing EXCEPT ![a] = "done"]
    /\ \/ /\ msgSaved' = [msgSaved EXCEPT ![a] = TRUE]
          /\ error' = [error EXCEPT ![a] = "none"]
          /\ UNCHANGED faults
       \/ Fault /\ UNCHANGED <<msgSaved, error>>
    /\ UNCHANGED <<decision, decidedAt, expiresAt, promised, keyHeld, chatVars,
                   cabinetVars, dryRun, clock, workerVars>>

\* The update {error: message} after a failed sendMessage.  When it throws, so
\* does createApproval, and the issuer gives its key back.
SaveUndelivered(a) ==
    /\ issuing[a] = "undelivered"
    /\ issuing' = [issuing EXCEPT ![a] = "done"]
    /\ \/ /\ error' = [error EXCEPT ![a] = "undelivered"]
          /\ UNCHANGED <<keyHeld, faults>>
       \/ /\ Fault
          /\ keyHeld' = [keyHeld EXCEPT ![a] = FALSE]
          /\ UNCHANGED error
    /\ UNCHANGED <<decision, decidedAt, expiresAt, msgSaved, promised, chatVars,
                   cabinetVars, dryRun, clock, workerVars>>

-----------------------------------------------------------------------------
(* What every process does with its own variables. *)

\* Process w goes on to await l with the same card.
Goto(w, l) ==
    /\ pc' = [pc EXCEPT ![w] = l]
    /\ UNCHANGED <<job, passVars, applyVars>>

\* Process w takes card a to await l.
Take(w, l, a) ==
    /\ pc' = [pc EXCEPT ![w] = l]
    /\ job' = [job EXCEPT ![w] = a]
    /\ UNCHANGED applyVars

\* A mutant of the operator below: the loop does not go on.
PutDownStaying(w, l) ==
    /\ job' = [job EXCEPT ![w] = NoCard]
    /\ UNCHANGED <<pc, now, todo, resume, dry, notes>>

\* Process w is through with its card: a callback handler returns, a cron pass
\* goes on at l with its next one.
PutDown(w, l) ==
    /\ pc' = [pc EXCEPT ![w] = IF w \in Crons THEN l ELSE "idle"]
    /\ job' = [job EXCEPT ![w] = NoCard]
    /\ now' = [now EXCEPT ![w] = IF w \in Crons THEN @ ELSE 0]
    /\ dry' = [dry EXCEPT ![w] = FALSE]
    /\ notes' = [notes EXCEPT ![w] = FALSE]
    /\ UNCHANGED <<todo, resume>>

\* The conditional UPDATEs set the decision and, most of them, its time.
Stamp(a, d, t) ==
    /\ decision' = [decision EXCEPT ![a] = d]
    /\ decidedAt' = [decidedAt EXCEPT ![a] = t]
    /\ UNCHANGED <<expiresAt, error, msgSaved, promised, keyHeld>>

-----------------------------------------------------------------------------
(* processApprovalCallback *)

\* Somebody presses a button of the card in its own chat.  Telegram retries
\* updates and clients keep old keyboards, so a press may come at any time,
\* however often.  (A press from another chat, an unknown button and "details"
\* change nothing.)
Press(w, a) ==
    /\ pc[w] = "idle"
    /\ inChat[a]
    /\ \E verdict \in {"approve", "reject"} : Take(w, verdict, a)
    /\ now' = [now EXCEPT ![w] = clock]
    /\ UNCHANGED <<todo, resume, rowVars, issuing, chatVars, cabinetVars, dryRun, clock, faults>>

\* A mutant of the condition below: only the deadline is checked.
ClaimWhereInTime(a, t) == expiresAt[a] > t

\* The WHERE of claim's conditional UPDATE.
ClaimWhere(a, t) == decision[a] = "PENDING" /\ expiresAt[a] > t

\* claim: the row goes to the first process whose condition still holds.
Claim(w) ==
    LET a == job[w] IN
    /\ pc[w] \in {"approve", "reject"}
    /\ \/ /\ ClaimWhere(a, now[w])
          /\ \/ pc[w] = "approve" /\ Stamp(a, "APPROVED", now[w]) /\ Goto(w, "lease")
             \/ pc[w] = "reject" /\ Stamp(a, "REJECTED", now[w]) /\ Goto(w, "showRejected")
       \/ /\ ~ClaimWhere(a, now[w])
          /\ Goto(w, "explain")
          /\ UNCHANGED rowVars
    /\ UNCHANGED <<issuing, chatVars, cabinetVars, dryRun, clock, faults>>

\* explainLostClaim: the loser reads the row to tell the human why, and closes
\* it when it finds it overdue.  The key of the issuer is left alone here.
Explain(w) ==
    LET a == job[w]
        overdue == decision[a] = "PENDING" /\ expiresAt[a] <= now[w]
    IN
    /\ pc[w] = "explain"
    /\ \/ overdue /\ Stamp(a, "EXPIRED", now[w]) /\ Goto(w, "showExpired")
       \/ ~overdue /\ PutDown(w, "idle") /\ UNCHANGED rowVars
    /\ UNCHANGED <<issuing, chatVars, cabinetVars, dryRun, clock, faults>>

-----------------------------------------------------------------------------
(* applyApproval *)

\* A mutant of the condition below: the lease is taken over from a process
\* that seems to be stuck.
LeaseWhereTakeOver(a) == decision[a] \in {"APPROVED", "APPLYING"}

\* The WHERE of leaseForApply's conditional UPDATE.
LeaseWhere(a) == decision[a] = "APPROVED"

\* leaseForApply: APPROVED becomes APPLYING for exactly one process; the others
\* skip the card.
Lease(w) ==
    LET a == job[w] IN
    /\ pc[w] = "lease"
    /\ \/ /\ LeaseWhere(a)
          /\ decision' = [decision EXCEPT ![a] = "APPLYING"]
          /\ Goto(w, "prepare")
       \/ ~LeaseWhere(a) /\ PutDown(w, "reconcile") /\ UNCHANGED decision
    /\ UNCHANGED <<decidedAt, expiresAt, error, msgSaved, promised, keyHeld, issuing,
                   chatVars, cabinetVars, dryRun, clock, faults>>

\* A mutant of the mode below: the flag of the running process decides alone.
ModeOfProcess(a) == dryRun

\* The mode of the write: a dry run if the card promised one or the deployment
\* runs dry now.
Mode(a) == promised[a] \/ dryRun

\* The payload is parsed, the context built, the mode fixed and, for a budget,
\* the live value compared with the card's.  Each of these can refuse the card.
Prepare(w) ==
    LET a == job[w] IN
    /\ pc[w] = "prepare"
    /\ \/ Goto(w, "fail")
       \/ /\ pc' = [pc EXCEPT ![w] = "execute"]
          /\ dry' = [dry EXCEPT ![w] = Mode(a)]
          /\ notes' = [notes EXCEPT ![w] = (promised[a] # dryRun)]
          /\ UNCHANGED <<job, passVars>>
    /\ UNCHANGED <<rowVars, issuing, chatVars, cabinetVars, dryRun, clock, faults>>

\* executeAction.  A dry run answers with the plan.  A real write is carried
\* out, finds nothing to change, is refused, or is carried out while its reply
\* is lost; the last two throw.
Execute(w) ==
    LET a == job[w] IN
    /\ pc[w] = "execute"
    /\ \/ dry[w] /\ Goto(w, "record") /\ UNCHANGED <<writes, effect>>
       \/ /\ ~dry[w]
          /\ writes' = [writes EXCEPT ![a] = @ + 1]
          /\ \/ /\ \E e \in {"changed", "nothingToDo"} : effect' = [effect EXCEPT ![a] = e]
                /\ Goto(w, "record")
             \/ /\ \E e \in {"refused", "lost"} : effect' = [effect EXCEPT ![a] = e]
                /\ Goto(w, "fail")
    /\ UNCHANGED <<rowVars, issuing, chatVars, dryRun, clock, faults>>

\* The change is in the cabinet: ChangeLog, bid journal, negated marks and local
\* rows are written, and a failure of any of them is only a note.
Record(w) ==
    /\ pc[w] = "record"
    /\ pc' = [pc EXCEPT ![w] = "finish"]
    /\ \E trouble \in BOOLEAN : notes' = [notes EXCEPT ![w] = @ \/ trouble]
    /\ UNCHANGED <<job, passVars, dry, rowVars, issuing, chatVars, cabinetVars, dryRun,
                   clock, faults>>

\* A mutant of the step below: bookkeeping that failed fails the card.
FinishStrictly(w) ==
    LET a == job[w] IN
    /\ pc[w] = "finish"
    /\ decision' = [decision EXCEPT ![a] = IF notes[w] THEN "FAILED" ELSE "APPLIED"]
    /\ Goto(w, "showApplied")
    /\ UNCHANGED <<decidedAt, expiresAt, error, msgSaved, promised, keyHeld, issuing,
                   chatVars, cabinetVars, dryRun, clock, faults>>

\* The unconditional update to APPLIED; when it fails the row stays APPLYING.
Finish(w) ==
    LET a == job[w] IN
    /\ pc[w] = "finish"
    /\ \/ /\ decision' = [decision EXCEPT ![a] = "APPLIED"]
          /\ error' = [error EXCEPT ![a] = IF notes[w] THEN "notes" ELSE "none"]
          /\ UNCHANGED faults
       \/ Fault /\ UNCHANGED <<decision, error>>
    /\ Goto(w, "showApplied")
    /\ UNCHANGED <<decidedAt, expiresAt, msgSaved, promised, keyHeld, issuing, chatVars,
                   cabinetVars, dryRun, clock>>

\* fail: the unconditional update to FAILED with the reason; when it fails the
\* row stays APPLYING.
Fail(w) ==
    LET a == job[w] IN
    /\ pc[w] = "fail"
    /\ \/ /\ decision' = [decision EXCEPT ![a] = "FAILED"]
          /\ error' = [error EXCEPT ![a] = "reason"]
          /\ UNCHANGED faults
       \/ Fault /\ UNCHANGED <<decision, error>>
    /\ Goto(w, "showFailed")
    /\ UNCHANGED <<decidedAt, expiresAt, msgSaved, promised, keyHeld, issuing, chatVars,
                   cabinetVars, dryRun, clock>>

\* The text editCard puts into the chat, by the await it is called from.
OutcomeText == [showRejected |-> "rejected", showExpired |-> "expired",
                showApplied |-> "applied", showFailed |-> "failed"]

\* editCard, best effort, and impossible without tgMessageId.
Show(w) ==
    LET a == job[w] IN
    /\ pc[w] \in DOMAIN OutcomeText
    /\ \/ msgSaved[a] /\ shown' = [shown EXCEPT ![a] = OutcomeText[pc[w]]]
       \/ UNCHANGED shown
    /\ PutDown(w, IF pc[w] = "showExpired" THEN "expire" ELSE "reconcile")
    /\ UNCHANGED <<rowVars, issuing, inChat, told, cabinetVars, dryRun, clock, faults>>

-----------------------------------------------------------------------------
(* expireApprovals: one cron pass, over snapshots it reads at its beginning and
   between its two halves. *)

\* A mutant of the step below: a card whose message id is unknown is passed over.
StartPassDelivered(w) ==
    /\ pc[w] = "idle"
    /\ pc' = [pc EXCEPT ![w] = "expire"]
    /\ now' = [now EXCEPT ![w] = clock]
    /\ todo' = [todo EXCEPT ![w] =
          {a \in Cards : decision[a] = "PENDING" /\ expiresAt[a] <= clock /\ msgSaved[a]}]
    /\ UNCHANGED <<job, resume, applyVars, rowVars, issuing, chatVars, cabinetVars,
                   dryRun, clock, faults>>

\* The pass reads the clock once and selects the overdue cards.
StartPass(w) ==
    /\ pc[w] = "idle"
    /\ pc' = [pc EXCEPT ![w] = "expire"]
    /\ now' = [now EXCEPT ![w] = clock]
    /\ todo' = [todo EXCEPT ![w] = {a \in Cards : decision[a] = "PENDING" /\ expiresAt[a] <= clock}]
    /\ UNCHANGED <<job, resume, applyVars, rowVars, issuing, chatVars, cabinetVars,
                   dryRun, clock, faults>>

\* A mutant of the condition below: the selected card is taken at its word.
ExpireWhereSelected(a) == TRUE

\* The WHERE of the UPDATE to EXPIRED.
ExpireWhere(a) == decision[a] = "PENDING"

\* One selected card; somebody's press may have been faster.
ExpireNext(w) ==
    /\ pc[w] = "expire"
    /\ \E a \in todo[w] :
          /\ todo' = [todo EXCEPT ![w] = @ \ {a}]
          /\ \/ ExpireWhere(a) /\ Stamp(a, "EXPIRED", now[w]) /\ Take(w, "release", a)
             \/ ~ExpireWhere(a) /\ UNCHANGED <<rowVars, pc, job, applyVars>>
    /\ UNCHANGED <<now, resume, issuing, chatVars, cabinetVars, dryRun, clock, faults>>

\* runExpiredHandlers: the subscriber gives the key back, so that the question can
\* be asked again; its failure is only logged.
Release(w) ==
    LET a == job[w] IN
    /\ pc[w] = "release"
    /\ \/ keyHeld' = [keyHeld EXCEPT ![a] = FALSE] /\ UNCHANGED faults
       \/ Fault /\ UNCHANGED keyHeld
    /\ Goto(w, "showExpired")
    /\ UNCHANGED <<decision, decidedAt, expiresAt, error, msgSaved, promised, issuing,
                   chatVars, cabinetVars, dryRun, clock>>

\* Candidates of reconcileStuckApprovals at time t: decided long ago, not settled,
\* not reported.
Stuck(a, t) ==
    /\ decision[a] \in {"APPROVED", "APPLYING"}
    /\ decidedAt[a] + StuckAfter <= t
    /\ error[a] # "stuck"

\* A mutant of the step below: only the started applications are looked for.
SelectStuckApplying(w) ==
    /\ pc[w] = "expire"
    /\ todo[w] = {}
    /\ todo' = [todo EXCEPT ![w] = {a \in Cards : Stuck(a, now[w]) /\ decision[a] = "APPLYING"}]
    /\ pc' = [pc EXCEPT ![w] = "reconcile"]
    /\ UNCHANGED <<job, now, resume, applyVars, rowVars, issuing, chatVars, cabinetVars,
                   dryRun, clock, faults>>

\* The second half of the pass begins with its own selection.
SelectStuck(w) ==
    /\ pc[w] = "expire"
    /\ todo[w] = {}
    /\ todo' = [todo EXCEPT ![w] = {a \in Cards : Stuck(a, now[w])}]
    /\ resume' = [resume EXCEPT ![w] = {a \in todo'[w] : decision[a] = "APPROVED"}]
    /\ pc' = [pc EXCEPT ![w] = "reconcile"]
    /\ UNCHANGED <<job, now, applyVars, rowVars, issuing, chatVars, cabinetVars,
                   dryRun, clock, faults>>

TooLateToResume(a, t) == t > decidedAt[a] + TTL

\* Two mutants of the conditions below: the card may have been reported, or
\* leased, since it was selected.
MarkWhereAnyError(a) == decision[a] = "APPLYING"
AbandonWhereUnsettled(a) == decision[a] \notin Final

\* The WHERE of markNotified's UPDATE, for a card selected as APPLYING.
MarkWhere(a) == decision[a] = "APPLYING" /\ error[a] # "stuck"

\* The WHERE of abandonApproved's UPDATE.
AbandonWhere(a) == decision[a] = "APPROVED"

\* finishApproved, too late: the numbers on the card are no longer valid.
Abandon(w, a) ==
    \/ /\ AbandonWhere(a)
       /\ decision' = [decision EXCEPT ![a] = "FAILED"]
       /\ error' = [error EXCEPT ![a] = "abandoned"]
       /\ Take(w, "showFailed", a)
    \/ ~AbandonWhere(a) /\ UNCHANGED <<decision, error, pc, job, applyVars>>

\* markNotified: the first process to mark the row tells the human.
MarkStuck(w, a) ==
    \/ /\ MarkWhere(a)
       /\ error' = [error EXCEPT ![a] = "stuck"]
       /\ Take(w, "tell", a)
       /\ UNCHANGED decision
    \/ ~MarkWhere(a) /\ UNCHANGED <<decision, error, pc, job, applyVars>>

\* One selected card: an approved one is applied, or abandoned when it is too
\* late; one being applied is only reported, never repeated.
ReconcileNext(w) ==
    /\ pc[w] = "reconcile"
    /\ \E a \in todo[w] :
          /\ todo' = [todo EXCEPT ![w] = @ \ {a}]
          /\ resume' = [resume EXCEPT ![w] = @ \ {a}]
          /\ \/ a \in resume[w] /\ TooLateToResume(a, now[w]) /\ Abandon(w, a)
             \/ /\ a \in resume[w]
                /\ ~TooLateToResume(a, now[w])
                /\ Take(w, "lease", a)
                /\ UNCHANGED <<decision, error>>
             \/ a \notin resume[w] /\ MarkStuck(w, a)
    /\ UNCHANGED <<decidedAt, expiresAt, msgSaved, promised, keyHeld, now, issuing,
                   chatVars, cabinetVars, dryRun, clock, faults>>

\* notifyStuck, best effort.
Tell(w) ==
    LET a == job[w] IN
    /\ pc[w] = "tell"
    /\ \/ told' = [told EXCEPT ![a] = @ + 1]
       \/ UNCHANGED told
    /\ PutDown(w, "reconcile")
    /\ UNCHANGED <<rowVars, issuing, inChat, shown, cabinetVars, dryRun, clock, faults>>

EndPass(w) ==
    /\ pc[w] = "reconcile"
    /\ todo[w] = {}
    /\ pc' = [pc EXCEPT ![w] = "idle"]
    /\ now' = [now EXCEPT ![w] = 0]
    /\ UNCHANGED <<job, todo, resume, applyVars, rowVars, issuing, chatVars, cabinetVars,
                   dryRun, clock, faults>>

-----------------------------------------------------------------------------
(* The environment *)

\* A process dies between two awaits: what it knew is gone, what it wrote stays.
Crash(w) ==
    /\ pc[w] # "idle"
    /\ Fault
    /\ pc' = [pc EXCEPT ![w] = "idle"]
    /\ job' = [job EXCEPT ![w] = NoCard]
    /\ now' = [now EXCEPT ![w] = 0]
    /\ todo' = [todo EXCEPT ![w] = {}]
    /\ resume' = [resume EXCEPT ![w] = {}]
    /\ dry' = [dry EXCEPT ![w] = FALSE]
    /\ notes' = [notes EXCEPT ![w] = FALSE]
    /\ UNCHANGED <<rowVars, issuing, chatVars, cabinetVars, dryRun, clock>>

\* createApproval dies after the insert.
IssuerCrash(a) ==
    /\ issuing[a] \in {"send", "save", "undelivered"}
    /\ Fault
    /\ issuing' = [issuing EXCEPT ![a] = "done"]
    /\ UNCHANGED <<rowVars, chatVars, cabinetVars, dryRun, clock, workerVars>>

\* A deployment with the other value of DRY_RUN.
Redeploy ==
    /\ dryRun' = ~dryRun
    /\ UNCHANGED <<rowVars, issuing, chatVars, cabinetVars, clock, workerVars, faults>>

\* createApproval takes seconds, a tick minutes: no card is half issued when a
\* tick ends.  Handlers and passes may take as long as they like.
Tick ==
    /\ clock < MaxClock
    /\ \A a \in Cards : issuing[a] \in {"new", "done"}
    /\ clock' = clock + 1
    /\ UNCHANGED <<rowVars, issuing, chatVars, cabinetVars, dryRun, workerVars, faults>>

-----------------------------------------------------------------------------
Init ==
    /\ decision = [a \in Cards |-> "NONE"]
    /\ decidedAt = [a \in Cards |-> 0]
    /\ expiresAt = [a \in Cards |-> 0]
    /\ error = [a \in Cards |-> "none"]
    /\ msgSaved = [a \in Cards |-> FALSE]
    /\ promised = [a \in Cards |-> FALSE]
    /\ keyHeld = [a \in Cards |-> FALSE]
    /\ issuing = [a \in Cards |-> "new"]
    /\ inChat = [a \in Cards |-> FALSE]
    /\ shown = [a \in Cards |-> "question"]
    /\ told = [a \in Cards |-> 0]
    /\ writes = [a \in Cards |-> 0]
    /\ effect = [a \in Cards |-> "untouched"]
    /\ dryRun \in BOOLEAN
    /\ clock = 0
    /\ pc = [w \in Workers |-> "idle"]
    /\ job = [w \in Workers |-> NoCard]
    /\ now = [w \in Workers |-> 0]
    /\ todo = [w \in Workers |-> {}]
    /\ resume = [w \in Workers |-> {}]
    /\ dry = [w \in Workers |-> FALSE]
    /\ notes = [w \in Workers |-> FALSE]
    /\ faults = 0

Issuing(a) == Insert(a) \/ Send(a) \/ SaveMessageId(a) \/ SaveUndelivered(a)

\* The steps applyApproval takes in either kind of process.
Applying(w) == \/ Lease(w) \/ Prepare(w) \/ Execute(w) \/ Record(w)
               \/ Finish(w) \/ Fail(w) \/ Show(w)

\* The steps of a handler or a pass that has begun.
Running(w) == \/ Claim(w) \/ Explain(w) \/ Applying(w) \/ ExpireNext(w) \/ Release(w)
              \/ SelectStuck(w) \/ ReconcileNext(w) \/ Tell(w) \/ EndPass(w)

Next ==
    \/ \E a \in Cards : Issuing(a) \/ IssuerCrash(a)
    \/ \E w \in Presses, a \in Cards : Press(w, a)
    \/ \E w \in Crons : StartPass(w)
    \/ \E w \in Workers : Running(w) \/ Crash(w)
    \/ Redeploy
    \/ Tick

Spec == Init /\ [][Next]_vars

\* The scheduler starts a pass every five minutes and a process that lives goes
\* on; nobody has to issue a card, press a button or redeploy.
Fairness ==
    /\ WF_vars(Tick)
    /\ \A a \in Cards : WF_vars(Send(a) \/ SaveMessageId(a) \/ SaveUndelivered(a))
    /\ \A w \in Crons : WF_vars(StartPass(w))
    /\ \A w \in Workers : WF_vars(Running(w))

FairSpec == Spec /\ Fairness

-----------------------------------------------------------------------------
(* Properties *)

\* However often buttons are pressed, updates redelivered, passes overlapped and
\* processes restarted, applyApproval sends at most one write request per card.
OnceOnly == \A a \in Cards : writes[a] <= 1

\* Every place that tells the client "not applied, nothing changed" is right: a
\* rejected or expired row, a card that shows it, and the reason an abandoned
\* card is closed with.
UntouchedIsUntouched ==
    \A a \in Cards :
        (\/ decision[a] \in {"REJECTED", "EXPIRED"}
         \/ shown[a] \in {"rejected", "expired"}
         \/ error[a] = "abandoned")
        => effect[a] = "untouched"

\* A card that promised a dry run writes nothing, although DRY_RUN may be switched
\* off between the card and the button, or between the lease and the write.
DryRunPromiseKept == \A a \in Cards : promised[a] => effect[a] = "untouched"

\* Once the cabinet has confirmed a change no bookkeeping failure turns the row
\* into FAILED, and a refusal or a lost reply is never reported as APPLIED.
OutcomeNotInverted ==
    \A a \in Cards :
        /\ decision[a] = "FAILED" => effect[a] \notin {"changed", "nothingToDo"}
        /\ decision[a] = "APPLIED" => effect[a] \notin {"refused", "lost"}

\* Two cron processes never report the same stuck card twice.
ToldOnce == \A a \in Cards : told[a] <= 1

\* The text left in the chat never contradicts the row, whichever process edited
\* it last; only a row whose last update failed may still be APPLYING.
CardAgreesWithRow ==
    \A a \in Cards :
        CASE shown[a] = "rejected" -> decision[a] = "REJECTED"
          [] shown[a] = "expired"  -> decision[a] = "EXPIRED"
          [] shown[a] = "applied"  -> decision[a] \in {"APPLIED", "APPLYING"}
          [] shown[a] = "failed"   -> decision[a] \in {"FAILED", "APPLYING"}
          [] OTHER -> TRUE

\* Handlers, passes, crashes and slow issuers together never take a card through
\* anything but its life cycle.
Lifecycle == INSTANCE ApprovalLifecycle
                 WITH Cards <- Cards, decision <- decision, writes <- writes
ImplementsLifecycle == Lifecycle!LifecycleSpec

\* Every card is answered for: it is decided at the latest by a pass after its
\* deadline.
PendingIsDecided ==
    \A a \in Cards : decision[a] = "PENDING" ~> decision[a] # "PENDING"

\* A human's yes is never forgotten: the card is settled, or its unknown outcome
\* is reported, although the process that took the yes may have died anywhere.
ApprovedIsSettled ==
    \A a \in Cards :
        decision[a] = "APPROVED" ~> (decision[a] \in Final \/ error[a] = "stuck")

\* What fail says of itself: "in the cabinet nothing has changed".  The lost
\* reply of a write that was carried out ends there too.
FailedMeansUntouched ==
    \A a \in Cards : decision[a] = "FAILED" => effect[a] \in {"untouched", "refused"}

\* What the scheduler says of an expired A/B card: it must give its idempotency
\* key back (here: when no process is at work on it and nothing failed).
ExpiredReturnsKey ==
    \A a \in Cards :
        (/\ decision[a] = "EXPIRED"
         /\ \A w \in Workers : job[w] # a
         /\ faults = 0)
        => ~keyHeld[a]
=============================================================================
