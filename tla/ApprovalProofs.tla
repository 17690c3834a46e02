--------------------------- MODULE ApprovalProofs ---------------------------
(***************************************************************************)
(* What holds of Approval for any number of cards, handlers, cron passes   *)
(* and faults, and for any deadlines: type correctness; the facts about    *)
(* the lease that make a card's write happen at most once; and that what a *)
(* card says of the cabinet is true: dry runs stay dry, a confirmed change *)
(* is never called a failure, and "nothing was changed" means that.        *)
(***************************************************************************)
EXTENDS Approval, TLAPS

USE DEF Workers

-----------------------------------------------------------------------------
(* The three parts of TypeOK under the steps the actions are built from. *)

LEMMA RowsSame == ASSUME RowsOK, UNCHANGED rowVars PROVE RowsOK'
  BY DEF RowsOK, rowVars

LEMMA OutsideSame ==
    ASSUME OutsideOK, UNCHANGED <<issuing, chatVars, cabinetVars, dryRun, clock, faults>>
    PROVE  OutsideOK'
  BY DEF OutsideOK, chatVars, cabinetVars

LEMMA WorkersSame == ASSUME WorkersOK, UNCHANGED workerVars PROVE WorkersOK'
  BY DEF WorkersOK, workerVars, passVars, applyVars

LEMMA StampOK ==
    ASSUME RowsOK, NEW a \in Cards, NEW d \in Decisions, NEW t \in Nat, Stamp(a, d, t)
    PROVE  RowsOK'
  BY DEF RowsOK, Stamp

LEMMA GotoOK ==
    ASSUME WorkersOK, NEW w \in Workers, pc[w] \notin Between, NEW l \in Pcs, Goto(w, l)
    PROVE  WorkersOK'
  BY DEF WorkersOK, Goto, passVars, applyVars

LEMMA TakeOK ==
    ASSUME WorkersOK, NEW w \in Workers, NEW l \in Pcs, NEW a \in Cards, Take(w, l, a),
           now' \in [Workers -> Nat], todo' \in [Workers -> SUBSET Cards],
           resume' \in [Workers -> SUBSET Cards]
    PROVE  WorkersOK'
  BY DEF WorkersOK, Take, applyVars

LEMMA PutDownOK ==
    ASSUME WorkersOK, NEW w \in Workers, NEW l \in Between, PutDown(w, l)
    PROVE  WorkersOK'
<1>1. pc' \in [Workers -> Pcs]
  BY DEF WorkersOK, PutDown, Between, Pcs
<1>2. job' \in [Workers -> Cards \cup {NoCard}]
  BY DEF WorkersOK, PutDown
<1>3. ASSUME NEW v \in Workers, pc'[v] \notin Between PROVE job'[v] \in Cards
  BY <1>3 DEF WorkersOK, PutDown, Between
<1>4. now' \in [Workers -> Nat]
  BY DEF WorkersOK, PutDown
<1>5. /\ todo' \in [Workers -> SUBSET Cards]
      /\ resume' \in [Workers -> SUBSET Cards]
  BY DEF WorkersOK, PutDown
<1>6. /\ dry' \in [Workers -> BOOLEAN]
      /\ notes' \in [Workers -> BOOLEAN]
  BY DEF WorkersOK, PutDown
<1> QED BY <1>1, <1>2, <1>3, <1>4, <1>5, <1>6 DEF WorkersOK

LEMMA FaultOK == ASSUME faults \in Nat, Fault PROVE faults' \in Nat
  BY DEF Fault

-----------------------------------------------------------------------------
(* Type correctness, one lemma per group of actions. *)

LEMMA TypeInit == Init => TypeOK
  BY ApprovalAssumption DEF Init, TypeOK, RowsOK, OutsideOK, WorkersOK, Decisions, Pcs, Between

LEMMA TypeIssuing ==
    ASSUME TypeOK, NEW a \in Cards, Issuing(a) \/ IssuerCrash(a)
    PROVE  TypeOK'
<1> USE DEF TypeOK
<1>1. CASE Insert(a)
  <2>1. RowsOK'
    BY <1>1, ApprovalAssumption DEF Insert, RowsOK, OutsideOK, Decisions
  <2>2. OutsideOK'
    BY <1>1 DEF Insert, OutsideOK, chatVars, cabinetVars
  <2> QED BY <1>1, <2>1, <2>2, WorkersSame DEF Insert
<1>2. CASE Send(a)
  <2>1. /\ issuing' \in [Cards -> {"new", "send", "save", "undelivered", "done"}]
        /\ inChat' \in [Cards -> BOOLEAN]
    BY <1>2 DEF Send, OutsideOK
  <2>2. OutsideOK'
    BY <1>2, <2>1 DEF Send, OutsideOK, cabinetVars
  <2> QED BY <1>2, <2>2, RowsSame, WorkersSame DEF Send
<1>3. CASE SaveMessageId(a)
  <2>1. /\ msgSaved' \in [Cards -> BOOLEAN]
        /\ error' \in [Cards -> {"none", "undelivered", "reason", "notes", "stuck", "abandoned"}]
    <3>1. CASE UNCHANGED <<msgSaved, error>>  BY <3>1 DEF RowsOK
    <3>2. CASE /\ msgSaved' = [msgSaved EXCEPT ![a] = TRUE]
               /\ error' = [error EXCEPT ![a] = "none"]
      BY <3>2 DEF RowsOK
    <3> QED BY <1>3, <3>1, <3>2 DEF SaveMessageId
  <2>2. RowsOK'
    BY <1>3, <2>1 DEF SaveMessageId, RowsOK
  <2>3. faults' \in Nat
    BY <1>3, FaultOK DEF SaveMessageId, OutsideOK
  <2>4. OutsideOK'
    BY <1>3, <2>3 DEF SaveMessageId, OutsideOK, chatVars, cabinetVars
  <2> QED BY <1>3, <2>2, <2>4, WorkersSame DEF SaveMessageId
<1>4. CASE SaveUndelivered(a)
  <2>1. /\ keyHeld' \in [Cards -> BOOLEAN]
        /\ error' \in [Cards -> {"none", "undelivered", "reason", "notes", "stuck", "abandoned"}]
    <3>1. CASE error' = [error EXCEPT ![a] = "undelivered"] /\ UNCHANGED keyHeld
      BY <3>1 DEF RowsOK
    <3>2. CASE keyHeld' = [keyHeld EXCEPT ![a] = FALSE] /\ UNCHANGED error
      BY <3>2 DEF RowsOK
    <3> QED BY <1>4, <3>1, <3>2 DEF SaveUndelivered
  <2>2. RowsOK'
    BY <1>4, <2>1 DEF SaveUndelivered, RowsOK
  <2>3. faults' \in Nat
    BY <1>4, FaultOK DEF SaveUndelivered, OutsideOK
  <2>4. OutsideOK'
    BY <1>4, <2>3 DEF SaveUndelivered, OutsideOK, chatVars, cabinetVars
  <2> QED BY <1>4, <2>2, <2>4, WorkersSame DEF SaveUndelivered
<1>5. CASE IssuerCrash(a)
  <2>1. OutsideOK'
    BY <1>5, FaultOK DEF IssuerCrash, OutsideOK, chatVars, cabinetVars
  <2> QED BY <1>5, <2>1, RowsSame, WorkersSame DEF IssuerCrash
<1> QED BY <1>1, <1>2, <1>3, <1>4, <1>5 DEF Issuing

LEMMA TypePress ==
    ASSUME TypeOK, NEW w \in Presses, NEW a \in Cards, Press(w, a)
    PROVE  TypeOK'
<1> USE DEF TypeOK
<1>1. PICK verdict \in {"approve", "reject"} : Take(w, verdict, a)
  BY DEF Press
<1>2. now' \in [Workers -> Nat]
  BY DEF Press, WorkersOK, OutsideOK
<1>3. WorkersOK'
  BY <1>1, <1>2, TakeOK DEF Press, WorkersOK, Pcs
<1> QED BY <1>3, RowsSame, OutsideSame DEF Press

LEMMA TypeClaim ==
    ASSUME TypeOK, NEW w \in Workers, Claim(w) \/ Explain(w)
    PROVE  TypeOK'
<1> USE DEF TypeOK
<1>0. job[w] \in Cards /\ pc[w] \notin Between /\ now[w] \in Nat
  BY DEF Claim, Explain, WorkersOK, Between
<1>1. CASE Claim(w)
  <2>1. RowsOK'
    <3>1. CASE Stamp(job[w], "APPROVED", now[w]) \/ Stamp(job[w], "REJECTED", now[w])
      BY <1>0, <3>1, StampOK DEF Decisions
    <3>2. CASE UNCHANGED rowVars  BY <3>2, RowsSame
    <3> QED BY <1>1, <3>1, <3>2 DEF Claim
  <2>2. WorkersOK'
    <3>1. \E l \in {"lease", "showRejected", "explain"} : Goto(w, l)
      BY <1>1 DEF Claim
    <3> QED BY <1>0, <3>1, GotoOK DEF Pcs
  <2> QED BY <1>1, <2>1, <2>2, OutsideSame DEF Claim
<1>2. CASE Explain(w)
  <2>1. CASE Stamp(job[w], "EXPIRED", now[w]) /\ Goto(w, "showExpired")
    BY <1>0, <1>2, <2>1, StampOK, GotoOK, OutsideSame DEF Explain, Decisions, Pcs
  <2>2. CASE PutDown(w, "idle") /\ UNCHANGED rowVars
    BY <1>2, <2>2, PutDownOK, RowsSame, OutsideSame DEF Explain, Between
  <2> QED BY <1>2, <2>1, <2>2 DEF Explain
<1> QED BY <1>1, <1>2

LEMMA TypeApplying ==
    ASSUME TypeOK, NEW w \in Workers, Applying(w)
    PROVE  TypeOK'
<1> USE DEF TypeOK
<1>0. ASSUME pc[w] \notin Between PROVE job[w] \in Cards
  BY <1>0 DEF WorkersOK
<1>1. CASE Lease(w)
  <2>0. job[w] \in Cards /\ pc[w] \notin Between
    BY <1>0, <1>1 DEF Lease, Between
  <2>1. CASE decision' = [decision EXCEPT ![job[w]] = "APPLYING"] /\ Goto(w, "prepare")
    <3>1. RowsOK'  BY <1>1, <2>1 DEF Lease, RowsOK, Decisions
    <3>2. WorkersOK'  BY <2>0, <2>1, GotoOK DEF Pcs, Leased
    <3> QED BY <1>1, <3>1, <3>2, OutsideSame DEF Lease
  <2>2. CASE PutDown(w, "reconcile") /\ UNCHANGED decision
    <3>1. RowsOK'  BY <1>1, <2>2 DEF Lease, RowsOK
    <3>2. WorkersOK'  BY <2>2, PutDownOK DEF Between
    <3> QED BY <1>1, <3>1, <3>2, OutsideSame DEF Lease
  <2> QED BY <1>1, <2>1, <2>2 DEF Lease
<1>2. CASE Prepare(w)
  <2>0. job[w] \in Cards /\ pc[w] \notin Between
    BY <1>0, <1>2 DEF Prepare, Between
  <2>1. CASE Goto(w, "fail")
    BY <1>2, <2>0, <2>1, GotoOK, RowsSame, OutsideSame DEF Prepare, Pcs, Leased
  <2>2. CASE /\ pc' = [pc EXCEPT ![w] = "execute"]
             /\ dry' = [dry EXCEPT ![w] = Mode(job[w])]
             /\ notes' = [notes EXCEPT ![w] = (promised[job[w]] # dryRun)]
             /\ UNCHANGED <<job, passVars>>
    <3>1. Mode(job[w]) \in BOOLEAN  BY DEF Mode
    <3>2. WorkersOK'  BY <2>0, <2>2, <3>1 DEF WorkersOK, passVars, Pcs, Leased
    <3> QED BY <1>2, <3>2, RowsSame, OutsideSame DEF Prepare
  <2> QED BY <1>2, <2>1, <2>2 DEF Prepare
<1>3. CASE Execute(w)
  <2>0. job[w] \in Cards /\ pc[w] \notin Between
    BY <1>0, <1>3 DEF Execute, Between
  <2>1. /\ writes' \in [Cards -> Nat]
        /\ effect' \in [Cards -> {"untouched", "changed", "nothingToDo", "refused", "lost"}]
    BY <1>3, <2>0 DEF Execute, OutsideOK
  <2>2. OutsideOK'  BY <1>3, <2>1 DEF Execute, OutsideOK, chatVars
  <2>3. \E l \in {"record", "fail"} : Goto(w, l)  BY <1>3 DEF Execute
  <2>4. WorkersOK'  BY <2>0, <2>3, GotoOK DEF Pcs, Leased
  <2> QED BY <1>3, <2>2, <2>4, RowsSame DEF Execute
<1>4. CASE Record(w)
  <2>0. job[w] \in Cards /\ pc[w] \notin Between
    BY <1>0, <1>4 DEF Record, Between
  <2>1. notes' \in [Workers -> BOOLEAN]  BY <1>4 DEF Record, WorkersOK
  <2>2. WorkersOK'  BY <1>4, <2>0, <2>1 DEF Record, WorkersOK, passVars, Pcs, Leased
  <2> QED BY <1>4, <2>2, RowsSame, OutsideSame DEF Record
<1>5. CASE Finish(w) \/ Fail(w)
  <2>0. job[w] \in Cards /\ pc[w] \notin Between
    BY <1>0, <1>5 DEF Finish, Fail, Between
  <2>1. /\ decision' \in [Cards -> Decisions]
        /\ error' \in [Cards -> {"none", "undelivered", "reason", "notes", "stuck", "abandoned"}]
    <3>1. CASE UNCHANGED <<decision, error>>  BY <3>1 DEF RowsOK
    <3>2. CASE /\ decision' = [decision EXCEPT ![job[w]] = "APPLIED"]
               /\ error' = [error EXCEPT ![job[w]] = IF notes[w] THEN "notes" ELSE "none"]
      BY <3>2 DEF RowsOK, Decisions
    <3>3. CASE /\ decision' = [decision EXCEPT ![job[w]] = "FAILED"]
               /\ error' = [error EXCEPT ![job[w]] = "reason"]
      BY <3>3 DEF RowsOK, Decisions
    <3> QED BY <1>5, <3>1, <3>2, <3>3 DEF Finish, Fail
  <2>2. RowsOK'  BY <1>5, <2>1 DEF Finish, Fail, RowsOK
  <2>3. faults' \in Nat  BY <1>5, FaultOK DEF Finish, Fail, OutsideOK
  <2>4. OutsideOK'  BY <1>5, <2>3 DEF Finish, Fail, OutsideOK, chatVars, cabinetVars
  <2>5. \E l \in {"showApplied", "showFailed"} : Goto(w, l)  BY <1>5 DEF Finish, Fail
  <2>6. WorkersOK'  BY <2>0, <2>5, GotoOK DEF Pcs
  <2> QED BY <2>2, <2>4, <2>6
<1>6. CASE Show(w)
  <2>0. OutcomeText[pc[w]] \in {"rejected", "expired", "applied", "failed"}
    BY <1>6 DEF Show, OutcomeText
  <2>1. shown' \in [Cards -> {"question", "rejected", "expired", "applied", "failed"}]
    <3>1. CASE shown' = [shown EXCEPT ![job[w]] = OutcomeText[pc[w]]]
      BY <2>0, <3>1 DEF OutsideOK
    <3>2. CASE UNCHANGED shown  BY <3>2 DEF OutsideOK
    <3> QED BY <1>6, <3>1, <3>2 DEF Show
  <2>2. OutsideOK'  BY <1>6, <2>1 DEF Show, OutsideOK, cabinetVars
  <2>3. \E l \in {"expire", "reconcile"} : PutDown(w, l)  BY <1>6 DEF Show
  <2>4. WorkersOK'  BY <2>3, PutDownOK DEF Between
  <2> QED BY <1>6, <2>2, <2>4, RowsSame DEF Show
<1> QED BY <1>1, <1>2, <1>3, <1>4, <1>5, <1>6 DEF Applying

LEMMA TypePass ==
    ASSUME TypeOK, NEW w \in Workers,
           \/ w \in Crons /\ StartPass(w)
           \/ ExpireNext(w) \/ Release(w) \/ SelectStuck(w)
           \/ ReconcileNext(w) \/ Tell(w) \/ EndPass(w)
    PROVE  TypeOK'
<1> USE DEF TypeOK
<1>1. CASE StartPass(w)
  <2>1. now' \in [Workers -> Nat]  BY <1>1 DEF StartPass, WorkersOK, OutsideOK
  <2>2. todo' \in [Workers -> SUBSET Cards]  BY <1>1 DEF StartPass, WorkersOK
  <2>3. WorkersOK'
    BY <1>1, <2>1, <2>2 DEF StartPass, WorkersOK, applyVars, Pcs, Between
  <2> QED BY <1>1, <2>3, RowsSame, OutsideSame DEF StartPass
<1>2. CASE ExpireNext(w)
  <2>1. PICK a \in todo[w] :
          /\ todo' = [todo EXCEPT ![w] = @ \ {a}]
          /\ \/ ExpireWhere(a) /\ Stamp(a, "EXPIRED", now[w]) /\ Take(w, "release", a)
             \/ ~ExpireWhere(a) /\ UNCHANGED <<rowVars, pc, job, applyVars>>
    BY <1>2 DEF ExpireNext
  <2>2. a \in Cards /\ now[w] \in Nat  BY DEF WorkersOK
  <2>3. /\ todo' \in [Workers -> SUBSET Cards]
        /\ now' \in [Workers -> Nat]
        /\ resume' \in [Workers -> SUBSET Cards]
    BY <1>2, <2>1 DEF ExpireNext, WorkersOK
  <2>4. CASE Stamp(a, "EXPIRED", now[w]) /\ Take(w, "release", a)
    <3>1. RowsOK'  BY <2>2, <2>4, StampOK DEF Decisions
    <3>2. WorkersOK'  BY <2>2, <2>3, <2>4, TakeOK DEF Pcs
    <3> QED BY <1>2, <3>1, <3>2, OutsideSame DEF ExpireNext
  <2>5. CASE UNCHANGED <<rowVars, pc, job, applyVars>>
    <3>1. WorkersOK'  BY <2>3, <2>5 DEF WorkersOK, applyVars
    <3> QED BY <1>2, <2>5, <3>1, RowsSame, OutsideSame DEF ExpireNext
  <2> QED BY <2>1, <2>4, <2>5
<1>3. CASE Release(w)
  <2>1. keyHeld' \in [Cards -> BOOLEAN]
    <3>1. CASE keyHeld' = [keyHeld EXCEPT ![job[w]] = FALSE]  BY <3>1 DEF RowsOK
    <3>2. CASE UNCHANGED keyHeld  BY <3>2 DEF RowsOK
    <3> QED BY <1>3, <3>1, <3>2 DEF Release
  <2>2. RowsOK'  BY <1>3, <2>1 DEF Release, RowsOK
  <2>3. faults' \in Nat  BY <1>3, FaultOK DEF Release, OutsideOK
  <2>4. OutsideOK'  BY <1>3, <2>3 DEF Release, OutsideOK, chatVars, cabinetVars
  <2>5. WorkersOK'  BY <1>3, GotoOK DEF Release, Pcs, Between
  <2> QED BY <2>2, <2>4, <2>5
<1>4. CASE SelectStuck(w)
  <2>1. todo' \in [Workers -> SUBSET Cards]  BY <1>4 DEF SelectStuck, WorkersOK
  <2>2. {a \in todo'[w] : decision[a] = "APPROVED"} \in SUBSET Cards  BY <2>1
  <2>3. resume' \in [Workers -> SUBSET Cards]  BY <1>4, <2>2 DEF SelectStuck, WorkersOK
  <2>4. WorkersOK'
    BY <1>4, <2>1, <2>3 DEF SelectStuck, WorkersOK, applyVars, Pcs, Between
  <2> QED BY <1>4, <2>4, RowsSame, OutsideSame DEF SelectStuck
<1>5. CASE ReconcileNext(w)
  <2>1. PICK a \in todo[w] :
          /\ todo' = [todo EXCEPT ![w] = @ \ {a}]
          /\ resume' = [resume EXCEPT ![w] = @ \ {a}]
          /\ \/ Abandon(w, a)
             \/ Take(w, "lease", a) /\ UNCHANGED <<decision, error>>
             \/ MarkStuck(w, a)
    BY <1>5 DEF ReconcileNext
  <2>2. a \in Cards  BY DEF WorkersOK
  <2>3. /\ todo' \in [Workers -> SUBSET Cards]
        /\ resume' \in [Workers -> SUBSET Cards]
        /\ now' \in [Workers -> Nat]
    BY <1>5, <2>1 DEF ReconcileNext, WorkersOK
  <2>4. /\ decision' \in [Cards -> Decisions]
        /\ error' \in [Cards -> {"none", "undelivered", "reason", "notes", "stuck", "abandoned"}]
    <3>1. CASE UNCHANGED <<decision, error>>  BY <3>1 DEF RowsOK
    <3>2. CASE /\ decision' = [decision EXCEPT ![a] = "FAILED"]
               /\ error' = [error EXCEPT ![a] = "abandoned"]
      BY <3>2 DEF RowsOK, Decisions
    <3>3. CASE error' = [error EXCEPT ![a] = "stuck"] /\ UNCHANGED decision
      BY <3>3 DEF RowsOK
    <3> QED BY <2>1, <3>1, <3>2, <3>3 DEF Abandon, MarkStuck
  <2>5. RowsOK'  BY <1>5, <2>4 DEF ReconcileNext, RowsOK
  <2>6. \/ \E l \in {"showFailed", "lease", "tell"} : Take(w, l, a)
        \/ UNCHANGED <<pc, job, applyVars>>
    BY <2>1 DEF Abandon, MarkStuck
  <2>7. WorkersOK'
    <3>1. CASE \E l \in {"showFailed", "lease", "tell"} : Take(w, l, a)
      BY <2>2, <2>3, <3>1, TakeOK DEF Pcs
    <3>2. CASE UNCHANGED <<pc, job, applyVars>>
      BY <2>3, <3>2 DEF WorkersOK, applyVars
    <3> QED BY <2>6, <3>1, <3>2
  <2> QED BY <1>5, <2>5, <2>7, OutsideSame DEF ReconcileNext
<1>6. CASE Tell(w)
  <2>0. job[w] \in Cards  BY <1>6 DEF Tell, WorkersOK, Between
  <2>1. told' \in [Cards -> Nat]
    <3>1. CASE told' = [told EXCEPT ![job[w]] = @ + 1]  BY <2>0, <3>1 DEF OutsideOK
    <3>2. CASE UNCHANGED told  BY <3>2 DEF OutsideOK
    <3> QED BY <1>6, <3>1, <3>2 DEF Tell
  <2>2. OutsideOK'  BY <1>6, <2>1 DEF Tell, OutsideOK, cabinetVars
  <2>3. WorkersOK'  BY <1>6, PutDownOK DEF Tell, Between
  <2> QED BY <1>6, <2>2, <2>3, RowsSame DEF Tell
<1>7. CASE EndPass(w)
  <2>1. now' \in [Workers -> Nat]  BY <1>7 DEF EndPass, WorkersOK
  <2>2. WorkersOK'
    BY <1>7, <2>1 DEF EndPass, WorkersOK, applyVars, Pcs, Between
  <2> QED BY <1>7, <2>2, RowsSame, OutsideSame DEF EndPass
<1> QED BY <1>1, <1>2, <1>3, <1>4, <1>5, <1>6, <1>7

LEMMA TypeEnvironment ==
    ASSUME TypeOK, (\E w \in Workers : Crash(w)) \/ Redeploy \/ Tick
    PROVE  TypeOK'
<1> USE DEF TypeOK
<1>1. ASSUME NEW w \in Workers, Crash(w) PROVE TypeOK'
  <2>1. WorkersOK'
    <3>1. /\ pc' \in [Workers -> Pcs]
          /\ job' \in [Workers -> Cards \cup {NoCard}]
          /\ now' \in [Workers -> Nat]
      BY <1>1 DEF Crash, WorkersOK, Pcs, Between
    <3>2. /\ todo' \in [Workers -> SUBSET Cards]
          /\ resume' \in [Workers -> SUBSET Cards]
          /\ dry' \in [Workers -> BOOLEAN]
          /\ notes' \in [Workers -> BOOLEAN]
      BY <1>1 DEF Crash, WorkersOK
    <3>3. ASSUME NEW v \in Workers, pc'[v] \notin Between PROVE job'[v] \in Cards
      BY <1>1, <3>3 DEF Crash, WorkersOK, Between
    <3> QED BY <3>1, <3>2, <3>3 DEF WorkersOK
  <2>2. OutsideOK'
    BY <1>1, FaultOK DEF Crash, OutsideOK, chatVars, cabinetVars
  <2> QED BY <1>1, <2>1, <2>2, RowsSame DEF Crash
<1>2. CASE Redeploy
  <2>1. OutsideOK'  BY <1>2 DEF Redeploy, OutsideOK, chatVars, cabinetVars
  <2> QED BY <1>2, <2>1, RowsSame, WorkersSame DEF Redeploy
<1>3. CASE Tick
  <2>1. OutsideOK'  BY <1>3 DEF Tick, OutsideOK, chatVars, cabinetVars
  <2> QED BY <1>3, <2>1, RowsSame, WorkersSame DEF Tick
<1> QED BY <1>1, <1>2, <1>3

LEMMA TypeStep == TypeOK /\ [Next]_vars => TypeOK'
<1> SUFFICES ASSUME TypeOK, [Next]_vars PROVE TypeOK'
  OBVIOUS
<1>1. CASE UNCHANGED vars
  BY <1>1, RowsSame, OutsideSame, WorkersSame DEF TypeOK, vars
<1>2. CASE Next
  BY <1>2, TypeIssuing, TypePress, TypeClaim, TypeApplying, TypePass, TypeEnvironment
     DEF Next, Running
<1> QED BY <1>1, <1>2

\* Every variable keeps its type, and a process at work always has a card: no
\* handler or pass ever continues with the card of another.
THEOREM TypeCorrect == Spec => []TypeOK
<1>1. Init => TypeOK  BY TypeInit
<1>2. TypeOK /\ [Next]_vars => TypeOK'  BY TypeStep
<1> QED BY <1>1, <1>2, PTL DEF Spec

-----------------------------------------------------------------------------
(* The lease.  OnceOnly is not inductive: that the write of a leased card has
   not been sent yet, and that one process holds the lease, must be said too. *)

\* A card that is not issued yet has no row.
NewIsNone == \A a \in Cards : issuing[a] = "new" => decision[a] = "NONE"

\* The lease is visible in the row for as long as its holder works.
LeaseInRow == \A w \in Workers : pc[w] \in Leased => decision[job[w]] = "APPLYING"

\* The row of a card that a process is about to report as settled is not up for
\* the lease again.
Settling == {"showApplied", "showFailed"}
SettledRow ==
    \A w \in Workers :
        pc[w] \in Settling => decision[job[w]] \in {"APPLYING", "APPLIED", "FAILED"}

\* While one process holds the lease, no other holds it or has finished with it.
OneHolder ==
    \A v, w \in Workers :
        pc[v] \in Leased /\ pc[w] \in Leased \cup Settling /\ job[v] = job[w] => v = w

\* The write is still to come before and at executeAction.
WriteToCome == \A w \in Workers : pc[w] \in {"prepare", "execute"} => writes[job[w]] = 0

\* A row that is not being applied, or settled, has caused no write.
WriteIsLeased ==
    \A a \in Cards : writes[a] # 0 => decision[a] \in {"APPLYING", "APPLIED", "FAILED"}

LeaseInv ==
    NewIsNone /\ LeaseInRow /\ SettledRow /\ OneHolder /\ WriteToCome /\ WriteIsLeased
    /\ OnceOnly

LEMMA LeaseInit == Init => LeaseInv
  BY ApprovalAssumption
  DEF Init, LeaseInv, NewIsNone, LeaseInRow, SettledRow, OneHolder, WriteToCome, WriteIsLeased,
      OnceOnly, Leased, Settling

LEMMA LeaseIssuing ==
    ASSUME TypeOK, LeaseInv, NEW a \in Cards, Issuing(a) \/ IssuerCrash(a)
    PROVE  LeaseInv'
<1> USE DEF TypeOK, RowsOK, OutsideOK, WorkersOK, LeaseInv, NewIsNone, LeaseInRow, SettledRow, OneHolder,
            WriteToCome, WriteIsLeased, OnceOnly, Leased, Settling, Between, cabinetVars, workerVars
<1>1. CASE Insert(a)
  BY <1>1 DEF Insert
<1>2. CASE Send(a)
  BY <1>2 DEF Send, rowVars
<1>3. CASE SaveMessageId(a)
  BY <1>3 DEF SaveMessageId
<1>4. CASE SaveUndelivered(a)
  BY <1>4 DEF SaveUndelivered
<1>5. CASE IssuerCrash(a)
  BY <1>5 DEF IssuerCrash, rowVars
<1> QED BY <1>1, <1>2, <1>3, <1>4, <1>5 DEF Issuing

LEMMA LeaseApplying ==
    ASSUME TypeOK, LeaseInv, NEW w \in Workers, Applying(w)
    PROVE  LeaseInv'
<1> USE DEF TypeOK, RowsOK, OutsideOK, WorkersOK, LeaseInv, NewIsNone, LeaseInRow, SettledRow, OneHolder,
            WriteToCome, WriteIsLeased, OnceOnly, Leased, Between, Settling
<1>1. CASE Lease(w)
  <2>1. CASE LeaseWhere(job[w]) /\ decision' = [decision EXCEPT ![job[w]] = "APPLYING"]
                                /\ Goto(w, "prepare")
    <3>0. job[w] \in Cards  BY <1>1 DEF Lease
    <3>1. \A v \in Workers : pc[v] \in Leased \cup Settling => job[v] # job[w]
      BY <2>1 DEF LeaseWhere
    <3>2. OneHolder'  BY <1>1, <2>1, <3>1 DEF Lease, Goto
    <3>3. NewIsNone'  BY <1>1, <2>1, <3>0 DEF Lease, LeaseWhere
    <3>7. SettledRow'  BY <1>1, <2>1, <3>0, <3>1 DEF Lease, Goto
    <3>4. LeaseInRow'  BY <1>1, <2>1, <3>0 DEF Lease, Goto
    <3>5. WriteToCome'  BY <1>1, <2>1, <3>0 DEF Lease, LeaseWhere, Goto, cabinetVars
    <3>6. (WriteIsLeased /\ OnceOnly)'  BY <1>1, <2>1, <3>0 DEF Lease, cabinetVars
    <3> QED BY <3>2, <3>3, <3>4, <3>5, <3>6, <3>7
  <2>2. CASE PutDown(w, "reconcile") /\ UNCHANGED decision
    BY <1>1, <2>2 DEF Lease, PutDown, cabinetVars
  <2> QED BY <1>1, <2>1, <2>2 DEF Lease
<1>2. CASE Prepare(w)
  BY <1>2 DEF Prepare, Goto, rowVars, cabinetVars
<1>3. CASE Execute(w)
  <2>0. job[w] \in Cards /\ pc[w] = "execute"  BY <1>3 DEF Execute
  <2>1. PICK l \in {"record", "fail"} : Goto(w, l)  BY <1>3 DEF Execute
  <2>2. writes[job[w]] = 0 /\ decision[job[w]] = "APPLYING"  BY <2>0
  <2>3. \/ UNCHANGED writes
        \/ writes' = [writes EXCEPT ![job[w]] = @ + 1]
    BY <1>3 DEF Execute
  <2>4. (NewIsNone /\ LeaseInRow /\ SettledRow /\ OneHolder)'
    BY <1>3, <2>0, <2>1 DEF Execute, Goto, rowVars
  <2>5. (WriteIsLeased /\ OnceOnly)'
    BY <1>3, <2>0, <2>2, <2>3 DEF Execute, rowVars
  <2>6. WriteToCome'
    BY <1>3, <2>0, <2>1, <2>3 DEF Execute, Goto
  <2> QED BY <2>4, <2>5, <2>6
<1>4. CASE Record(w)
  BY <1>4 DEF Record, rowVars, cabinetVars
<1>5. CASE Finish(w) \/ Fail(w)
  <2>0. job[w] \in Cards /\ pc[w] \in Leased  BY <1>5 DEF Finish, Fail
  <2>1. \A v \in Workers : pc[v] \in Leased /\ job[v] = job[w] => v = w
    BY <2>0
  <2>2. PICK l \in Settling : Goto(w, l)
    BY <1>5 DEF Finish, Fail
  <2>3. PICK d \in {"APPLIED", "FAILED", "APPLYING"} : decision' = [decision EXCEPT ![job[w]] = d]
    <3>1. decision[job[w]] = "APPLYING"  BY <2>0
    <3>2. \/ UNCHANGED decision
          \/ \E d \in {"APPLIED", "FAILED"} : decision' = [decision EXCEPT ![job[w]] = d]
      BY <1>5 DEF Finish, Fail
    <3>3. CASE UNCHANGED decision
      <4>1. decision' = [decision EXCEPT ![job[w]] = "APPLYING"]  BY <3>1, <3>3
      <4> QED BY <4>1
    <3> QED BY <3>2, <3>3
  <2>4. UNCHANGED <<issuing, writes>>  BY <1>5 DEF Finish, Fail, cabinetVars
  <2>5. NewIsNone'  BY <2>0, <2>3, <2>4
  <2>6. (LeaseInRow /\ SettledRow)'  BY <2>0, <2>1, <2>2, <2>3 DEF Goto
  <2>7. OneHolder'  BY <2>0, <2>1, <2>2 DEF Goto
  <2>8. (WriteToCome /\ WriteIsLeased /\ OnceOnly)'  BY <2>0, <2>2, <2>3, <2>4 DEF Goto
  <2> QED BY <2>5, <2>6, <2>7, <2>8
<1>6. CASE Show(w)
  BY <1>6 DEF Show, PutDown, OutcomeText, rowVars, cabinetVars
<1> QED BY <1>1, <1>2, <1>3, <1>4, <1>5, <1>6 DEF Applying

LEMMA LeaseHandlers ==
    ASSUME TypeOK, LeaseInv, NEW w \in Workers,
           \/ \E a \in Cards : Press(w, a)
           \/ Claim(w) \/ Explain(w)
    PROVE  LeaseInv'
<1> USE DEF TypeOK, RowsOK, OutsideOK, WorkersOK, LeaseInv, NewIsNone, LeaseInRow, SettledRow,
            OneHolder, WriteToCome, WriteIsLeased, OnceOnly, Leased, Settling, Between
<1>1. ASSUME NEW a \in Cards, Press(w, a) PROVE LeaseInv'
  BY <1>1 DEF Press, Take, rowVars, cabinetVars
<1>2. CASE Claim(w)
  <2>0. job[w] \in Cards  BY <1>2 DEF Claim
  <2>1. CASE /\ ClaimWhere(job[w], now[w])
             /\ \/ Stamp(job[w], "APPROVED", now[w]) /\ Goto(w, "lease")
                \/ Stamp(job[w], "REJECTED", now[w]) /\ Goto(w, "showRejected")
    BY <1>2, <2>0, <2>1 DEF Claim, ClaimWhere, Stamp, Goto, cabinetVars
  <2>2. CASE Goto(w, "explain") /\ UNCHANGED rowVars
    BY <1>2, <2>2 DEF Claim, Goto, rowVars, cabinetVars
  <2> QED BY <1>2, <2>1, <2>2 DEF Claim
<1>3. CASE Explain(w)
  <2>0. job[w] \in Cards  BY <1>3 DEF Explain
  <2>1. CASE /\ decision[job[w]] = "PENDING"
             /\ Stamp(job[w], "EXPIRED", now[w])
             /\ Goto(w, "showExpired")
    BY <1>3, <2>0, <2>1 DEF Explain, Stamp, Goto, cabinetVars
  <2>2. CASE PutDown(w, "idle") /\ UNCHANGED rowVars
    BY <1>3, <2>2 DEF Explain, PutDown, rowVars, cabinetVars
  <2> QED BY <1>3, <2>1, <2>2 DEF Explain
<1> QED BY <1>1, <1>2, <1>3

LEMMA LeasePass ==
    ASSUME TypeOK, LeaseInv, NEW w \in Workers,
           \/ w \in Crons /\ StartPass(w)
           \/ ExpireNext(w) \/ Release(w) \/ SelectStuck(w)
           \/ ReconcileNext(w) \/ Tell(w) \/ EndPass(w)
    PROVE  LeaseInv'
<1> USE DEF TypeOK, RowsOK, OutsideOK, WorkersOK, LeaseInv, NewIsNone, LeaseInRow, SettledRow,
            OneHolder, WriteToCome, WriteIsLeased, OnceOnly, Leased, Settling, Between
<1>1. CASE StartPass(w)
  BY <1>1 DEF StartPass, rowVars, cabinetVars
<1>2. CASE ExpireNext(w)
  BY <1>2 DEF ExpireNext, ExpireWhere, Stamp, Take, rowVars, cabinetVars
<1>3. CASE Release(w)
  BY <1>3 DEF Release, Goto, cabinetVars
<1>4. CASE SelectStuck(w)
  BY <1>4 DEF SelectStuck, rowVars, cabinetVars
<1>5. CASE ReconcileNext(w)
  <2>1. PICK a \in todo[w] :
          \/ Abandon(w, a)
          \/ Take(w, "lease", a) /\ UNCHANGED <<decision, error>>
          \/ MarkStuck(w, a)
    BY <1>5 DEF ReconcileNext
  <2>2. a \in Cards  OBVIOUS
  <2>3. pc[w] = "reconcile" /\ UNCHANGED <<issuing, writes>>
    BY <1>5 DEF ReconcileNext, cabinetVars
  <2>4. CASE UNCHANGED <<decision, pc, job>>
    BY <2>3, <2>4
  <2>5. CASE \E l \in {"lease", "tell"} : Take(w, l, a) /\ UNCHANGED decision
    BY <2>2, <2>3, <2>5 DEF Take
  <2>6. CASE /\ decision[a] = "APPROVED"
             /\ decision' = [decision EXCEPT ![a] = "FAILED"]
             /\ Take(w, "showFailed", a)
    <3>1. \A v \in Workers : pc[v] \in Leased \cup Settling => job[v] # a
      BY <2>6
    <3>3. (NewIsNone /\ LeaseInRow /\ SettledRow)'  BY <2>2, <2>3, <2>6, <3>1 DEF Take
    <3>4. OneHolder'  BY <2>3, <2>6, <3>1 DEF Take
    <3>5. (WriteToCome /\ WriteIsLeased /\ OnceOnly)'  BY <2>2, <2>3, <2>6 DEF Take
    <3> QED BY <3>3, <3>4, <3>5
  <2> QED BY <2>1, <2>4, <2>5, <2>6 DEF Abandon, AbandonWhere, MarkStuck
<1>6. CASE Tell(w)
  BY <1>6 DEF Tell, PutDown, rowVars, cabinetVars
<1>7. CASE EndPass(w)
  BY <1>7 DEF EndPass, rowVars, cabinetVars
<1> QED BY <1>1, <1>2, <1>3, <1>4, <1>5, <1>6, <1>7

LEMMA LeaseEnvironment ==
    ASSUME TypeOK, LeaseInv, (\E w \in Workers : Crash(w)) \/ Redeploy \/ Tick
    PROVE  LeaseInv'
<1> USE DEF TypeOK, RowsOK, OutsideOK, WorkersOK, LeaseInv, NewIsNone, LeaseInRow, SettledRow,
            OneHolder, WriteToCome, WriteIsLeased, OnceOnly, Leased, Settling, rowVars,
            cabinetVars, workerVars
<1>1. ASSUME NEW w \in Workers, Crash(w) PROVE LeaseInv'
  BY <1>1 DEF Crash
<1>2. CASE Redeploy  BY <1>2 DEF Redeploy
<1>3. CASE Tick  BY <1>3 DEF Tick
<1> QED BY <1>1, <1>2, <1>3

LEMMA LeaseStep == TypeOK /\ LeaseInv /\ [Next]_vars => LeaseInv'
<1> SUFFICES ASSUME TypeOK, LeaseInv, [Next]_vars PROVE LeaseInv'
  OBVIOUS
<1>1. CASE UNCHANGED vars
  BY <1>1 DEF LeaseInv, NewIsNone, LeaseInRow, SettledRow, OneHolder, WriteToCome,
              WriteIsLeased, OnceOnly, vars, rowVars, cabinetVars, workerVars
<1>2. CASE Next
  BY <1>2, LeaseIssuing, LeaseHandlers, LeaseApplying, LeasePass, LeaseEnvironment
     DEF Next, Running
<1> QED BY <1>1, <1>2

\* The lease protocol, for any number of processes and of crashes.
THEOREM LeaseCorrect == Spec => []LeaseInv
<1>1. Init => LeaseInv  BY LeaseInit
<1>2. TypeOK /\ LeaseInv /\ [Next]_vars => LeaseInv'  BY LeaseStep
<1> QED BY <1>1, <1>2, TypeCorrect, PTL DEF Spec

\* No card is ever written to the cabinet twice, however many handlers and passes
\* take it up and however many of them die.
THEOREM AtMostOneWrite == Spec => []OnceOnly
<1>1. LeaseInv => OnceOnly  BY DEF LeaseInv
<1> QED BY <1>1, LeaseCorrect, PTL
-----------------------------------------------------------------------------
(* Approval implements ApprovalLifecycle: every step of a handler, a pass, an
   issuer or the environment is a step of one card's life cycle, or changes
   neither a decision nor the number of writes. *)


\* The steps of the life cycle.
LEMMA MoveIsLifecycle ==
    ASSUME NEW a \in Cards, NEW from, NEW to,
           decision[a] = from, decision' = [decision EXCEPT ![a] = to], UNCHANGED writes,
           <<from, to>> \in {<<"NONE", "PENDING">>, <<"PENDING", "APPROVED">>,
                             <<"PENDING", "REJECTED">>, <<"PENDING", "EXPIRED">>,
                             <<"APPROVED", "APPLYING">>, <<"APPROVED", "FAILED">>,
                             <<"APPLYING", "APPLIED">>, <<"APPLYING", "FAILED">>}
    PROVE  Lifecycle!LifecycleNext
<1>1. Lifecycle!Move(a, from, to)  BY DEF Lifecycle!Move
<1>2. CASE from = "NONE" /\ to = "PENDING"
  BY <1>1, <1>2 DEF Lifecycle!LifecycleNext, Lifecycle!Issue
<1>3. CASE from = "PENDING" /\ to \in {"APPROVED", "REJECTED", "EXPIRED"}
  BY <1>1, <1>3 DEF Lifecycle!LifecycleNext, Lifecycle!Decide
<1>4. CASE from = "APPROVED" /\ to = "APPLYING"
  BY <1>1, <1>4 DEF Lifecycle!LifecycleNext, Lifecycle!Begin
<1>5. CASE from = "APPROVED" /\ to = "FAILED"
  BY <1>1, <1>5 DEF Lifecycle!LifecycleNext, Lifecycle!Abandon
<1>6. CASE from = "APPLYING" /\ to \in {"APPLIED", "FAILED"}
  BY <1>1, <1>6 DEF Lifecycle!LifecycleNext, Lifecycle!Settle
<1> QED BY <1>2, <1>3, <1>4, <1>5, <1>6

LEMMA RefinesInit == Init => Lifecycle!LifecycleInit
  BY DEF Init, Lifecycle!LifecycleInit

LEMMA RefinesIssuing ==
    ASSUME TypeOK, LeaseInv, NEW a \in Cards, Issuing(a) \/ IssuerCrash(a)
    PROVE  Lifecycle!LifecycleNext \/ UNCHANGED Lifecycle!lifecycleVars
<1> USE DEF Lifecycle!lifecycleVars, rowVars, cabinetVars
<1>1. CASE Insert(a)
  <2>1. decision[a] = "NONE"  BY <1>1 DEF Insert, LeaseInv, NewIsNone
  <2> QED BY <1>1, <2>1, MoveIsLifecycle DEF Insert
<1>2. CASE Send(a)  BY <1>2 DEF Send
<1>3. CASE SaveMessageId(a)  BY <1>3 DEF SaveMessageId
<1>4. CASE SaveUndelivered(a)  BY <1>4 DEF SaveUndelivered
<1>5. CASE IssuerCrash(a)  BY <1>5 DEF IssuerCrash
<1> QED BY <1>1, <1>2, <1>3, <1>4, <1>5 DEF Issuing

LEMMA RefinesHandlers ==
    ASSUME TypeOK, LeaseInv, NEW w \in Workers, Claim(w) \/ Explain(w) \/ Applying(w)
    PROVE  Lifecycle!LifecycleNext \/ UNCHANGED Lifecycle!lifecycleVars
<1> USE DEF Lifecycle!lifecycleVars, rowVars, cabinetVars
<1>1. CASE Claim(w)
  <2>0. job[w] \in Cards  BY <1>1 DEF Claim, TypeOK, WorkersOK, Between
  <2>1. CASE /\ ClaimWhere(job[w], now[w])
             /\ Stamp(job[w], "APPROVED", now[w]) \/ Stamp(job[w], "REJECTED", now[w])
    BY <1>1, <2>0, <2>1, MoveIsLifecycle DEF Claim, ClaimWhere, Stamp
  <2> QED BY <1>1, <2>1 DEF Claim
<1>2. CASE Explain(w)
  <2>0. job[w] \in Cards  BY <1>2 DEF Explain, TypeOK, WorkersOK, Between
  <2>1. CASE decision[job[w]] = "PENDING" /\ Stamp(job[w], "EXPIRED", now[w])
    BY <1>2, <2>0, <2>1, MoveIsLifecycle DEF Explain, Stamp
  <2> QED BY <1>2, <2>1 DEF Explain
<1>3. CASE Lease(w)
  <2>0. job[w] \in Cards  BY <1>3 DEF Lease, TypeOK, WorkersOK, Between
  <2>1. CASE LeaseWhere(job[w]) /\ decision' = [decision EXCEPT ![job[w]] = "APPLYING"]
    BY <1>3, <2>0, <2>1, MoveIsLifecycle DEF Lease, LeaseWhere
  <2> QED BY <1>3, <2>1 DEF Lease
<1>4. CASE Prepare(w)  BY <1>4 DEF Prepare
<1>5. CASE Execute(w)
  <2>0. job[w] \in Cards  BY <1>5 DEF Execute, TypeOK, WorkersOK, Between
  <2>1. decision[job[w]] = "APPLYING"  BY <1>5 DEF Execute, LeaseInv, LeaseInRow, Leased
  <2>2. writes[job[w]] = 0  BY <1>5 DEF Execute, LeaseInv, WriteToCome
  <2>3. CASE writes' = [writes EXCEPT ![job[w]] = @ + 1]
    <3>1. writes' = [writes EXCEPT ![job[w]] = 1]  BY <2>2, <2>3
    <3>2. UNCHANGED decision  BY <1>5 DEF Execute
    <3>3. Lifecycle!Write(job[w])  BY <2>1, <2>2, <3>1, <3>2 DEF Lifecycle!Write
    <3> QED BY <2>0, <3>3 DEF Lifecycle!LifecycleNext
  <2> QED BY <1>5, <2>3 DEF Execute
<1>6. CASE Record(w)  BY <1>6 DEF Record
<1>7. CASE Finish(w) \/ Fail(w)
  <2>0. job[w] \in Cards  BY <1>7 DEF Finish, Fail, TypeOK, WorkersOK, Between
  <2>1. decision[job[w]] = "APPLYING"  BY <1>7 DEF Finish, Fail, LeaseInv, LeaseInRow, Leased
  <2>2. CASE \/ decision' = [decision EXCEPT ![job[w]] = "APPLIED"]
             \/ decision' = [decision EXCEPT ![job[w]] = "FAILED"]
    BY <1>7, <2>0, <2>1, <2>2, MoveIsLifecycle DEF Finish, Fail
  <2> QED BY <1>7, <2>2 DEF Finish, Fail
<1>8. CASE Show(w)  BY <1>8 DEF Show
<1> QED BY <1>1, <1>2, <1>3, <1>4, <1>5, <1>6, <1>7, <1>8 DEF Applying

LEMMA RefinesPass ==
    ASSUME TypeOK, LeaseInv, NEW w \in Workers,
           \/ StartPass(w) \/ ExpireNext(w) \/ Release(w) \/ SelectStuck(w)
           \/ ReconcileNext(w) \/ Tell(w) \/ EndPass(w)
    PROVE  Lifecycle!LifecycleNext \/ UNCHANGED Lifecycle!lifecycleVars
<1> USE DEF Lifecycle!lifecycleVars, rowVars, cabinetVars
<1>1. CASE StartPass(w)  BY <1>1 DEF StartPass
<1>2. CASE ExpireNext(w)
  <2>1. PICK a \in todo[w] :
          \/ ExpireWhere(a) /\ Stamp(a, "EXPIRED", now[w])
          \/ UNCHANGED rowVars
    BY <1>2 DEF ExpireNext
  <2>2. a \in Cards  BY DEF TypeOK, WorkersOK
  <2>3. CASE ExpireWhere(a) /\ Stamp(a, "EXPIRED", now[w])
    BY <1>2, <2>2, <2>3, MoveIsLifecycle DEF ExpireNext, ExpireWhere, Stamp
  <2> QED BY <1>2, <2>1, <2>3 DEF ExpireNext
<1>3. CASE Release(w)  BY <1>3 DEF Release
<1>4. CASE SelectStuck(w)  BY <1>4 DEF SelectStuck
<1>5. CASE ReconcileNext(w)
  <2>1. PICK a \in todo[w] :
          \/ AbandonWhere(a) /\ decision' = [decision EXCEPT ![a] = "FAILED"]
          \/ UNCHANGED decision
    BY <1>5 DEF ReconcileNext, Abandon, MarkStuck
  <2>2. a \in Cards  BY DEF TypeOK, WorkersOK
  <2>3. CASE AbandonWhere(a) /\ decision' = [decision EXCEPT ![a] = "FAILED"]
    BY <1>5, <2>2, <2>3, MoveIsLifecycle DEF ReconcileNext, AbandonWhere
  <2> QED BY <1>5, <2>1, <2>3 DEF ReconcileNext
<1>6. CASE Tell(w)  BY <1>6 DEF Tell
<1>7. CASE EndPass(w)  BY <1>7 DEF EndPass
<1> QED BY <1>1, <1>2, <1>3, <1>4, <1>5, <1>6, <1>7

LEMMA RefinesStep ==
    TypeOK /\ LeaseInv /\ [Next]_vars => [Lifecycle!LifecycleNext]_Lifecycle!lifecycleVars
<1> SUFFICES ASSUME TypeOK, LeaseInv, [Next]_vars
             PROVE  Lifecycle!LifecycleNext \/ UNCHANGED Lifecycle!lifecycleVars
  OBVIOUS
<1> USE DEF Lifecycle!lifecycleVars, rowVars, cabinetVars
<1>1. CASE UNCHANGED vars  BY <1>1 DEF vars
<1>2. ASSUME NEW a \in Cards, Issuing(a) \/ IssuerCrash(a)
      PROVE  Lifecycle!LifecycleNext \/ UNCHANGED Lifecycle!lifecycleVars
  BY <1>2, RefinesIssuing
<1>3. ASSUME NEW w \in Presses, NEW a \in Cards, Press(w, a)
      PROVE  UNCHANGED Lifecycle!lifecycleVars
  BY <1>3 DEF Press
<1>4. ASSUME NEW w \in Workers, StartPass(w) \/ Running(w) \/ Crash(w)
      PROVE  Lifecycle!LifecycleNext \/ UNCHANGED Lifecycle!lifecycleVars
  <2>1. CASE Crash(w)  BY <2>1 DEF Crash
  <2> QED BY <1>4, <2>1, RefinesHandlers, RefinesPass DEF Running
<1>5. CASE Redeploy \/ Tick  BY <1>5 DEF Redeploy, Tick
<1>6. CASE Next
  <2>1. CASE \E a \in Cards : Issuing(a) \/ IssuerCrash(a)  BY <1>2, <2>1
  <2>2. CASE \E v \in Presses, a \in Cards : Press(v, a)  BY <1>3, <2>2
  <2>3. CASE \/ \E v \in Crons : StartPass(v)
             \/ \E v \in Workers : Running(v) \/ Crash(v)
    BY <1>4, <2>3 DEF Workers
  <2> QED BY <1>5, <1>6, <2>1, <2>2, <2>3 DEF Next
<1> QED BY <1>1, <1>6

\* The whole approval subsystem, for any number of cards, processes and faults,
\* takes a card only through its life cycle: issued, decided once, written once.
THEOREM LifecycleImplemented == Spec => ImplementsLifecycle
<1>1. Init => Lifecycle!LifecycleInit  BY RefinesInit
<1>2. TypeOK /\ LeaseInv /\ [Next]_vars
        => [Lifecycle!LifecycleNext]_Lifecycle!lifecycleVars
  BY RefinesStep
<1> QED BY <1>1, <1>2, TypeCorrect, LeaseCorrect, PTL
        DEF Spec, ImplementsLifecycle, Lifecycle!LifecycleSpec

-----------------------------------------------------------------------------

\* Only a write changes the cabinet.
EffectOfWrite == \A a \in Cards : effect[a] # "untouched" => writes[a] # 0

\* The holder of the lease knows whether it may write, and what became of it.
HolderKnows ==
    \A w \in Workers :
        /\ pc[w] = "execute" /\ promised[job[w]] => dry[w]
        /\ pc[w] \in {"record", "finish"} => effect[job[w]] \notin {"refused", "lost"}
        /\ pc[w] = "fail" => effect[job[w]] \notin {"changed", "nothingToDo"}

\* An abandoned card was never leased.
AbandonedIsUntouched ==
    \A a \in Cards : error[a] = "abandoned" => decision[a] = "FAILED" /\ effect[a] = "untouched"

OutcomeInv ==
    EffectOfWrite /\ HolderKnows /\ AbandonedIsUntouched /\ DryRunPromiseKept /\ OutcomeNotInverted

LEMMA OutcomeInit == Init => OutcomeInv
  BY DEF Init, OutcomeInv, EffectOfWrite, HolderKnows, AbandonedIsUntouched,
         DryRunPromiseKept, OutcomeNotInverted

LEMMA OutcomeIssuing ==
    ASSUME TypeOK, LeaseInv, OutcomeInv, NEW a \in Cards, Issuing(a) \/ IssuerCrash(a)
    PROVE  OutcomeInv'
<1> USE DEF TypeOK, RowsOK, OutsideOK, WorkersOK, OutcomeInv, EffectOfWrite, HolderKnows,
            AbandonedIsUntouched, DryRunPromiseKept, OutcomeNotInverted, Between,
            rowVars, cabinetVars, workerVars, applyVars
<1>1. CASE Insert(a)
  <2>1. decision[a] = "NONE"  BY <1>1 DEF Insert, LeaseInv, NewIsNone
  <2>2. effect[a] = "untouched"  BY <2>1 DEF LeaseInv, WriteIsLeased
  <2>3. \A w \in Workers : pc[w] \in Leased => job[w] # a
    BY <2>1 DEF LeaseInv, LeaseInRow
  <2>4. UNCHANGED <<pc, job, dry, error, writes, effect>>  BY <1>1 DEF Insert
  <2>5. \A b \in Cards : b # a => promised'[b] = promised[b] /\ decision'[b] = decision[b]
    BY <1>1 DEF Insert
  <2>6. decision'[a] = "PENDING"  BY <1>1 DEF Insert
  <2>7. EffectOfWrite'  BY <2>4
  <2>8. HolderKnows'  BY <2>3, <2>4, <2>5 DEF Leased
  <2>9. (AbandonedIsUntouched /\ DryRunPromiseKept /\ OutcomeNotInverted)'
    BY <2>1, <2>2, <2>4, <2>5, <2>6
  <2> QED BY <2>7, <2>8, <2>9
<1>2. CASE Send(a)  BY <1>2 DEF Send
<1>3. CASE SaveMessageId(a)  BY <1>3 DEF SaveMessageId
<1>4. CASE SaveUndelivered(a)  BY <1>4 DEF SaveUndelivered
<1>5. CASE IssuerCrash(a)  BY <1>5 DEF IssuerCrash
<1> QED BY <1>1, <1>2, <1>3, <1>4, <1>5 DEF Issuing

LEMMA OutcomeHandlers ==
    ASSUME TypeOK, LeaseInv, OutcomeInv, NEW w \in Workers,
           (\E a \in Cards : Press(w, a)) \/ Claim(w) \/ Explain(w)
    PROVE  OutcomeInv'
<1> USE DEF TypeOK, RowsOK, OutsideOK, WorkersOK, OutcomeInv, EffectOfWrite, HolderKnows,
            AbandonedIsUntouched, DryRunPromiseKept, OutcomeNotInverted, Between,
            rowVars, cabinetVars, applyVars
<1>1. ASSUME NEW a \in Cards, Press(w, a) PROVE OutcomeInv'
  BY <1>1 DEF Press, Take
<1>2. CASE Claim(w)
  <2>0. job[w] \in Cards  BY <1>2 DEF Claim
  <2>1. CASE /\ decision[job[w]] = "PENDING"
             /\ \/ Stamp(job[w], "APPROVED", now[w]) /\ Goto(w, "lease")
                \/ Stamp(job[w], "REJECTED", now[w]) /\ Goto(w, "showRejected")
    BY <1>2, <2>0, <2>1 DEF Claim, Stamp, Goto
  <2>2. CASE Goto(w, "explain") /\ UNCHANGED rowVars
    BY <1>2, <2>2 DEF Claim, Goto
  <2> QED BY <1>2, <2>1, <2>2 DEF Claim, ClaimWhere
<1>3. CASE Explain(w)
  <2>0. job[w] \in Cards  BY <1>3 DEF Explain
  <2>1. CASE /\ decision[job[w]] = "PENDING"
             /\ Stamp(job[w], "EXPIRED", now[w])
             /\ Goto(w, "showExpired")
    BY <1>3, <2>0, <2>1 DEF Explain, Stamp, Goto
  <2>2. CASE PutDown(w, "idle") /\ UNCHANGED rowVars
    BY <1>3, <2>2 DEF Explain, PutDown
  <2> QED BY <1>3, <2>1, <2>2 DEF Explain
<1> QED BY <1>1, <1>2, <1>3

LEMMA OutcomeApplying ==
    ASSUME TypeOK, LeaseInv, OutcomeInv, NEW w \in Workers, Applying(w)
    PROVE  OutcomeInv'
<1> USE DEF TypeOK, RowsOK, OutsideOK, WorkersOK, OutcomeInv, EffectOfWrite, HolderKnows,
            AbandonedIsUntouched, DryRunPromiseKept, OutcomeNotInverted, Between,
            rowVars, cabinetVars, passVars, applyVars
<1>1. CASE Lease(w)
  <2>0. job[w] \in Cards  BY <1>1 DEF Lease
  <2>1. CASE /\ decision[job[w]] = "APPROVED"
             /\ decision' = [decision EXCEPT ![job[w]] = "APPLYING"]
             /\ Goto(w, "prepare")
    BY <1>1, <2>0, <2>1 DEF Lease, Goto
  <2>2. CASE PutDown(w, "reconcile") /\ UNCHANGED decision
    BY <1>1, <2>2 DEF Lease, PutDown
  <2> QED BY <1>1, <2>1, <2>2 DEF Lease, LeaseWhere
<1>2. CASE Prepare(w)
  <2>0. job[w] \in Cards /\ effect[job[w]] = "untouched"
    BY <1>2 DEF Prepare, LeaseInv, WriteToCome
  <2>1. CASE Goto(w, "fail")  BY <1>2, <2>0, <2>1 DEF Prepare, Goto
  <2>2. CASE /\ pc' = [pc EXCEPT ![w] = "execute"]
             /\ dry' = [dry EXCEPT ![w] = Mode(job[w])]
             /\ UNCHANGED job
    <3>1. UNCHANGED <<rowVars, job, writes, effect>>  BY <1>2, <2>2 DEF Prepare
    <3>2. promised[job[w]] => dry'[w]  BY <2>2 DEF Mode
    <3>3. HolderKnows'  BY <2>0, <2>2, <3>1, <3>2
    <3> QED BY <3>1, <3>3
  <2> QED BY <1>2, <2>1, <2>2 DEF Prepare
<1>3. CASE Execute(w)
  <2>0. /\ job[w] \in Cards
        /\ decision[job[w]] = "APPLYING"
        /\ writes[job[w]] = 0
        /\ effect[job[w]] = "untouched"
    BY <1>3 DEF Execute, LeaseInv, WriteToCome, LeaseInRow, Leased
  <2>1. \A v \in Workers : pc[v] \in Leased /\ job[v] = job[w] => v = w
    BY <1>3 DEF Execute, LeaseInv, OneHolder, Leased
  <2>2. error[job[w]] # "abandoned"  BY <2>0
  <2>3. CASE dry[w] /\ Goto(w, "record") /\ UNCHANGED <<writes, effect>>
    BY <1>3, <2>0, <2>3 DEF Execute, Goto
  <2>4. CASE /\ ~dry[w]
             /\ writes' = [writes EXCEPT ![job[w]] = @ + 1]
             /\ \/ /\ \E e \in {"changed", "nothingToDo"} : effect' = [effect EXCEPT ![job[w]] = e]
                   /\ Goto(w, "record")
                \/ /\ \E e \in {"refused", "lost"} : effect' = [effect EXCEPT ![job[w]] = e]
                   /\ Goto(w, "fail")
    <3>1. ~promised[job[w]]  BY <1>3, <2>4 DEF Execute
    <3>2. EffectOfWrite'  BY <2>0, <2>4
    <3>3. HolderKnows'  BY <1>3, <2>0, <2>1, <2>4 DEF Execute, Goto, Leased
    <3>4. (AbandonedIsUntouched /\ DryRunPromiseKept /\ OutcomeNotInverted)'
      BY <1>3, <2>0, <2>2, <2>4, <3>1 DEF Execute
    <3> QED BY <3>2, <3>3, <3>4
  <2> QED BY <1>3, <2>3, <2>4 DEF Execute
<1>4. CASE Record(w)  BY <1>4 DEF Record
<1>5. CASE Finish(w)
  <2>0. job[w] \in Cards /\ effect[job[w]] \notin {"refused", "lost"}  BY <1>5 DEF Finish
  <2>1. decision[job[w]] = "APPLYING"  BY <1>5 DEF Finish, LeaseInv, LeaseInRow, Leased
  <2>2. CASE /\ decision' = [decision EXCEPT ![job[w]] = "APPLIED"]
             /\ error' = [error EXCEPT ![job[w]] = IF notes[w] THEN "notes" ELSE "none"]
    BY <1>5, <2>0, <2>2 DEF Finish, Goto
  <2>3. CASE UNCHANGED <<decision, error>>
    BY <1>5, <2>3 DEF Finish, Goto
  <2> QED BY <1>5, <2>2, <2>3 DEF Finish
<1>6. CASE Fail(w)
  <2>0. job[w] \in Cards /\ effect[job[w]] \notin {"changed", "nothingToDo"}  BY <1>6 DEF Fail
  <2>1. CASE /\ decision' = [decision EXCEPT ![job[w]] = "FAILED"]
             /\ error' = [error EXCEPT ![job[w]] = "reason"]
    BY <1>6, <2>0, <2>1 DEF Fail, Goto
  <2>2. CASE UNCHANGED <<decision, error>>
    BY <1>6, <2>2 DEF Fail, Goto
  <2> QED BY <1>6, <2>1, <2>2 DEF Fail
<1>7. CASE Show(w)  BY <1>7 DEF Show, PutDown
<1> QED BY <1>1, <1>2, <1>3, <1>4, <1>5, <1>6, <1>7 DEF Applying

LEMMA OutcomePass ==
    ASSUME TypeOK, LeaseInv, OutcomeInv, NEW w \in Workers,
           \/ StartPass(w) \/ ExpireNext(w) \/ Release(w) \/ SelectStuck(w)
           \/ ReconcileNext(w) \/ Tell(w) \/ EndPass(w)
    PROVE  OutcomeInv'
<1> USE DEF TypeOK, RowsOK, OutsideOK, WorkersOK, OutcomeInv, EffectOfWrite, HolderKnows,
            AbandonedIsUntouched, DryRunPromiseKept, OutcomeNotInverted, Between,
            rowVars, cabinetVars, applyVars
<1>1. CASE StartPass(w)  BY <1>1 DEF StartPass
<1>2. CASE ExpireNext(w)
  <2>1. PICK a \in todo[w] :
          \/ /\ decision[a] = "PENDING"
             /\ Stamp(a, "EXPIRED", now[w])
             /\ Take(w, "release", a)
          \/ UNCHANGED <<rowVars, pc, job, applyVars>>
    BY <1>2 DEF ExpireNext, ExpireWhere
  <2> QED BY <1>2, <2>1 DEF ExpireNext, Stamp, Take
<1>3. CASE Release(w)  BY <1>3 DEF Release, Goto
<1>4. CASE SelectStuck(w)  BY <1>4 DEF SelectStuck
<1>5. CASE ReconcileNext(w)
  <2>1. PICK a \in todo[w] :
          \/ Abandon(w, a)
          \/ Take(w, "lease", a) /\ UNCHANGED <<decision, error>>
          \/ MarkStuck(w, a)
    BY <1>5 DEF ReconcileNext
  <2>2. a \in Cards  OBVIOUS
  <2>3. CASE Abandon(w, a)
    <3>1. CASE AbandonWhere(a)
      <4>1. effect[a] = "untouched"  BY <3>1 DEF AbandonWhere, LeaseInv, WriteIsLeased
      <4> QED BY <1>5, <2>2, <2>3, <3>1, <4>1 DEF ReconcileNext, Abandon, Take
    <3>2. CASE ~AbandonWhere(a)
      BY <1>5, <2>3, <3>2 DEF ReconcileNext, Abandon
    <3> QED BY <3>1, <3>2
  <2>4. CASE Take(w, "lease", a) /\ UNCHANGED <<decision, error>>
    BY <1>5, <2>2, <2>4 DEF ReconcileNext, Take
  <2>5. CASE MarkStuck(w, a)
    BY <1>5, <2>2, <2>5 DEF ReconcileNext, MarkStuck, Take
  <2> QED BY <2>1, <2>3, <2>4, <2>5
<1>6. CASE Tell(w)  BY <1>6 DEF Tell, PutDown
<1>7. CASE EndPass(w)  BY <1>7 DEF EndPass
<1> QED BY <1>1, <1>2, <1>3, <1>4, <1>5, <1>6, <1>7

LEMMA OutcomeStep == TypeOK /\ LeaseInv /\ OutcomeInv /\ [Next]_vars => OutcomeInv'
<1> SUFFICES ASSUME TypeOK, LeaseInv, OutcomeInv, [Next]_vars PROVE OutcomeInv'
  OBVIOUS
<1>1. ASSUME (\E w \in Workers : Crash(w)) \/ Redeploy \/ Tick \/ UNCHANGED vars
      PROVE  OutcomeInv'
  BY <1>1 DEF TypeOK, WorkersOK, OutcomeInv, EffectOfWrite, HolderKnows, AbandonedIsUntouched,
              DryRunPromiseKept, OutcomeNotInverted, Crash, Redeploy, Tick, vars, rowVars,
              cabinetVars, workerVars, applyVars
<1>2. ASSUME NEW w \in Presses, NEW a \in Cards, Press(w, a) PROVE OutcomeInv'
  BY <1>2, OutcomeHandlers DEF Workers
<1>3. ASSUME NEW w \in Workers, StartPass(w) \/ Running(w) PROVE OutcomeInv'
  BY <1>3, OutcomeHandlers, OutcomeApplying, OutcomePass DEF Running
<1>4. CASE Next
  <2>1. CASE \E w \in Crons : StartPass(w)  BY <1>3, <2>1 DEF Workers
  <2>2. CASE \E a \in Cards : Issuing(a) \/ IssuerCrash(a)  BY <2>2, OutcomeIssuing
  <2> QED BY <1>1, <1>2, <1>3, <1>4, <2>1, <2>2 DEF Next
<1> QED BY <1>1, <1>4

\* At every await behind the lease what the cabinet has done is what the code believes.
THEOREM OutcomeCorrect == Spec => []OutcomeInv
<1>1. Init => OutcomeInv  BY OutcomeInit
<1>2. TypeOK /\ LeaseInv /\ OutcomeInv /\ [Next]_vars => OutcomeInv'  BY OutcomeStep
<1> QED BY <1>1, <1>2, TypeCorrect, LeaseCorrect, PTL DEF Spec

\* A card that promised a dry run never writes, whatever DRY_RUN becomes between
\* the card, the button and the write.
THEOREM DryRunNeverWrites == Spec => []DryRunPromiseKept
<1>1. OutcomeInv => DryRunPromiseKept  BY DEF OutcomeInv
<1> QED BY <1>1, OutcomeCorrect, PTL

\* A confirmed change is never recorded as a failure, nor a refusal or a lost reply
\* as a success.
THEOREM OutcomeIsTrue == Spec => []OutcomeNotInverted
<1>1. OutcomeInv => OutcomeNotInverted  BY DEF OutcomeInv
<1> QED BY <1>1, OutcomeCorrect, PTL

-----------------------------------------------------------------------------
(* The text in the chat.  One process settles a card, and only it edits the
   text; what it is about to write is what the row says. *)

\* Of the processes between the lease and the last edit one works on a card.
Busy == Leased \cup Settling
OneSettler ==
    \A v, w \in Workers : pc[v] \in Busy /\ pc[w] \in Busy /\ job[v] = job[w] => v = w

AboutToShow ==
    \A w \in Workers :
        /\ pc[w] = "showRejected" => decision[job[w]] = "REJECTED"
        /\ pc[w] \in {"release", "showExpired"} => decision[job[w]] = "EXPIRED"
        /\ pc[w] = "showApplied" => decision[job[w]] \in {"APPLIED", "APPLYING"}
        /\ pc[w] = "showFailed" => decision[job[w]] \in {"FAILED", "APPLYING"}

\* A card that shows what came of it is in nobody's hands.
ShownIsOver ==
    \A a \in Cards : shown[a] \in {"applied", "failed"} =>
        \A w \in Workers : pc[w] \in Busy => job[w] # a

ChatInv == OneSettler /\ AboutToShow /\ ShownIsOver /\ CardAgreesWithRow

LEMMA ChatInit == Init => ChatInv
  BY DEF Init, ChatInv, OneSettler, AboutToShow, ShownIsOver, CardAgreesWithRow, Busy, Leased, Settling

\* Nothing is at stake when the row and the text stay, and a process at most leaves.
LEMMA ChatSame ==
    ASSUME TypeOK, ChatInv, UNCHANGED <<decision, shown>>,
           \A v \in Workers : \/ pc'[v] = pc[v] /\ job'[v] = job[v]
                              \/ pc[v] \in Leased /\ pc'[v] \in Leased /\ job'[v] = job[v]
                              \/ pc[v] = "release" /\ pc'[v] = "showExpired" /\ job'[v] = job[v]
                              \/ pc'[v] \in Between \cup {"approve", "reject", "explain", "lease", "tell"}
    PROVE  ChatInv'
  BY DEF ChatInv, OneSettler, AboutToShow, ShownIsOver, CardAgreesWithRow, Busy, Leased,
         Settling, Between

LEMMA ChatIssuing ==
    ASSUME TypeOK, LeaseInv, ChatInv, NEW a \in Cards, Issuing(a) \/ IssuerCrash(a)
    PROVE  ChatInv'
<1> USE DEF TypeOK, RowsOK, OutsideOK, WorkersOK, Between
<1>1. CASE Insert(a)
  <2>1. decision[a] = "NONE"  BY <1>1 DEF Insert, LeaseInv, NewIsNone
  <2>2. UNCHANGED <<pc, job, shown>> /\ decision' = [decision EXCEPT ![a] = "PENDING"]
    BY <1>1 DEF Insert, chatVars, workerVars
  <2> QED BY <2>1, <2>2 DEF ChatInv, OneSettler, AboutToShow, ShownIsOver, CardAgreesWithRow
<1>2. CASE Send(a)  BY <1>2, ChatSame DEF Send, rowVars, workerVars
<1>3. CASE SaveMessageId(a)  BY <1>3, ChatSame DEF SaveMessageId, chatVars, workerVars
<1>4. CASE SaveUndelivered(a)  BY <1>4, ChatSame DEF SaveUndelivered, chatVars, workerVars
<1>5. CASE IssuerCrash(a)  BY <1>5, ChatSame DEF IssuerCrash, rowVars, chatVars, workerVars
<1> QED BY <1>1, <1>2, <1>3, <1>4, <1>5 DEF Issuing

\* A row that was still open is decided, and process w goes on to l; the card shows the
\* question, and nobody is about to say anything of it.
Decided(w, a, d, l) ==
    /\ decision' = [decision EXCEPT ![a] = d]
    /\ pc' = [pc EXCEPT ![w] = l]
    /\ job' = [job EXCEPT ![w] = a]
    /\ UNCHANGED shown

LEMMA ChatDecided ==
    ASSUME TypeOK, LeaseInv, ChatInv, NEW w \in Workers, NEW a \in Cards,
           \/ /\ decision[a] = "PENDING"
              /\ \/ Decided(w, a, "APPROVED", "lease")
                 \/ Decided(w, a, "REJECTED", "showRejected")
                 \/ Decided(w, a, "EXPIRED", "showExpired")
                 \/ Decided(w, a, "EXPIRED", "release")
           \/ /\ decision[a] = "APPROVED"
              /\ \/ Decided(w, a, "APPLYING", "prepare")
                 \/ Decided(w, a, "FAILED", "showFailed")
    PROVE  ChatInv'
<1> USE DEF Decided
<1> USE DEF TypeOK, RowsOK, OutsideOK, WorkersOK, Between, ChatInv
<1>1. shown[a] = "question"
  BY DEF CardAgreesWithRow
<1>2. \A v \in Workers :
         pc[v] \in Busy \cup {"showRejected", "release", "showExpired"} => job[v] # a
  BY DEF AboutToShow, Busy, Settling, LeaseInv, LeaseInRow
<1>3. OneSettler'
  BY <1>2 DEF OneSettler, Busy, Leased, Settling
<1>4. AboutToShow'
  BY <1>2 DEF AboutToShow, Busy, Leased, Settling
<1>5. ShownIsOver'
  BY <1>1 DEF ShownIsOver, Busy, Leased, Settling
<1>6. CardAgreesWithRow'
  BY <1>1 DEF CardAgreesWithRow
<1> QED BY <1>3, <1>4, <1>5, <1>6

\* The holder of the lease settles the row, or fails to, and is about to say so.
LEMMA ChatSettled ==
    ASSUME TypeOK, LeaseInv, ChatInv, NEW w \in Workers, pc[w] \in Leased, UNCHANGED shown,
           \/ /\ decision' = [decision EXCEPT ![job[w]] = "APPLIED"] \/ UNCHANGED decision
              /\ Goto(w, "showApplied")
           \/ /\ decision' = [decision EXCEPT ![job[w]] = "FAILED"] \/ UNCHANGED decision
              /\ Goto(w, "showFailed")
    PROVE  ChatInv'
<1> USE DEF TypeOK, RowsOK, OutsideOK, WorkersOK, Between, ChatInv, Goto
<1>1. job[w] \in Cards /\ decision[job[w]] = "APPLYING"
  BY DEF Leased, LeaseInv, LeaseInRow
<1>2. shown[job[w]] = "question"
  BY <1>1 DEF CardAgreesWithRow, ShownIsOver, Busy
<1>3. \A v \in Workers :
         /\ pc[v] \in Busy /\ job[v] = job[w] => v = w
         /\ pc[v] \in {"showRejected", "release", "showExpired"} => job[v] # job[w]
  BY <1>1 DEF OneSettler, AboutToShow, Busy
<1>4. OneSettler'
  BY <1>3 DEF OneSettler, Busy, Leased, Settling
<1>5. AboutToShow'
  BY <1>1, <1>3 DEF AboutToShow, Busy, Leased, Settling
<1>6. ShownIsOver'
  BY <1>2 DEF ShownIsOver, Busy, Leased, Settling
<1>7. CardAgreesWithRow'
  BY <1>1, <1>2 DEF CardAgreesWithRow
<1> QED BY <1>4, <1>5, <1>6, <1>7

LEMMA ChatShow ==
    ASSUME TypeOK, LeaseInv, ChatInv, NEW w \in Workers, Show(w) PROVE ChatInv'
<1> USE DEF TypeOK, RowsOK, OutsideOK, WorkersOK, Between, ChatInv, Show, PutDown, rowVars, OutcomeText
<1>1. CASE UNCHANGED shown
  BY <1>1, ChatSame
<1>2. CASE shown' = [shown EXCEPT ![job[w]] = OutcomeText[pc[w]]]
  <2>0. /\ job[w] \in Cards
        /\ pc[w] \in {"showRejected", "showExpired", "showApplied", "showFailed"}
        /\ pc'[w] \in Between
        /\ \A v \in Workers \ {w} : pc'[v] = pc[v] /\ job'[v] = job[v]
        /\ UNCHANGED decision
    OBVIOUS
  <2>1. OneSettler'
    BY <2>0 DEF OneSettler, Busy, Leased, Settling
  <2>2. AboutToShow'
    BY <2>0 DEF AboutToShow
  <2>3. ASSUME shown'[job[w]] \in {"applied", "failed"}, NEW v \in Workers, pc'[v] \in Busy
        PROVE  job'[v] # job[w]
    BY <1>2, <2>0, <2>3 DEF OneSettler, Busy, Leased, Settling
  <2>4. ShownIsOver'
    BY <1>2, <2>0, <2>3 DEF ShownIsOver, Busy, Leased, Settling
  <2>5. CardAgreesWithRow'
    BY <1>2, <2>0 DEF CardAgreesWithRow, AboutToShow
  <2> QED BY <2>1, <2>2, <2>4, <2>5
<1> QED BY <1>1, <1>2

LEMMA ChatStep == TypeOK /\ LeaseInv /\ ChatInv /\ [Next]_vars => ChatInv'
<1> SUFFICES ASSUME TypeOK, LeaseInv, ChatInv, [Next]_vars PROVE ChatInv'
  OBVIOUS
<1> USE DEF TypeOK, RowsOK, OutsideOK, WorkersOK, Between, rowVars, chatVars, cabinetVars,
            workerVars, passVars, applyVars
<1>1. ASSUME NEW w \in Workers, Claim(w) \/ Explain(w) PROVE ChatInv'
  <2>0. job[w] \in Cards /\ job = [job EXCEPT ![w] = job[w]] /\ UNCHANGED shown
    BY <1>1 DEF Claim, Explain
  <2>1. CASE \/ /\ decision[job[w]] = "PENDING" /\ UNCHANGED job
                /\ \/ Stamp(job[w], "APPROVED", now[w]) /\ Goto(w, "lease")
                   \/ Stamp(job[w], "REJECTED", now[w]) /\ Goto(w, "showRejected")
                   \/ Stamp(job[w], "EXPIRED", now[w]) /\ Goto(w, "showExpired")
    <3>1. decision[job[w]] = "PENDING"
      BY <2>1
    <3>2. \/ Decided(w, job[w], "APPROVED", "lease")
          \/ Decided(w, job[w], "REJECTED", "showRejected")
          \/ Decided(w, job[w], "EXPIRED", "showExpired")
      BY <2>0, <2>1 DEF Decided, Stamp, Goto
    <3> QED BY <2>0, <3>1, <3>2, ChatDecided
  <2>2. CASE (Goto(w, "explain") \/ PutDown(w, "idle")) /\ UNCHANGED rowVars
    BY <2>0, <2>2, ChatSame DEF Goto, PutDown
  <2> QED BY <1>1, <2>1, <2>2 DEF Claim, ClaimWhere, Explain, Goto
<1>2. ASSUME NEW w \in Workers, Lease(w) PROVE ChatInv'
  <2>1. CASE PutDown(w, "reconcile") /\ UNCHANGED decision
    BY <1>2, <2>1, ChatSame DEF Lease, PutDown
  <2>2. CASE /\ decision[job[w]] = "APPROVED"
             /\ decision' = [decision EXCEPT ![job[w]] = "APPLYING"]
             /\ Goto(w, "prepare")
    <3>1. job[w] \in Cards /\ Decided(w, job[w], "APPLYING", "prepare")
      BY <1>2, <2>2 DEF Lease, Goto, Decided
    <3> QED BY <2>2, <3>1, ChatDecided
  <2> QED BY <1>2, <2>1, <2>2 DEF Lease, LeaseWhere
<1>3. ASSUME NEW w \in Workers, Prepare(w) \/ Execute(w) \/ Record(w) PROVE ChatInv'
  BY <1>3, ChatSame DEF Prepare, Execute, Record, Goto, Leased
<1>4. ASSUME NEW w \in Workers, Finish(w) \/ Fail(w) PROVE ChatInv'
  <2>1. pc[w] \in Leased /\ UNCHANGED shown
    BY <1>4 DEF Finish, Fail, Leased
  <2>2. \/ /\ decision' = [decision EXCEPT ![job[w]] = "APPLIED"] \/ UNCHANGED decision
           /\ Goto(w, "showApplied")
        \/ /\ decision' = [decision EXCEPT ![job[w]] = "FAILED"] \/ UNCHANGED decision
           /\ Goto(w, "showFailed")
    BY <1>4 DEF Finish, Fail
  <2> QED BY <2>1, <2>2, ChatSettled
<1>5. ASSUME NEW w \in Workers, Applying(w) PROVE ChatInv'
  BY <1>2, <1>3, <1>4, <1>5, ChatShow DEF Applying
<1>6. ASSUME NEW w \in Workers, ExpireNext(w) PROVE ChatInv'
  <2>1. PICK a \in todo[w] :
          \/ decision[a] = "PENDING" /\ Stamp(a, "EXPIRED", now[w]) /\ Take(w, "release", a)
          \/ UNCHANGED <<rowVars, pc, job, applyVars>>
    BY <1>6 DEF ExpireNext, ExpireWhere
  <2>2. a \in Cards /\ UNCHANGED shown  BY <1>6 DEF ExpireNext
  <2>3. CASE UNCHANGED <<rowVars, pc, job, applyVars>>  BY <2>2, <2>3, ChatSame
  <2>4. CASE decision[a] = "PENDING" /\ Stamp(a, "EXPIRED", now[w]) /\ Take(w, "release", a)
    <3>1. Decided(w, a, "EXPIRED", "release")  BY <2>2, <2>4 DEF Stamp, Take, Decided
    <3> QED BY <2>2, <2>4, <3>1, ChatDecided
  <2> QED BY <2>1, <2>3, <2>4
<1>7. ASSUME NEW w \in Workers, ReconcileNext(w) PROVE ChatInv'
  <2>1. PICK a \in todo[w] :
          \/ /\ decision[a] = "APPROVED"
             /\ decision' = [decision EXCEPT ![a] = "FAILED"]
             /\ Take(w, "showFailed", a)
          \/ (\E l \in {"lease", "tell"} : Take(w, l, a)) /\ UNCHANGED decision
          \/ UNCHANGED <<decision, pc, job>>
    BY <1>7 DEF ReconcileNext, Abandon, AbandonWhere, MarkStuck
  <2>2. a \in Cards /\ UNCHANGED shown  BY <1>7 DEF ReconcileNext
  <2>3. CASE UNCHANGED <<decision, pc, job>>  BY <2>2, <2>3, ChatSame
  <2>4. CASE (\E l \in {"lease", "tell"} : Take(w, l, a)) /\ UNCHANGED decision
    BY <2>2, <2>4, ChatSame DEF Take
  <2>5. CASE /\ decision[a] = "APPROVED"
             /\ decision' = [decision EXCEPT ![a] = "FAILED"]
             /\ Take(w, "showFailed", a)
    <3>1. Decided(w, a, "FAILED", "showFailed")  BY <2>2, <2>5 DEF Take, Decided
    <3> QED BY <2>2, <2>5, <3>1, ChatDecided
  <2> QED BY <2>1, <2>3, <2>4, <2>5
<1>8. ASSUME NEW w \in Workers,
             \/ StartPass(w) \/ Release(w) \/ SelectStuck(w) \/ Tell(w) \/ EndPass(w) \/ Crash(w)
             \/ \E a \in Cards : Press(w, a)
      PROVE  ChatInv'
  BY <1>8, ChatSame DEF StartPass, Release, SelectStuck, Tell, EndPass, Crash, Press, Take, Goto, PutDown
<1>9. CASE Redeploy \/ Tick \/ UNCHANGED vars
  BY <1>9, ChatSame DEF Redeploy, Tick, vars
<1>10. CASE Next
  <2>1. CASE \E w \in Workers : Running(w) \/ Crash(w)
    BY <1>1, <1>5, <1>6, <1>7, <1>8, <2>1 DEF Running
  <2>2. CASE \/ \E w \in Presses, a \in Cards : Press(w, a)
             \/ \E w \in Crons : StartPass(w)
    BY <1>8, <2>2 DEF Workers
  <2> QED BY <1>9, <1>10, <2>1, <2>2, ChatIssuing DEF Next
<1> QED BY <1>9, <1>10

\* At every await of a handler or a pass what the chat shows, or is about to, fits the row.
THEOREM ChatCorrect == Spec => []ChatInv
<1>1. Init => ChatInv  BY ChatInit
<1>2. TypeOK /\ LeaseInv /\ ChatInv /\ [Next]_vars => ChatInv'  BY ChatStep
<1> QED BY <1>1, <1>2, TypeCorrect, LeaseCorrect, PTL DEF Spec

\* editCard from a handler and from a pass, over each other and in any order: the text in
\* the chat never contradicts the row.
THEOREM ChatTellsTheRow == Spec => []CardAgreesWithRow
<1>1. ChatInv => CardAgreesWithRow  BY DEF ChatInv
<1> QED BY <1>1, ChatCorrect, PTL

\* "Not applied, nothing changed" is true wherever it is said: a row that was rejected or
\* expired, its text in the chat, and the reason an abandoned card is closed with.
THEOREM UntouchedIsTrue == Spec => []UntouchedIsUntouched
<1>1. TypeOK /\ LeaseInv /\ OutcomeInv /\ ChatInv => UntouchedIsUntouched
  <2> SUFFICES ASSUME TypeOK, LeaseInv, OutcomeInv, ChatInv, NEW a \in Cards,
                      \/ decision[a] \in {"REJECTED", "EXPIRED"}
                      \/ shown[a] \in {"rejected", "expired"}
                      \/ error[a] = "abandoned"
               PROVE  effect[a] = "untouched"
    BY DEF UntouchedIsUntouched
  <2>1. CASE error[a] = "abandoned"
    BY <2>1 DEF OutcomeInv, AbandonedIsUntouched
  <2>2. CASE shown[a] \in {"rejected", "expired"}
    BY <2>2 DEF ChatInv, CardAgreesWithRow, LeaseInv, WriteIsLeased, OutcomeInv, EffectOfWrite
  <2>3. CASE decision[a] \in {"REJECTED", "EXPIRED"}
    BY <2>3 DEF LeaseInv, WriteIsLeased, OutcomeInv, EffectOfWrite
  <2> QED BY <2>1, <2>2, <2>3
<1> QED BY <1>1, TypeCorrect, LeaseCorrect, OutcomeCorrect, ChatCorrect, PTL

-----------------------------------------------------------------------------
(* The report of a stuck card.  The row's error is what says that the human was
   told, and createApproval overwrites it without a condition; that it cannot
   be late enough to wipe the mark is a matter of time. *)

\* What a handler does no pass does, and a process that is idle has nothing selected.
Roles ==
    \A w \in Workers :
        /\ pc[w] = "idle" => todo[w] = {}
        /\ w \in Presses => todo[w] = {} /\ pc[w] \notin {"expire", "reconcile", "release", "tell"}
        /\ w \in Crons => pc[w] \notin {"approve", "reject", "explain", "showRejected"}

\* A card that is being issued was inserted in this tick, and no decision is older than
\* the card.
Ages ==
    /\ \A a \in Cards :
          /\ expiresAt[a] <= clock + TTL
          /\ issuing[a] \notin {"new", "done"} => expiresAt[a] = clock + TTL
          /\ decision[a] \in {"APPROVED", "APPLYING"} => expiresAt[a] <= decidedAt[a] + TTL
    /\ \A w \in Workers :
          /\ now[w] <= clock
          /\ pc[w] \in {"approve", "reject"} => expiresAt[job[w]] <= now[w] + TTL

\* Only what was issued is worked on, and what a pass selected as stuck is issued in full.
Before == {"idle", "expire", "release", "showExpired"}
Issued ==
    /\ \A a \in Cards : inChat[a] => issuing[a] # "new"
    /\ \A w \in Workers :
          /\ pc[w] \notin Between => issuing[job[w]] # "new"
          /\ pc[w] \notin Before => \A a \in todo[w] : issuing[a] = "done"

AgeInv == Roles /\ Ages /\ Issued

LEMMA AgeInit == Init => AgeInv
  BY ApprovalAssumption DEF Init, AgeInv, Roles, Ages, Issued, Between, Before

LEMMA AgeIssuing ==
    ASSUME TypeOK, LeaseInv, AgeInv, NEW a \in Cards, Issuing(a) \/ IssuerCrash(a)
    PROVE  AgeInv'
<1> USE ApprovalAssumption DEF TypeOK, RowsOK, OutsideOK, WorkersOK, Between, AgeInv, Roles, Ages,
            Issued, Before, workerVars, passVars, rowVars, chatVars
<1>1. CASE Insert(a)
  <2>1. decision[a] = "NONE"  BY <1>1 DEF Insert, LeaseInv, NewIsNone
  <2>2. UNCHANGED <<pc, job, todo, now, clock, inChat, decidedAt>>  BY <1>1 DEF Insert
  <2>3. /\ expiresAt' = [expiresAt EXCEPT ![a] = clock + TTL]
        /\ decision' = [decision EXCEPT ![a] = "PENDING"]
        /\ issuing' = [issuing EXCEPT ![a] = "send"]
        /\ issuing[a] = "new"
    BY <1>1 DEF Insert
  <2>4. Roles'  BY <2>2
  <2>5. Ages'  BY <2>2, <2>3
  <2>6. Issued'  BY <2>2, <2>3
  <2> QED BY <2>4, <2>5, <2>6
<1>2. CASE Send(a)  BY <1>2 DEF Send
<1>3. CASE SaveMessageId(a)  BY <1>3 DEF SaveMessageId
<1>4. CASE SaveUndelivered(a)  BY <1>4 DEF SaveUndelivered
<1>5. CASE IssuerCrash(a)  BY <1>5 DEF IssuerCrash
<1> QED BY <1>1, <1>2, <1>3, <1>4, <1>5 DEF Issuing

\* What AgeInv asks of one process.
AgeOf(w) ==
    /\ pc[w] = "idle" => todo[w] = {}
    /\ w \in Presses => todo[w] = {} /\ pc[w] \notin {"expire", "reconcile", "release", "tell"}
    /\ w \in Crons => pc[w] \notin {"approve", "reject", "explain", "showRejected"}
    /\ now[w] <= clock
    /\ pc[w] \in {"approve", "reject"} => expiresAt[job[w]] <= now[w] + TTL
    /\ pc[w] \notin Between => issuing[job[w]] # "new"
    /\ pc[w] \notin Before => \A a \in todo[w] : issuing[a] = "done"

\* A step of one process that leaves the cards' ages alone.
LEMMA AgeWorker ==
    ASSUME AgeInv, NEW w \in Workers, AgeOf(w)',
           UNCHANGED <<expiresAt, issuing, inChat, clock>>,
           \A a \in Cards : decision'[a] \in {"APPROVED", "APPLYING"} =>
                               expiresAt[a] <= decidedAt'[a] + TTL,
           \A v \in Workers \ {w} : /\ pc'[v] = pc[v] /\ job'[v] = job[v]
                                    /\ todo'[v] = todo[v] /\ now'[v] = now[v]
    PROVE  AgeInv'
<1>1. ASSUME NEW v \in Workers PROVE AgeOf(v)'
  BY DEF AgeInv, AgeOf, Roles, Ages, Issued
<1>2. Roles'  BY <1>1 DEF AgeOf, Roles
<1>3. Ages'  BY <1>1 DEF AgeOf, AgeInv, Ages
<1>4. Issued'  BY <1>1 DEF AgeOf, AgeInv, Issued
<1> QED BY <1>2, <1>3, <1>4 DEF AgeInv

\* A process that is through with a card: a handler is idle, a pass goes on with its half.
LEMMA AgePutDown ==
    ASSUME TypeOK, AgeInv, NEW w \in Workers, NEW l, PutDown(w, l),
           w \in Crons => l \in {"expire", "reconcile"},
           w \in Crons /\ l = "reconcile" => pc[w] \notin Before,
           UNCHANGED <<expiresAt, issuing, inChat, clock, decision, decidedAt>>
    PROVE  AgeInv'
<1> USE ApprovalAssumption DEF TypeOK, WorkersOK, OutsideOK, PutDown, AgeInv
<1>1. CASE w \in Presses
  <2>1. pc'[w] = "idle" /\ todo'[w] = {} /\ now'[w] = 0
    BY <1>1 DEF Roles
  <2>2. AgeOf(w)'
    BY <1>1, <2>1 DEF AgeOf, Before, Between
  <2> QED BY <2>2, AgeWorker DEF Ages
<1>2. CASE w \in Crons
  <2>1. pc'[w] = l /\ todo'[w] = todo[w] /\ now'[w] = now[w] /\ l \in {"expire", "reconcile"}
    BY <1>2
  <2>2. AgeOf(w)'
    BY <1>2, <2>1 DEF AgeOf, Before, Between, Ages, Issued
  <2> QED BY <2>2, AgeWorker DEF Ages
<1> QED BY <1>1, <1>2 DEF Workers

LEMMA AgeShow ==
    ASSUME TypeOK, AgeInv, NEW w \in Workers, Show(w) PROVE AgeInv'
<1>1. UNCHANGED <<expiresAt, issuing, inChat, clock, decision, decidedAt>>
  BY DEF Show, rowVars
<1>2. CASE PutDown(w, "expire")
  BY <1>1, <1>2, AgePutDown
<1>3. CASE PutDown(w, "reconcile") /\ pc[w] \notin Before
  BY <1>1, <1>3, AgePutDown
<1> QED BY <1>2, <1>3 DEF Show, OutcomeText, Before

LEMMA AgeStep == TypeOK /\ LeaseInv /\ AgeInv /\ [Next]_vars => AgeInv'
<1> SUFFICES ASSUME TypeOK, LeaseInv, AgeInv, [Next]_vars PROVE AgeInv'
  OBVIOUS
<1> USE ApprovalAssumption DEF TypeOK, RowsOK, OutsideOK, WorkersOK, Between, AgeInv, Roles, Ages,
            Issued, Before, workerVars, passVars, rowVars, chatVars
<1>1. ASSUME NEW w \in Presses, NEW a \in Cards, Press(w, a) PROVE AgeInv'
  BY <1>1 DEF Press, Take
<1>2. ASSUME NEW w \in Workers, Claim(w) PROVE AgeInv'
  <2>0. pc[w] \in {"approve", "reject"} /\ UNCHANGED <<issuing, inChat, clock>>
    BY <1>2 DEF Claim
  <2>1. CASE \/ Stamp(job[w], "APPROVED", now[w]) /\ Goto(w, "lease")
             \/ Stamp(job[w], "REJECTED", now[w]) /\ Goto(w, "showRejected")
    <3>1. AgeOf(w)'
      BY <2>0, <2>1 DEF Stamp, Goto, AgeOf
    <3>2. \A a \in Cards : decision'[a] \in {"APPROVED", "APPLYING"} =>
                               expiresAt[a] <= decidedAt'[a] + TTL
      BY <2>0, <2>1 DEF Stamp
    <3> QED BY <2>0, <2>1, <3>1, <3>2, AgeWorker DEF Stamp, Goto
  <2>2. CASE Goto(w, "explain") /\ UNCHANGED rowVars
    BY <1>2, <2>2 DEF Claim, Goto
  <2> QED BY <1>2, <2>1, <2>2 DEF Claim
<1>3. ASSUME NEW w \in Workers, Explain(w) PROVE AgeInv'
  <2>1. CASE Stamp(job[w], "EXPIRED", now[w]) /\ Goto(w, "showExpired")
    BY <1>3, <2>1 DEF Explain, Stamp, Goto
  <2>2. CASE PutDown(w, "idle") /\ UNCHANGED rowVars
    BY <1>3, <2>2, AgePutDown DEF Explain, Workers
  <2> QED BY <1>3, <2>1, <2>2 DEF Explain
<1>4. ASSUME NEW w \in Workers, Lease(w) PROVE AgeInv'
  <2>1. CASE /\ LeaseWhere(job[w])
             /\ decision' = [decision EXCEPT ![job[w]] = "APPLYING"]
             /\ Goto(w, "prepare")
    BY <1>4, <2>1 DEF Lease, LeaseWhere, Goto
  <2>2. CASE PutDown(w, "reconcile") /\ UNCHANGED decision
    BY <1>4, <2>2, AgePutDown DEF Lease
  <2> QED BY <1>4, <2>1, <2>2 DEF Lease
<1>5. ASSUME NEW w \in Workers, Prepare(w) \/ Execute(w) \/ Record(w) PROVE AgeInv'
  BY <1>5 DEF Prepare, Execute, Record, Goto
<1>6. ASSUME NEW w \in Workers, Finish(w) \/ Fail(w) PROVE AgeInv'
  BY <1>6 DEF Finish, Fail, Goto
<1>7. ASSUME NEW w \in Workers, Show(w) PROVE AgeInv'
  BY <1>7, AgeShow
<1>8. ASSUME NEW w \in Workers, ExpireNext(w) PROVE AgeInv'
  <2>0. w \in Crons /\ pc[w] = "expire" /\ UNCHANGED <<now, issuing, inChat, clock>>
    BY <1>8 DEF ExpireNext, Workers
  <2>1. PICK a \in todo[w] :
          /\ todo' = [todo EXCEPT ![w] = @ \ {a}]
          /\ \/ ExpireWhere(a) /\ Stamp(a, "EXPIRED", now[w]) /\ Take(w, "release", a)
             \/ UNCHANGED <<rowVars, pc, job, applyVars>>
    BY <1>8 DEF ExpireNext
  <2>2. CASE ExpireWhere(a) /\ Stamp(a, "EXPIRED", now[w]) /\ Take(w, "release", a)
    <3>1. issuing[a] # "new"
      BY <2>2 DEF ExpireWhere, LeaseInv, NewIsNone
    <3>2. AgeOf(w)'
      BY <2>0, <2>1, <2>2, <3>1 DEF Take, AgeOf
    <3> QED BY <2>0, <2>1, <2>2, <3>2, AgeWorker DEF Stamp, Take
  <2>3. CASE UNCHANGED <<rowVars, pc, job, applyVars>>
    BY <2>0, <2>1, <2>3
  <2> QED BY <2>1, <2>2, <2>3
<1>9. ASSUME NEW w \in Workers, SelectStuck(w) PROVE AgeInv'
  <2>1. ASSUME NEW a \in Cards, Stuck(a, now[w]) PROVE issuing[a] = "done"
    BY <2>1 DEF Stuck, LeaseInv, NewIsNone
  <2> QED BY <1>9, <2>1 DEF SelectStuck
<1>10. ASSUME NEW w \in Workers, ReconcileNext(w) PROVE AgeInv'
  <2>1. PICK a \in todo[w] :
          /\ todo' = [todo EXCEPT ![w] = @ \ {a}]
          /\ \/ /\ decision' = [decision EXCEPT ![a] = "FAILED"]
                /\ Take(w, "showFailed", a)
             \/ (\E l \in {"lease", "tell"} : Take(w, l, a)) /\ UNCHANGED decision
             \/ UNCHANGED <<decision, pc, job>>
    BY <1>10 DEF ReconcileNext, Abandon, AbandonWhere, MarkStuck
  <2> QED BY <1>10, <2>1 DEF ReconcileNext, Take
<1>11. ASSUME NEW w \in Workers, Release(w) \/ Tell(w) \/ EndPass(w) PROVE AgeInv'
  <2>1. CASE Release(w)  BY <2>1 DEF Release, Goto
  <2>2. CASE Tell(w)  BY <2>2, AgePutDown DEF Tell
  <2>3. CASE EndPass(w)  BY <2>3 DEF EndPass
  <2> QED BY <1>11, <2>1, <2>2, <2>3
<1>12. ASSUME NEW w \in Workers, Crash(w) PROVE AgeInv'
  BY <1>12 DEF Crash
<1>13. CASE Redeploy \/ Tick \/ UNCHANGED vars
  BY <1>13 DEF Redeploy, Tick, vars
<1>14. ASSUME NEW w \in Crons, StartPass(w) PROVE AgeInv'
  BY <1>14 DEF StartPass
<1>15. ASSUME NEW w \in Workers, Running(w) \/ Crash(w) PROVE AgeInv'
  BY <1>2, <1>3, <1>4, <1>5, <1>6, <1>7, <1>8, <1>9, <1>10, <1>11, <1>12, <1>15
     DEF Running, Applying
<1> QED BY <1>1, <1>13, <1>14, <1>15, AgeIssuing DEF Next

Telling(a) == {w \in Workers : pc[w] = "tell" /\ job[w] = a}

\* What was told, or is about to be, can be read from the row.
ToldIsMarked ==
    \A a \in Cards :
        /\ told[a] # 0 \/ Telling(a) # {} =>
              issuing[a] = "done" /\ (error[a] = "stuck" \/ decision[a] \in {"APPLIED", "FAILED"})
        /\ Telling(a) # {} => told[a] = 0
OneTeller == \A v, w \in Workers : pc[v] = "tell" /\ pc[w] = "tell" /\ job[v] = job[w] => v = w

ReportInv == ToldIsMarked /\ OneTeller /\ ToldOnce

LEMMA ReportInit == Init => ReportInv
  BY DEF Init, ReportInv, ToldIsMarked, OneTeller, ToldOnce, Telling

\* Nothing happens to the mark, and nobody has anything new to tell.
LEMMA ReportSame ==
    ASSUME ReportInv, UNCHANGED told,
           \A a \in Cards : issuing[a] = "done" =>
              /\ issuing'[a] = "done"
              /\ decision[a] \in {"APPLIED", "FAILED"} => decision'[a] = decision[a]
              /\ error[a] = "stuck" => error'[a] = "stuck" \/ decision'[a] \in {"APPLIED", "FAILED"},
           \A v \in Workers : pc'[v] = "tell" => pc[v] = "tell" /\ job'[v] = job[v]
    PROVE  ReportInv'
<1>1. \A a \in Cards : Telling(a)' \subseteq Telling(a)
  BY DEF Telling
<1>2. ToldIsMarked'
  BY <1>1 DEF ReportInv, ToldIsMarked
<1>3. OneTeller'
  BY DEF ReportInv, OneTeller
<1> QED BY <1>2, <1>3 DEF ReportInv, ToldOnce

LEMMA ReportIssuing ==
    ASSUME TypeOK, LeaseInv, ReportInv, NEW a \in Cards, Issuing(a) \/ IssuerCrash(a)
    PROVE  ReportInv'
<1> USE DEF TypeOK, RowsOK, OutsideOK, workerVars, rowVars, chatVars
<1>1. CASE Insert(a)  BY <1>1, ReportSame DEF Insert
<1>2. CASE Send(a)  BY <1>2, ReportSame DEF Send
<1>3. CASE SaveMessageId(a)  BY <1>3, ReportSame DEF SaveMessageId
<1>4. CASE SaveUndelivered(a)  BY <1>4, ReportSame DEF SaveUndelivered
<1>5. CASE IssuerCrash(a)  BY <1>5, ReportSame DEF IssuerCrash
<1> QED BY <1>1, <1>2, <1>3, <1>4, <1>5 DEF Issuing

LEMMA ReportTell ==
    ASSUME TypeOK, ReportInv, NEW w \in Workers, Tell(w) PROVE ReportInv'
<1> USE DEF TypeOK, WorkersOK, OutsideOK, Between
<1>1. PICK a \in Cards :
         /\ pc[w] = "tell" /\ job[w] = a
         /\ told' = [told EXCEPT ![a] = @ + 1] \/ UNCHANGED told
         /\ pc'[w] # "tell"
         /\ \A v \in Workers \ {w} : pc'[v] = pc[v] /\ job'[v] = job[v]
         /\ UNCHANGED <<decision, error, issuing>>
  BY DEF Tell, PutDown, rowVars
<1>2. w \in Telling(a) /\ told[a] = 0
  BY <1>1 DEF Telling, ReportInv, ToldIsMarked
<1>3. Telling(a)' = {}
  BY <1>1 DEF Telling, ReportInv, OneTeller
<1>4. \A b \in Cards : Telling(b)' \subseteq Telling(b)
  BY <1>1 DEF Telling
<1>5. ToldIsMarked'
  BY <1>1, <1>2, <1>3, <1>4 DEF ReportInv, ToldIsMarked
<1>6. OneTeller'
  BY <1>1 DEF ReportInv, OneTeller
<1>7. ToldOnce'
  BY <1>1, <1>2 DEF ReportInv, ToldOnce
<1> QED BY <1>5, <1>6, <1>7 DEF ReportInv

\* markNotified: the row was not marked, so nobody was told and nobody is telling.
LEMMA ReportMark ==
    ASSUME TypeOK, ReportInv, NEW w \in Workers, NEW a \in Cards,
           MarkWhere(a), issuing[a] = "done",
           error' = [error EXCEPT ![a] = "stuck"], Take(w, "tell", a), pc[w] # "tell",
           UNCHANGED <<decision, told, issuing>>
    PROVE  ReportInv'
<1> USE DEF TypeOK, RowsOK, WorkersOK, OutsideOK, Take
<1>1. told[a] = 0 /\ Telling(a) = {}
  BY DEF MarkWhere, ReportInv, ToldIsMarked
<1>2. \A b \in Cards : b # a => Telling(b)' = Telling(b)
  BY DEF Telling
<1>3. ToldIsMarked'
  BY <1>1, <1>2 DEF ReportInv, ToldIsMarked
<1>4. OneTeller'
  BY <1>1 DEF ReportInv, OneTeller, Telling
<1> QED BY <1>3, <1>4 DEF ReportInv, ToldOnce

LEMMA ReportStep == TypeOK /\ LeaseInv /\ AgeInv /\ ReportInv /\ [Next]_vars => ReportInv'
<1> SUFFICES ASSUME TypeOK, LeaseInv, AgeInv, ReportInv, [Next]_vars PROVE ReportInv'
  OBVIOUS
<1> USE DEF TypeOK, RowsOK, WorkersOK, OutsideOK, Between, rowVars, chatVars, workerVars, passVars
<1>1. ASSUME NEW w \in Workers, Claim(w) \/ Explain(w) PROVE ReportInv'
  BY <1>1, ReportSame DEF Claim, ClaimWhere, Explain, Stamp, Goto, PutDown
<1>2. ASSUME NEW w \in Workers, Lease(w) PROVE ReportInv'
  BY <1>2, ReportSame DEF Lease, LeaseWhere, Goto, PutDown
<1>3. ASSUME NEW w \in Workers, Prepare(w) \/ Execute(w) \/ Record(w) PROVE ReportInv'
  BY <1>3, ReportSame DEF Prepare, Execute, Record, Goto
<1>4. ASSUME NEW w \in Workers, Finish(w) \/ Fail(w) PROVE ReportInv'
  <2>1. decision[job[w]] = "APPLYING" /\ job[w] \in Cards
    BY <1>4 DEF Finish, Fail, LeaseInv, LeaseInRow, Leased
  <2> QED BY <1>4, <2>1, ReportSame DEF Finish, Fail, Goto
<1>5. ASSUME NEW w \in Workers, Show(w) PROVE ReportInv'
  BY <1>5, ReportSame DEF Show, PutDown
<1>6. ASSUME NEW w \in Workers, ExpireNext(w) PROVE ReportInv'
  BY <1>6, ReportSame DEF ExpireNext, ExpireWhere, Stamp, Take
<1>7. ASSUME NEW w \in Workers, ReconcileNext(w) PROVE ReportInv'
  <2>1. PICK a \in todo[w] :
          \/ /\ decision[a] = "APPROVED"
             /\ decision' = [decision EXCEPT ![a] = "FAILED"]
             /\ error' = [error EXCEPT ![a] = "abandoned"]
             /\ Take(w, "showFailed", a)
          \/ Take(w, "lease", a) /\ UNCHANGED <<decision, error>>
          \/ UNCHANGED <<decision, error, pc, job>>
          \/ /\ MarkWhere(a)
             /\ error' = [error EXCEPT ![a] = "stuck"]
             /\ Take(w, "tell", a)
             /\ UNCHANGED decision
    BY <1>7 DEF ReconcileNext, Abandon, AbandonWhere, MarkStuck
  <2>2. a \in Cards /\ pc[w] = "reconcile" /\ UNCHANGED <<told, issuing>> /\ issuing[a] = "done"
    BY <1>7 DEF ReconcileNext, AgeInv, Issued, Before
  <2>3. CASE \/ UNCHANGED <<decision, error, pc, job>>
             \/ Take(w, "lease", a) /\ UNCHANGED <<decision, error>>
    BY <2>2, <2>3, ReportSame DEF Take
  <2>4. CASE /\ decision[a] = "APPROVED"
             /\ decision' = [decision EXCEPT ![a] = "FAILED"]
             /\ error' = [error EXCEPT ![a] = "abandoned"]
             /\ Take(w, "showFailed", a)
    BY <2>2, <2>4, ReportSame DEF Take
  <2>5. CASE /\ MarkWhere(a)
             /\ error' = [error EXCEPT ![a] = "stuck"]
             /\ Take(w, "tell", a)
             /\ UNCHANGED decision
    BY <2>2, <2>5, ReportMark
  <2> QED BY <2>1, <2>3, <2>4, <2>5
<1>8. ASSUME NEW w \in Workers,
             \/ StartPass(w) \/ Release(w) \/ SelectStuck(w) \/ EndPass(w) \/ Crash(w)
             \/ \E a \in Cards : Press(w, a)
      PROVE  ReportInv'
  BY <1>8, ReportSame DEF StartPass, Release, SelectStuck, EndPass, Crash, Press, Take, Goto
<1>9. CASE Redeploy \/ Tick \/ UNCHANGED vars
  BY <1>9, ReportSame DEF Redeploy, Tick, vars
<1>10. ASSUME NEW w \in Workers, Running(w) \/ Crash(w) PROVE ReportInv'
  BY <1>1, <1>2, <1>3, <1>4, <1>5, <1>6, <1>7, <1>8, <1>10, ReportTell DEF Running, Applying
<1>11. ASSUME NEW w \in Presses, NEW a \in Cards, Press(w, a) PROVE ReportInv'
  BY <1>8, <1>11 DEF Workers
<1>12. ASSUME NEW w \in Crons, StartPass(w) PROVE ReportInv'
  BY <1>8, <1>12 DEF Workers
<1> QED BY <1>9, <1>10, <1>11, <1>12, ReportIssuing DEF Next

\* markNotified and notifyStuck in any number of overlapping passes: the client is told of
\* a stuck card at most once.
THEOREM StuckIsToldOnce == Spec => []ToldOnce
<1>1. Init => AgeInv /\ ReportInv  BY AgeInit, ReportInit
<1>2. TypeOK /\ LeaseInv /\ AgeInv /\ ReportInv /\ [Next]_vars => (AgeInv /\ ReportInv)'
  BY AgeStep, ReportStep
<1>3. ReportInv => ToldOnce  BY DEF ReportInv
<1> QED BY <1>1, <1>2, <1>3, TypeCorrect, LeaseCorrect, PTL DEF Spec

=============================================================================
