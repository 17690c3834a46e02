--------------------------------- MODULE Llm ----------------------------------
(***************************************************************************)
(* The one door to the models (src/src/clients/llm): runAgent, its budget   *)
(* of the month, its cache, its retries and repairs, and the row of AiRun   *)
(* every call leaves.  Runs of one client overlap: each of them waits for   *)
(* the database and for the model.  The cost of one answer is the unit.     *)
(***************************************************************************)
EXTENDS Integers, Sequences, FiniteSets

CONSTANTS Runs,             \* runs that may be under way at once
          Prompts,          \* what is asked; equal prompts have one cache key
          Limit,            \* the budget of the month
          Attempts,         \* withRetry
          RepairAttempts,
          MaxRows,          \* bound: runs in all
          MaxFaults         \* bound: rows of AiRun that could not be written

VARIABLES runs,     \* the runs under way
          aiRuns,   \* the rows of the month
          llmCache, \* prompt -> what of an answer is kept
          started, faults

llmVars == <<runs, aiRuns, llmCache, started, faults>>

Idle == [pc |-> "idle", prompt |-> "none", tries |-> 0, repairs |-> 0,
         usage |-> 0, paid |-> 0, cost |-> 0, ok |-> FALSE, cached |-> FALSE, useCache |-> TRUE]

\* getMonthlySpendUsd.
Spent(rows) ==
    LET sum[n \in 0 .. Len(rows)] == IF n = 0 THEN 0 ELSE sum[n - 1] + rows[n].cost
    IN  sum[Len(rows)]
MonthlySpend == Spent(aiRuns)

-----------------------------------------------------------------------------
Start(r, prompt, useCache) ==
    /\ runs[r].pc = "idle" /\ started < MaxRows
    /\ runs' = [runs EXCEPT ![r] = [Idle EXCEPT !.pc = "budget", !.prompt = prompt, !.useCache = useCache]]
    /\ started' = started + 1
    /\ UNCHANGED <<aiRuns, llmCache, faults>>

\* What the row will say: a run that failed is entered with the usage it knows of.
Succeeds(run, cost, cached) == [run EXCEPT !.pc = "record", !.ok = TRUE, !.cost = cost, !.cached = cached]
Fails(run) == [run EXCEPT !.pc = "record", !.ok = FALSE, !.cost = run.usage]
Calls(run) == [run EXCEPT !.pc = "call", !.tries = Attempts, !.repairs = RepairAttempts]
Retries(run) == [run EXCEPT !.tries = @ - 1]

\* assertWithinMonthlyBudget, and the cache in the same turn: an answer that was kept
\* is parsed more strictly than a new one, and forgotten when that fails.
NoBudgetCheck(r) ==
    /\ runs[r].pc = "budget"
    /\ runs' = [runs EXCEPT ![r] = Calls(@)]
    /\ UNCHANGED <<aiRuns, llmCache, started, faults>>
CheckBudget(r) ==
    LET kept == IF runs[r].useCache THEN llmCache[runs[r].prompt] ELSE "none"
    IN  /\ runs[r].pc = "budget"
        /\ runs' = [runs EXCEPT ![r] = IF MonthlySpend >= Limit THEN Fails(@)
                                       ELSE IF kept = "clean" THEN Succeeds(@, 0, TRUE)
                                       ELSE Calls(@)]
        /\ llmCache' = IF MonthlySpend < Limit /\ kept = "wrapped"
                       THEN [llmCache EXCEPT ![runs[r].prompt] = "none"] ELSE llmCache
        /\ UNCHANGED <<aiRuns, started, faults>>

\* completeStructured: usages add up over the repairs; runAgent learns them from a
\* success only.
LastUsage(run) == Succeeds([run EXCEPT !.paid = @ + 1], 1, FALSE)
Answered(run) == Succeeds([run EXCEPT !.paid = @ + 1], run.paid + 1, FALSE)
GoodAnswer(r, form) ==
    /\ runs[r].pc = "call"
    /\ runs' = [runs EXCEPT ![r] = Answered(@)]
    /\ llmCache' = IF runs[r].useCache THEN [llmCache EXCEPT ![runs[r].prompt] = form] ELSE llmCache
    /\ UNCHANGED <<aiRuns, started, faults>>

\* An answer that is no JSON or does not match the schema.
BadAnswer(r) ==
    LET told == [runs[r] EXCEPT !.paid = @ + 1]
    IN  /\ runs[r].pc = "call"
        /\ runs' = [runs EXCEPT ![r] = IF told.repairs = 0 THEN Fails(told)
                                       ELSE [told EXCEPT !.repairs = @ - 1, !.tries = Attempts]]
        /\ UNCHANGED <<aiRuns, llmCache, started, faults>>

\* No answer: a limit, an error of the provider, a refusal that is final.
NoAnswer(r, retryable) ==
    /\ runs[r].pc = "call"
    /\ runs' = [runs EXCEPT ![r] = IF retryable /\ @.tries > 1 THEN Retries(@) ELSE Fails(@)]
    /\ UNCHANGED <<aiRuns, llmCache, started, faults>>

\* recordRun: a row that cannot be written does not fail the run.
Record(r) ==
    LET run == runs[r]
    IN  /\ run.pc = "record"
        /\ runs' = [runs EXCEPT ![r] = Idle]
        /\ \/ /\ aiRuns' = Append(aiRuns, [ok |-> run.ok, cached |-> run.cached, cost |-> run.cost, paid |-> run.paid])
              /\ UNCHANGED faults
           \/ /\ faults < MaxFaults /\ faults' = faults + 1
              /\ UNCHANGED aiRuns
        /\ UNCHANGED <<llmCache, started>>

\* LlmCache: an entry grows old or is pushed out.
Forget(prompt) ==
    /\ llmCache[prompt] # "none"
    /\ llmCache' = [llmCache EXCEPT ![prompt] = "none"]
    /\ UNCHANGED <<runs, aiRuns, started, faults>>

Init ==
    /\ runs = [r \in Runs |-> Idle]
    /\ aiRuns = <<>>
    /\ llmCache = [p \in Prompts |-> "none"]
    /\ started = 0 /\ faults = 0

Next ==
    \/ \E r \in Runs : \/ \E p \in Prompts, useCache \in BOOLEAN : Start(r, p, useCache)
                       \/ CheckBudget(r) \/ BadAnswer(r) \/ Record(r)
                       \/ \E form \in {"clean", "wrapped"} : GoodAnswer(r, form)
                       \/ \E retryable \in BOOLEAN : NoAnswer(r, retryable)
    \/ \E p \in Prompts : Forget(p)

Spec == Init /\ [][Next]_llmVars

-----------------------------------------------------------------------------
\* What a successful call cost is on its row with all its repairs, and only an answer
\* out of the cache is free.
CostIsTold ==
    \A i \in DOMAIN aiRuns : aiRuns[i].ok => /\ aiRuns[i].cost = aiRuns[i].paid
                                             /\ aiRuns[i].cached <=> aiRuns[i].paid = 0

\* The budget is read before the call and charged after it, so the sum of the rows, which
\* is what the budget is held against, may pass the limit, but by no more than what can be
\* under way at once, each with all its repairs.  Rows of failed calls add nothing to it.
MonthHolds == MonthlySpend <= Limit - 1 + Cardinality(Runs) * (RepairAttempts + 1)

\* run.ts: "a call that failed cost money and time as well - it must leave a trace".
\* NOT so: a call whose repairs are used up is entered as free, though every answer was
\* paid for, and the budget of the month does not see it.
FailedLeavesTrace == \A i \in DOMAIN aiRuns : aiRuns[i].cost = aiRuns[i].paid
=============================================================================
