----------------------------- MODULE YandexUnits -----------------------------
(***************************************************************************)
(* The units of one Yandex advertiser in one process                        *)
(* (src/src/clients/yandex-direct: http.ts, errors.ts; src/src/lib/retry.ts).*)
(* Yandex pays the balance back by the hour; the client knows of it only     *)
(* what the last answer said, and refuses a call by that, off the network.   *)
(***************************************************************************)
EXTENDS Integers, FiniteSets

CONSTANTS Jobs,          \* pieces of work that need one call each
          MaxConcurrent, \* MAX_CONCURRENT_REQUESTS
          Attempts,      \* RETRY_SOON_ATTEMPTS
          Reserve,       \* YANDEX_UNITS_RESERVE
          Cost, ErrorCost, Hourly, Daily, \* Yandex: of a call, of a refusal, back by the hour, at most
          MaxFaults      \* bound: answers lost and restarts

VARIABLES balance, \* at Yandex
          known,   \* unitsState of the process: what is left by the last answer heard
          call,    \* job -> its call
          work,    \* "asked" until an answer to it is heard
          faults

unitVars == <<balance, known, call, work, faults>>

Unheard == -1
NoCall == [pc |-> "none", attempt |-> 0, answer |-> "none", left |-> 0]
Fault == faults < MaxFaults /\ faults' = faults + 1
InFlight == {j \in Jobs : call[j].pc \in {"sent", "answered"}}

-----------------------------------------------------------------------------
\* A cron or a person asks; what failed is asked for again by the next run of the cron.
Ask(j) ==
    /\ call[j].pc = "none" /\ work[j] # "done"
    /\ work' = [work EXCEPT ![j] = "asked"]
    /\ call' = [call EXCEPT ![j] = [NoCall EXCEPT !.pc = "queued", !.attempt = 1]]
    /\ UNCHANGED <<balance, known, faults>>

\* assertUnitsAvailable, in the queue's task and not before it.
UnitsUnchecked(j) == TRUE
UnitsAvailable(j) == known = Unheard \/ known >= Reserve

\* OutOfUnitsError is not retried by the call (shouldRetryYandex): the job ends with it.
Refuse(j) ==
    /\ call[j].pc = "queued" /\ Cardinality(InFlight) < MaxConcurrent
    /\ ~UnitsAvailable(j)
    /\ call' = [call EXCEPT ![j] = NoCall]
    /\ UNCHANGED <<balance, known, work, faults>>

Send(j) ==
    /\ call[j].pc = "queued" /\ Cardinality(InFlight) < MaxConcurrent
    /\ UnitsAvailable(j)
    /\ call' = [call EXCEPT ![j].pc = "sent"]
    /\ UNCHANGED <<balance, known, work, faults>>

\* Yandex carries the call out, or refuses it with code 152, which costs units too.
Serve(j) ==
    /\ call[j].pc = "sent"
    /\ LET paid == balance >= Cost
           left == IF paid THEN balance - Cost ELSE IF balance >= ErrorCost THEN balance - ErrorCost ELSE 0
       IN  /\ balance' = left
           /\ call' = [call EXCEPT ![j] = [@ EXCEPT !.pc = "answered", !.left = left,
                                                    !.answer = IF paid THEN "result" ELSE "out of units"]]
    /\ UNCHANGED <<known, work, faults>>

\* accountUnits, then the body is looked at.  Answers come in any order.
Hear(j) ==
    /\ call[j].pc = "answered"
    /\ known' = call[j].left
    /\ work' = [work EXCEPT ![j] = IF call[j].answer = "result" THEN "done" ELSE @]
    /\ call' = [call EXCEPT ![j] = NoCall]
    /\ UNCHANGED <<balance, faults>>

\* An answer of a server error, without its Units: tried once more while attempts are left.
LoseAnswer(j) ==
    /\ call[j].pc = "answered"
    /\ Fault
    /\ call' = [call EXCEPT ![j] = IF call[j].attempt < Attempts
                                   THEN [NoCall EXCEPT !.pc = "queued", !.attempt = call[j].attempt + 1]
                                   ELSE NoCall]
    /\ UNCHANGED <<balance, known, work>>

Restart ==
    /\ Fault
    /\ known' = Unheard
    /\ call' = [j \in Jobs |-> NoCall]
    /\ UNCHANGED <<balance, work>>

\* A twenty-fourth of the day's units comes back every hour.
Replenish ==
    /\ balance < Daily
    /\ balance' = IF balance + Hourly < Daily THEN balance + Hourly ELSE Daily
    /\ UNCHANGED <<known, call, work, faults>>

Init ==
    /\ balance = Daily
    /\ known = Unheard
    /\ call = [j \in Jobs |-> NoCall]
    /\ work = [j \in Jobs |-> "none"]
    /\ faults = 0

Step(j) == Ask(j) \/ Refuse(j) \/ Send(j) \/ Serve(j) \/ Hear(j)
Next == Replenish \/ Restart \/ \E j \in Jobs : Step(j) \/ LoseAnswer(j)

\* Crons fire, the queue and Yandex go on, hours pass; nothing restarts the process.
Fairness == WF_unitVars(Replenish) /\ \A j \in Jobs : SF_unitVars(Ask(j)) /\ SF_unitVars(Send(j) \/ Refuse(j))
                                                       /\ WF_unitVars(Serve(j)) /\ WF_unitVars(Hear(j))
Spec == Init /\ [][Next]_unitVars /\ Fairness

-----------------------------------------------------------------------------
TypeOK ==
    /\ balance \in 0 .. Daily
    /\ known \in {Unheard} \cup 0 .. Daily
    /\ call \in [Jobs -> [pc : {"none", "queued", "sent", "answered"}, attempt : 0 .. Attempts,
                          answer : {"none", "result", "out of units"}, left : 0 .. Daily]]
    /\ work \in [Jobs -> {"none", "asked", "done"}]
    /\ faults \in 0 .. MaxFaults

\* However many calls wait, however answers overtake each other, the reserve is eaten into
\* by no more than rounds of 1, 2, ... MaxConcurrent calls, and one full round more for
\* every answer that was lost and every restart.  (An answer given while there was enough,
\* and heard after those that say there is not, lets calls out once more, into every place
\* in flight but those of other such answers: no two rounds are let out by the same one.)
ReserveHolds == 2 * (Reserve - balance) <= Cost * MaxConcurrent * (MaxConcurrent + 1 + 2 * faults)

\* Work that is put off for want of units is done once Yandex has paid them back
\* (docs/RUNBOOK.md:73, "откладывает работу до следующего окна"): not true.  What was heard
\* last stands for ever: no call is let out that could hear anything else.
UnitsReturn == \A j \in Jobs : (work[j] = "asked") ~> (work[j] = "done")
=============================================================================
