------------------------------- MODULE Services -------------------------------
(***************************************************************************)
(* The components that meet the others only in the database, side by side:  *)
(* the interview and its calls for a human, the test of texts, the tokens   *)
(* of VK, stored credentials, the units of Yandex, model runs and           *)
(* conversions.  None reads what another writes, so that each promise is    *)
(* of one component whatever the rest does.                                 *)
(***************************************************************************)
EXTENDS Integers, Sequences, FiniteSets

CONSTANTS
    Handlers, Messages, Turns, OldBriefs, MaxQuestions, LandingUrlAttempts, MaxMessages, HandConfig,
    Grounds, Window, LastTick,
    TestAds, VariantOf, Outcomes, MinImpressions, MinExpected, CriticalZ2, MinLiftPct, MaxCollectingDays, LastDay,
    Processes, Requests, TokenLimit, Ttl, Margin, Remint, MaxMinted, LastTokenTick,
    Inputs, YandexFields, Passes, MaxTokens, MaxCommands,
    Jobs, MaxConcurrent, Attempts, Reserve, Cost, ErrorCost, Hourly, Daily,
    Runs, Prompts, MonthlyLimit, ModelAttempts, RepairAttempts, MaxRows,
    Campaigns, MaxStarts,
    MaxFaults                 \* bound: faults of each component

VARIABLES
    brief, said, heard, interview, config, backfill,
    clock, key, call, answered, errors, callFaults,
    day, phase, cabinet, status, shown, rewritten, keys, pending, ours, testFaults,
    tokenClock, tokens, tokenRow, ctx, cache, mint, req, tokenFaults,
    credentials, code, cmd, pass, issued, given, exchanged, commands, credFaults,
    balance, known, unitCall, unitWork, unitFaults,
    modelRuns, aiRuns, llmCache, started, modelFaults,
    stored, runs, broken, audited, starts, runFaults

Onb == INSTANCE Onboarding WITH row <- brief, work <- interview
Esc == INSTANCE Escalation WITH faults <- callFaults
Exp == INSTANCE Experiments WITH Ads <- TestAds, faults <- testFaults
Vk == INSTANCE VkTokens WITH
    Limit <- TokenLimit, MaxTokens <- MaxMinted, LastTick <- LastTokenTick,
    clock <- tokenClock, row <- tokenRow, faults <- tokenFaults
Cred == INSTANCE Credentials WITH row <- credentials, faults <- credFaults
Units == INSTANCE YandexUnits WITH call <- unitCall, work <- unitWork, faults <- unitFaults
Ai == INSTANCE Llm WITH Limit <- MonthlyLimit, Attempts <- ModelAttempts, runs <- modelRuns, faults <- modelFaults
Conv == INSTANCE Conversions WITH faults <- runFaults

onbVars == <<brief, said, heard, interview, config, backfill>>
escVars == <<clock, key, call, answered, errors, callFaults>>
expVars == <<day, phase, cabinet, status, shown, rewritten, keys, pending, ours, testFaults>>
vkVars == <<tokenClock, tokens, tokenRow, ctx, cache, mint, req, tokenFaults>>
credVars == <<credentials, code, cmd, pass, issued, given, exchanged, commands, credFaults>>
unitVars == <<balance, known, unitCall, unitWork, unitFaults>>
aiVars == <<modelRuns, aiRuns, llmCache, started, modelFaults>>
convVars == <<stored, runs, broken, audited, starts, runFaults>>
servicesVars == <<onbVars, escVars, expVars, vkVars, credVars, unitVars, aiVars, convVars>>

-----------------------------------------------------------------------------
Interviews ==
    Onb!Next /\ UNCHANGED <<escVars, expVars, vkVars, credVars, unitVars, aiVars, convVars>>
Escalates ==
    Esc!Next /\ UNCHANGED <<onbVars, expVars, vkVars, credVars, unitVars, aiVars, convVars>>
TestsTexts ==
    Exp!Next /\ UNCHANGED <<onbVars, escVars, vkVars, credVars, unitVars, aiVars, convVars>>
UsesTokens ==
    Vk!Next /\ UNCHANGED <<onbVars, escVars, expVars, credVars, unitVars, aiVars, convVars>>
KeepsCredentials ==
    Cred!Next /\ UNCHANGED <<onbVars, escVars, expVars, vkVars, unitVars, aiVars, convVars>>
SpendsUnits ==
    Units!Next /\ UNCHANGED <<onbVars, escVars, expVars, vkVars, credVars, aiVars, convVars>>
AsksModel ==
    Ai!Next /\ UNCHANGED <<onbVars, escVars, expVars, vkVars, credVars, unitVars, convVars>>
CountsConversions ==
    Conv!Next /\ UNCHANGED <<onbVars, escVars, expVars, vkVars, credVars, unitVars, aiVars>>

ServicesInit ==
    Onb!Init /\ Esc!Init /\ Exp!Init /\ Vk!Init /\ Cred!Init /\ Units!Init /\ Ai!Init /\ Conv!Init
ServicesNext ==
    \/ Interviews \/ Escalates \/ TestsTexts \/ UsesTokens
    \/ KeepsCredentials \/ SpendsUnits \/ AsksModel \/ CountsConversions

ServicesSpec == ServicesInit /\ [][ServicesNext]_servicesVars

-----------------------------------------------------------------------------
\* An answer the client was told is taken is in the interview, the address of the brief is
\* one the client wrote, and a halted interview says of its grounds what is true of it.
InterviewIsHonest == Onb!NoAnswerLost /\ Onb!AddressIsClients /\ Onb!HaltTellsTruth

\* What stands in the columns of Metrika, entered by hand or by a run before, is changed by
\* an operator or by the write of a completed brief, that handler's own step, and never
\* by a backfill that read the columns while they were empty.
HandStays == [][Onb!HandStep]_onbVars

\* While a row silences a halt, an administrator was called, or is being called, under
\* that very row: a letter that failed never silences the next message of the client.
SilenceIsFounded == Esc!SilenceIsFounded

\* The cards of the test of texts, many nights together, never switch a group off.
GroupStaysOn == Exp!GroupStaysOn

\* No request to VK is failed by a refresh of its own process that came too early; what is
\* stored of Yandex is usable, and renewable as it was given, whatever order commands and
\* renewals write in; and a code is spent by nothing but an exchange that was confirmed.
TokensLast == Vk!OwnRefreshIsHarmless /\ Cred!StoredIsUsable /\ Cred!CodeIsKept

\* The reserve of units is eaten into by no more than rounds of 1, 2, ... calls, as many
\* as may be in flight, and a full round for every answer that was lost and restart.
ReserveHolds == Units!ReserveHolds

\* A row of success tells all that the run was charged, its repairs included, and the sum of
\* the rows of the month passes the limit by no more than what the runs that were let in
\* together could cost.  Nothing is said of a call that failed: its row says 0.
SuccessesAreCharged == Ai!CostIsTold /\ Ai!MonthHolds

\* When no pass of the ingestion is under way, the window is in the model of Metrika but
\* for campaigns that a pass left out (it failed, Metrika was silent, or an ambiguous row
\* shields them) and none has seen to since, however the passes overlapped.
OneModelAtRest == Conv!OneModelAtRest
=============================================================================
