---------------------------- MODULE Conversions ----------------------------
(***************************************************************************)
(* Runs of the ingestion over one cabinet of Yandex.Direct that overlap      *)
(* (src/src/ingestion/run.ts): the statistics put the conversions of the    *)
(* platform into the window, then Metrika puts its own over them, row by     *)
(* row, and any of the stages may throw.                                    *)
(*                                                                         *)
(* One day stands for the window, and money is left out: the column and its  *)
(* source are what the runs contend for.  MaxStarts bounds the runs,        *)
(* MaxFaults the stages that throw.                                         *)
(***************************************************************************)
EXTENDS Integers, Sequences, FiniteSets

CONSTANTS Runs, Campaigns, MaxStarts, MaxFaults

IF_ == INSTANCE IngestionFacts
\* A row of the window before any number came: zeroUnreported touches rows that are there.
Empty == [conversions |-> 0, source |-> "NONE"]

VARIABLES stored,  \* campaign -> what the window holds
          runs,    \* run -> [pc, todo, answer, shielded, heals]
          broken,  \* campaigns some run left without Metrika's number, and none has seen to since
          audited, \* run -> it ended, and had looked for mixed models when it did
          starts, faults
convVars == <<stored, runs, broken, audited, starts, faults>>

Idle == [pc |-> "idle", todo |-> {}, answer |-> {}, shielded |-> {}, heals |-> {}]
Init == /\ stored = [c \in Campaigns |-> Empty] /\ runs = [r \in Runs |-> Idle]
        /\ broken = {} /\ audited = [r \in Runs |-> TRUE] /\ starts = 0 /\ faults = 0

Goto(r, pc, todo) == runs' = [runs EXCEPT ![r].pc = pc, ![r].todo = todo]
\* A run that ends makes good what was left before it began, but for what it leaves itself.
Ends(r, left, audit) ==
    /\ runs' = [q \in Runs |-> IF q = r THEN Idle ELSE [runs[q] EXCEPT !.heals = @ \ left]]
    /\ broken' = left \cup (broken \ runs[r].heals)
    /\ audited' = [audited EXCEPT ![r] = audit]

-----------------------------------------------------------------------------
\* runIngestion: nothing keeps two runs apart.
Start(r) ==
    /\ runs[r].pc = "idle" /\ starts < MaxStarts /\ starts' = starts + 1
    /\ runs' = [runs EXCEPT ![r] = [Idle EXCEPT !.pc = "entities", !.heals = Campaigns]]
    /\ UNCHANGED <<stored, broken, audited, faults>>

\* stage, ingestTarget: what throws is written down and the next stage is tried, but not
\* after a refused token.
NextStage(pc) == IF pc = "entities" THEN "report" ELSE "metrika"
Throws(r) ==
    /\ runs[r].pc # "idle" /\ faults < MaxFaults /\ faults' = faults + 1
    /\ \E refused \in BOOLEAN :
          IF runs[r].pc \in {"entities", "report", "stats"} /\ ~refused
          THEN Goto(r, NextStage(runs[r].pc), {}) /\ UNCHANGED <<broken, audited>>
          ELSE Ends(r, Campaigns, FALSE)
    /\ UNCHANGED <<stored, starts>>

SyncedEntities(r) == /\ runs[r].pc = "entities" /\ Goto(r, "report", {})
                     /\ UNCHANGED <<stored, broken, audited, starts, faults>>
\* syncStats: the report, and its rows one after another.
Reports(r) == /\ runs[r].pc = "report"
              /\ \E reported \in SUBSET Campaigns : Goto(r, "stats", reported)
              /\ UNCHANGED <<stored, broken, audited, starts, faults>>
WriteStat(r, c) ==
    /\ runs[r].pc = "stats" /\ c \in runs[r].todo
    /\ \E number \in {IF_!NoNumber, 0, 1} :
          stored' = [stored EXCEPT ![c] = IF_!Aggregate(<<[entity |-> c, conversions |-> number]>>, c)]
    /\ Goto(r, "stats", runs[r].todo \ {c})
    /\ UNCHANGED <<broken, audited, starts, faults>>
StatsDone(r) == /\ runs[r].pc = "stats" /\ runs[r].todo = {} /\ Goto(r, "metrika", {})
                /\ UNCHANGED <<stored, broken, audited, starts, faults>>

\* syncMetrikaConversions: Metrika that is not configured, an empty answer, one of which
\* nothing can be placed and one with a row that names no campaign at all leave the window
\* as it is.  Otherwise the campaigns an ambiguous row may have meant are shielded.
LeavesWindow(r) == runs[r].pc = "metrika" /\ Ends(r, Campaigns, TRUE) /\ UNCHANGED <<stored, starts, faults>>
AsksMetrika(r) ==
    /\ runs[r].pc = "metrika"
    /\ \E placed \in SUBSET Campaigns \ {{}}, shielded \in SUBSET Campaigns :
          runs' = [runs EXCEPT ![r].pc = "apply", ![r].todo = placed, ![r].answer = placed,
                               ![r].shielded = shielded]
    /\ UNCHANGED <<broken, audited>>
    /\ UNCHANGED <<stored, starts, faults>>
\* applyConversions.
Apply(r, c) ==
    /\ runs[r].pc = "apply" /\ c \in runs[r].todo
    /\ stored' = [stored EXCEPT ![c] = IF_!OfMetrika(1)]
    /\ Goto(r, "apply", runs[r].todo \ {c})
    /\ UNCHANGED <<broken, audited, starts, faults>>
\* zeroUnreported reads what is to be set to nought, of campaigns that are not shielded,
\* then sets it row by row.
ToZeroByNumber(answer, shielded) == {c \in Campaigns \ (answer \cup shielded) : stored[c].conversions # 0}
ToZero(answer, shielded) == {c \in Campaigns \ (answer \cup shielded) : stored[c] # IF_!OfMetrika(0)}
ReadsStale(r) ==
    /\ runs[r].pc = "apply" /\ runs[r].todo = {}
    /\ Goto(r, "zero", ToZero(runs[r].answer, runs[r].shielded))
    /\ UNCHANGED <<stored, broken, audited, starts, faults>>
Zero(r, c) ==
    /\ runs[r].pc = "zero" /\ c \in runs[r].todo
    /\ stored' = [stored EXCEPT ![c] = IF_!OfMetrika(0)]
    /\ Goto(r, "zero", runs[r].todo \ {c})
    /\ UNCHANGED <<broken, audited, starts, faults>>
Finish(r) == /\ runs[r].pc = "zero" /\ runs[r].todo = {}
             /\ Ends(r, runs[r].shielded \ runs[r].answer, TRUE)
             /\ UNCHANGED <<stored, starts, faults>>

Next == \E r \in Runs :
           \/ Start(r) \/ Throws(r) \/ SyncedEntities(r) \/ Reports(r) \/ StatsDone(r)
           \/ LeavesWindow(r) \/ AsksMetrika(r) \/ ReadsStale(r) \/ Finish(r)
           \/ \E c \in Campaigns : WriteStat(r, c) \/ Apply(r, c) \/ Zero(r, c)
Spec == Init /\ [][Next]_convVars

-----------------------------------------------------------------------------
(* Properties. *)

TypeOK == /\ \A c \in Campaigns : stored[c].source \in {"NONE", "PLATFORM", "METRIKA"}
          /\ \A r \in Runs : runs[r].todo \subseteq Campaigns
          /\ broken \subseteq Campaigns

\* run.ts: overlapping runs are safe.  When none is under way, a campaign whose number is
\* not Metrika's is one that a run left (it failed, Metrika was silent, or a row of the
\* answer may have meant the campaign and could not be placed) and that no run begun since
\* has placed or set to nought: what the runs did to each other's rows leaves none.
OneModelAtRest ==
    (\A r \in Runs : runs[r].pc = "idle") =>
        starts = 0 \/ \A c \in Campaigns \ broken : stored[c].source = "METRIKA"

\* metrika.ts: "every run ends with a check of the sources over the window: that the
\* model is one must not hang on the steps coming in the right order and none of them
\* failing".  NOT so: a stage that throws is left before its check.
MixIsAudited == \A r \in Runs : (runs[r].pc = "idle" /\ ~audited[r]) => ~IF_!Mixed(stored)
=============================================================================
