----------------------------- MODULE Onboarding ------------------------------
(***************************************************************************)
(* The onboarding interview of one client (src/src/ai/onboarding:           *)
(* interview.ts, state.ts, metrika-config.ts, metrika-backfill.ts, called   *)
(* by src/src/bot/onboarding-handlers.ts).                                  *)
(*                                                                         *)
(* A handler reads the brief row, asks the model - seconds - and writes the *)
(* row back if nobody did meanwhile.  Updates of one chat are served one    *)
(* after the other, those of two chats of one client, or of a bot that is   *)
(* being replaced, are not.                                                 *)
(***************************************************************************)
EXTENDS BriefFacts

CONSTANTS Handlers,           \* updates served at once
          Messages,           \* what the client may write: [text, addresses]
          Turns,              \* what the model may answer
          OldBriefs,          \* [row, said] kept from before: complete by an older schema
          MaxQuestions, LandingUrlAttempts,
          MaxMessages,        \* bound: messages of the client
          HandConfig          \* the configuration an operator enters by hand

VARIABLES row,                \* the ClientBrief row
          said,               \* the client's messages, by number
          heard,              \* numbers of the messages answered as taken
          work,               \* what each handler is at
          config,             \* the client's columns [counter, goal]
          backfill            \* the row the backfill has read, or none

onboardingVars == <<row, said, heard, work, config, backfill>>

NoHalt == "none"
HaltReasons == {"no-landing", "unconfirmed-landing", "question-budget"}
Statuses == {"NONE", "IN_PROGRESS", "COMPLETE"}

EmptyRow == [status |-> "NONE", draft |-> NoDraft, turns |-> <<>>, askedCount |-> 0,
             halted |-> NoHalt, version |-> 0]
Idle == [pc |-> "idle", row |-> EmptyRow, message |-> 0]
NoConfig == [counter |-> 0, goal |-> 0]

\* A turn is the number of a message of the client, or what the interviewer asks of.
ClientTurn(n) == [by |-> "client", message |-> n, asking |-> "none"]
Question(field) == [by |-> "interviewer", message |-> 0, asking |-> field]
UserMessages(turns) ==
    [i \in {k \in DOMAIN turns : turns[k].by = "client"} |-> said[turns[i].message]]
CountAsks(turns, field) ==
    Cardinality({i \in DOMAIN turns : turns[i].by = "interviewer" /\ turns[i].asking = field})

ReopenableFields(r) ==
    IF r.status = "COMPLETE" /\ ParseCompleteBrief(r.draft) THEN MissingBriefFields(r.draft) ELSE {}
ExpectsAnswer(r) == r.status # "NONE" /\ (r.status # "COMPLETE" \/ ReopenableFields(r) # {})

LiftsUnconfirmed(reason, message) == reason = "unconfirmed-landing" /\ MentionsWebAddress(message)
LiftsHalt(reason, message) == reason # "question-budget" /\ MentionsWebAddress(message)

-----------------------------------------------------------------------------
(* Reading: a command or a message arrives. *)

Set(h, pc, r, n) == work' = [work EXCEPT ![h] = [pc |-> pc, row |-> r, message |-> n]]

\* /onboarding: a new or a reopened interview asks the model, another one repeats
\* what it last said; the row of a loser of the race to create it is read instead.
StartInterview(h) ==
    LET found == IF row.status = "NONE" THEN [EmptyRow EXCEPT !.status = "IN_PROGRESS"] ELSE row
        silent == \/ found.status = "COMPLETE" /\ ReopenableFields(found) = {}
                  \/ found.status = "IN_PROGRESS" /\ found.halted # NoHalt
                  \/ /\ found.status = "IN_PROGRESS"
                     /\ \E i \in DOMAIN found.turns : found.turns[i].by = "interviewer"
    IN  /\ work[h].pc = "idle"
        /\ row' = found
        /\ IF silent THEN work' = work ELSE Set(h, "asking", found, 0)
        /\ row' # row \/ work' # work
        /\ UNCHANGED <<said, heard, config, backfill>>

\* The bot looks whether the interview waits for an answer...
OfferMessage(h, m) ==
    /\ work[h].pc = "idle"
    /\ Len(said) < MaxMessages
    /\ ExpectsAnswer(row)
    /\ said' = Append(said, m)
    /\ Set(h, "offered", EmptyRow, Len(said) + 1)
    /\ UNCHANGED <<row, heard, config, backfill>>

\* ...and handleAnswer reads the row again.
ReadMessage(h) ==
    LET n == work[h].message
        told == [row EXCEPT !.turns = Append(@, ClientTurn(n))]
    IN  /\ work[h].pc = "offered"
        /\ IF ~ExpectsAnswer(row) THEN work' = [work EXCEPT ![h] = Idle]
           ELSE IF row.halted # NoHalt /\ ~LiftsHalt(row.halted, said[n])
           THEN Set(h, "repeating", told, n)
           ELSE Set(h, "asking", [told EXCEPT !.halted = NoHalt], n)
        /\ UNCHANGED <<row, said, heard, config, backfill>>

-----------------------------------------------------------------------------
(* Writing. *)

\* Only over the row that was read; else the client is asked to send it again.
PersistAlways(h, new) ==
    /\ row' = [new EXCEPT !.version = @ + 1]
    /\ heard' = heard \cup ({work[h].message} \ {0})
Persist(h, new) ==
    IF row.version = work[h].row.version
    THEN /\ row' = [new EXCEPT !.version = @ + 1]
         /\ heard' = heard \cup ({work[h].message} \ {0})
    ELSE UNCHANGED <<row, heard>>
\* A message into a halted interview is kept for the human.
RepeatHalt(h) ==
    LET r == work[h].row
    IN  /\ work[h].pc = "repeating"
        /\ Persist(h, [r EXCEPT !.turns = Append(@, Question("none"))])
        /\ work' = [work EXCEPT ![h] = Idle]
        /\ UNCHANGED <<said, config, backfill>>

\* Whether the interview stops here, and on what grounds.
HaltOf(draft, asking, done, turns, askedCount) ==
    LET missing == MissingBriefFields(draft)
    IN  IF missing = {} THEN NoHalt
        ELSE IF /\ "landingUrl" \in missing
                /\ asking = "landingUrl" \/ done
                /\ CountAsks(turns, "landingUrl") >= LandingUrlAttempts
        THEN IF \E i \in DOMAIN UserMessages(turns) : MentionsWebAddress(UserMessages(turns)[i])
             THEN "unconfirmed-landing" ELSE "no-landing"
        ELSE IF askedCount >= MaxQuestions THEN "question-budget" ELSE NoHalt

\* advance, from the model's answer on.
Advance(h, turn) ==
    LET r == work[h].row
        draft == ApplyTurnUpdates(r.draft, turn, UserMessages(r.turns))
        missing == MissingBriefFields(draft)
        asking == IF turn.asking # "none" THEN turn.asking
                  ELSE IF Cardinality(missing) = 1 /\ ~turn.done
                       THEN CHOOSE f \in missing : TRUE ELSE "none"
        halt == HaltOf(draft, asking, turn.done, r.turns, r.askedCount + 1)
        complete == missing = {}
    IN  /\ work[h].pc = "asking"
        /\ Persist(h, [r EXCEPT !.draft = draft,
                                !.turns = Append(@, Question(asking)),
                                !.askedCount = @ + 1,
                                !.halted = IF halt # NoHalt THEN halt ELSE @,
                                !.status = IF complete THEN "COMPLETE" ELSE "IN_PROGRESS"])
        /\ IF complete /\ row' # row THEN Set(h, "configuring", row', 0)
           ELSE work' = [work EXCEPT ![h] = Idle]
        /\ UNCHANGED <<said, config, backfill>>

\* The model or the store fails, or the process ends: nothing was written, and the
\* client is asked to send it again or hears nothing.
FailTurn(h) ==
    /\ work[h].pc \in {"offered", "asking", "repeating", "configuring"}
    /\ work' = [work EXCEPT ![h] = Idle]
    /\ UNCHANGED <<row, said, heard, config, backfill>>

-----------------------------------------------------------------------------
(* The Metrika columns of the client. *)

Patched(old, patch) ==
    [c \in {"counter", "goal"} |-> IF patch[c] # 0 THEN patch[c] ELSE old[c]]

\* saveMetrikaConfig of the brief just completed.
SaveMetrikaConfig(h) ==
    /\ work[h].pc = "configuring"
    /\ config' = Patched(config, MetrikaConfigFromBrief(work[h].row.draft))
    /\ work' = [work EXCEPT ![h] = Idle]
    /\ UNCHANGED <<row, said, heard, backfill>>

EnterConfigByHand ==
    /\ config # HandConfig
    /\ config' = HandConfig
    /\ UNCHANGED <<row, said, heard, work, backfill>>

\* The one-off backfill reads the clients without a counter...
BackfillReads ==
    /\ backfill = NoConfig
    /\ config.counter = 0 /\ row.status = "COMPLETE"
    /\ LET patch == MetrikaConfigFromBrief(row.draft)
       IN  backfill' = [counter |-> patch.counter, goal |-> IF config.goal = 0 THEN patch.goal ELSE 0]
    /\ backfill' # NoConfig
    /\ UNCHANGED <<row, said, heard, work, config>>

\* ...and fills them one by one, each only if its columns are still empty.
StillEmptyAsRead(patch) == TRUE
StillEmpty(patch) ==
    config.counter = 0 /\ \A c \in {"counter", "goal"} : patch[c] # 0 => config[c] = 0
BackfillWrites ==
    /\ backfill # NoConfig
    /\ config' = IF StillEmpty(backfill) THEN Patched(config, backfill) ELSE config
    /\ backfill' = NoConfig
    /\ UNCHANGED <<row, said, heard, work>>

-----------------------------------------------------------------------------
Init ==
    /\ \E old \in {[row |-> EmptyRow, said |-> <<>>]} \cup OldBriefs :
         row = old.row /\ said = old.said
    /\ heard = {}
    /\ work = [h \in Handlers |-> Idle]
    /\ config = NoConfig
    /\ backfill = NoConfig

Next ==
    \/ \E h \in Handlers :
         \/ StartInterview(h)
         \/ \E m \in Messages : OfferMessage(h, m)
         \/ ReadMessage(h)
         \/ \E t \in Turns : Advance(h, t)
         \/ RepeatHalt(h)
         \/ FailTurn(h)
         \/ SaveMetrikaConfig(h)
    \/ EnterConfigByHand
    \/ BackfillReads
    \/ BackfillWrites

Spec == Init /\ [][Next]_onboardingVars

-----------------------------------------------------------------------------
(***************************************************************************)
(* Properties.                                                             *)
(***************************************************************************)

TypeOK ==
    /\ row.status \in Statuses /\ DOMAIN row.draft \subseteq BriefFields
    /\ row.halted \in HaltReasons \cup {NoHalt}
    /\ \A i \in DOMAIN row.turns : row.turns[i].message \in 0 .. Len(said)
    /\ heard \subseteq DOMAIN said
    /\ \A h \in Handlers :
         work[h].pc \in {"idle", "offered", "asking", "repeating", "configuring"}
    /\ \A c \in {config, backfill} : c.counter \in Nat /\ c.goal \in Nat

\* A message that the client was answered stays in the transcript, however many
\* handlers were at work: the answer is lost only if the client was told so.
NoAnswerLost == \A n \in heard : \E i \in DOMAIN row.turns : row.turns[i].message = n

\* The address in the brief, and so in every advertisement, is one the client
\* named: not the model's guess, nor another page of the site.
AddressIsClients ==
    "landingUrl" \in DOMAIN row.draft =>
        \E i \in DOMAIN UserMessages(row.turns) :
            LET named == UserMessages(row.turns)[i].addresses
            IN  \E k \in DOMAIN named : Names(named[k]) /\ Url(named[k]) = row.draft["landingUrl"]

\* A client who has named a site is never kept waiting on the ground of having none.
HaltTellsTruth ==
    row.halted = "no-landing" =>
        \A i \in DOMAIN UserMessages(row.turns) : ~MentionsWebAddress(UserMessages(row.turns)[i])

\* metrika-backfill.ts: what is filled, by an earlier run or by hand, is not touched, though
\* the columns were read while they were empty.  What stands in a column is changed by an
\* operator, or by the very step of a handler that puts a completed brief there, never by
\* a step of the backfill, whoever else is at work.  That handler's write is unconditional
\* (metrika-config.ts): a brief completed before the operator's entry and written after it
\* does take its place.
HandStep ==
    (\E c \in {"counter", "goal"} : config[c] # 0 /\ config'[c] # config[c]) =>
        /\ backfill' = backfill
        /\ \/ config' = HandConfig
           \/ \E h \in Handlers :
                 /\ work[h].pc = "configuring" /\ work' = [work EXCEPT ![h] = Idle]
                 /\ config' = Patched(config, MetrikaConfigFromBrief(work[h].row.draft))
HandStays == [][HandStep]_onboardingVars

\* What EVIDENCE_BRIEF_FIELDS says: every number is in the client's own words.
NumbersAreNamed ==
    \A f \in DOMAIN row.draft \cap EvidenceFields :
        \A n \in EvidenceNumbers(f, row.draft[f]) :
            \E i \in DOMAIN UserMessages(row.turns) : n \in NumbersIn(UserMessages(row.turns)[i].text)

\* What MAX_QUESTIONS says of itself: a hard ceiling on the turns.
CeilingHolds == row.askedCount <= MaxQuestions
=============================================================================
