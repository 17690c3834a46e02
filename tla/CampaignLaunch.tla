--------------------------- MODULE CampaignLaunch ---------------------------
(***************************************************************************)
(* How a campaign of one client comes to be (src/src/campaigns).  A launch *)
(* command (bot or CLI, checkCampaignEntry and launchCampaign) looks at    *)
(* the client's live cards and idempotency keys, builds or reuses a plan   *)
(* and issues one approval card for every campaign that does not exist     *)
(* yet.  Only an approved card creates (executeCreateCampaign), and only   *)
(* under the key of its address: client, channel, placement, generation.   *)
(* Launches and applications share nothing but the database.               *)
(*                                                                         *)
(* A slot is a channel with a placement.  The slots a brief asks for are   *)
(* the same throughout: a change of the budget that adds a slot is not     *)
(* modelled.  What the card itself goes through is the module Approval.    *)
(***************************************************************************)
EXTENDS Naturals, FiniteSets

CONSTANTS Launches,     \* launch commands that can run at one time
          Appliers,     \* processes that can apply an approved card
          Cards,        \* cards that can be issued
          Slots,        \* campaigns a plan of this client has
          NoCard, NoPlan,
          MaxAsks,      \* bound on the launch commands given
          MaxGeneration,\* bound on the campaigns of a slot, less one
          MaxEdits,     \* bound on the edits of the brief
          MaxFaults     \* bound on crashes, lost replies and failed updates

Generations == 0 .. MaxGeneration
Addresses == Slots \X Generations
NoAddress == <<>>

Plans == [brief : Nat, builtAt : Nat, generation : [Slots -> Generations]]

ASSUME LaunchAssumption ==
    /\ NoCard \notin Cards
    /\ NoPlan \notin Plans
    /\ MaxAsks \in Nat
    /\ MaxGeneration \in Nat
    /\ MaxEdits \in Nat
    /\ MaxFaults \in Nat

VARIABLES
  (*  the database  *)
  brief,        \* version of ClientBrief.data
  latest,       \* the newest plan row; what it was built from, and when
  key,          \* the IdempotencyKey rows of campaigns.create
  decision,     \* PendingApproval.decision of the cards; "over" is any final one
  error,        \* PendingApproval.error of a card that is not over is not null
  address,      \* the address the card's plan gives to its campaign
  (*  the cabinet  *)
  campaigns,    \* campaigns created under an address
  whole,        \* its groups, keywords and ads are all there
  (*  what people asked for and were told  *)
  asks,         \* launch commands given
  freshAsks,    \* those that asked for one more campaign (--new)
  saysApplied,  \* the settled card says "approved and applied"
  (*  the launch commands  *)
  stage,        \* the await a launch is at
  fresh,        \* CampaignLaunchOptions.fresh
  seen,         \* the version of the brief it checked
  taken,        \* the created campaigns it found, by their addresses
  toClose,      \* undelivered cards it has to replace
  plan,         \* the plan it issues cards for
  positions,    \* slots that still need a card
  (*  the applications  *)
  at,           \* the await createOneCampaign is at
  job,          \* the card it is about
  faults

cardVars == <<decision, error, address, saysApplied>>
cabinetVars == <<campaigns, whole>>
askVars == <<asks, freshAsks>>
launchVars == <<stage, fresh, seen, taken, toClose, plan, positions>>
applyVars == <<at, job>>
vars == <<brief, latest, key, cardVars, cabinetVars, askVars, launchVars, applyVars, faults>>

\* What liveApprovals selects; "overdue" is a row still PENDING behind its deadline.
Live == {"pending", "approved", "applying"}

Undecided == {"pending", "overdue"}

RowsOK ==
    /\ brief \in Nat
    /\ latest \in Plans \cup {NoPlan}
    /\ key \in [Addresses -> {"free", "pending", "done"}]
    /\ decision \in [Cards -> {"none", "overdue", "over"} \cup Live]
    /\ error \in [Cards -> BOOLEAN]
    /\ address \in [Cards -> Addresses \cup {NoAddress}]
    /\ \A c \in Cards : decision[c] # "none" => address[c] \in Addresses
    /\ saysApplied \in [Cards -> BOOLEAN]

OutsideOK ==
    /\ campaigns \in [Addresses -> Nat]
    /\ whole \in [Addresses -> BOOLEAN]
    /\ asks \in Nat
    /\ freshAsks \in Nat
    /\ faults \in Nat

LaunchesOK ==
    /\ stage \in [Launches -> {"idle", "live", "created", "latest", "brief", "build", "close", "submit"}]
    /\ fresh \in [Launches -> BOOLEAN]
    /\ seen \in [Launches -> Nat]
    /\ taken \in [Launches -> SUBSET Addresses]
    /\ toClose \in [Launches -> SUBSET Cards]
    /\ plan \in [Launches -> Plans \cup {NoPlan}]
    /\ \A l \in Launches : stage[l] \in {"build", "close", "submit"} => plan[l] \in Plans
    /\ positions \in [Launches -> SUBSET Slots]

AppliersOK ==
    /\ at \in [Appliers -> {"idle", "reserve", "create", "release", "complete", "populate"}]
    /\ job \in [Appliers -> Cards \cup {NoCard}]
    /\ \A w \in Appliers : at[w] # "idle" => job[w] \in Cards /\ decision[job[w]] # "none"

\* Every variable has its type, a plan is at hand when cards are issued, and a
\* process that creates a campaign has a card with an address.
TypeOK == RowsOK /\ OutsideOK /\ LaunchesOK /\ AppliersOK

\* Card c gets a final decision.
Over(c) ==
    /\ decision' = [decision EXCEPT ![c] = "over"]
    /\ error' = [error EXCEPT ![c] = FALSE]

\* Something goes wrong; MaxFaults times.
Fault ==
    /\ faults < MaxFaults
    /\ faults' = faults + 1

-----------------------------------------------------------------------------
(* The launch command *)

\* The launch is over and forgets what it read.
EndLaunch(l) ==
    /\ stage' = [stage EXCEPT ![l] = "idle"]
    /\ fresh' = [fresh EXCEPT ![l] = FALSE]
    /\ seen' = [seen EXCEPT ![l] = 0]
    /\ taken' = [taken EXCEPT ![l] = {}]
    /\ toClose' = [toClose EXCEPT ![l] = {}]
    /\ plan' = [plan EXCEPT ![l] = NoPlan]
    /\ positions' = [positions EXCEPT ![l] = {}]

\* Somebody gives the command for a client whose brief is complete; the brief and
\* its updatedAt are read first.
Ask(l) ==
    /\ stage[l] = "idle"
    /\ asks < MaxAsks
    /\ asks' = asks + 1
    /\ \E again \in BOOLEAN :
          /\ fresh' = [fresh EXCEPT ![l] = again]
          /\ freshAsks' = IF again THEN freshAsks + 1 ELSE freshAsks
    /\ seen' = [seen EXCEPT ![l] = brief]
    /\ stage' = [stage EXCEPT ![l] = "live"]
    /\ UNCHANGED <<brief, latest, key, cardVars, cabinetVars, taken, toClose, plan, positions,
                   applyVars, faults>>

\* liveApprovals: a card somebody can still press or that is being applied ends the
\* launch (awaiting_decision); one with an error counts as undelivered.
ReadLive(l) ==
    LET live == {c \in Cards : decision[c] \in Live} IN
    /\ stage[l] = "live"
    /\ \/ (\E c \in live : ~error[c]) /\ EndLaunch(l)
       \/ /\ \A c \in live : error[c]
          /\ toClose' = [toClose EXCEPT ![l] = live]
          /\ stage' = [stage EXCEPT ![l] = "created"]
          /\ UNCHANGED <<fresh, seen, taken, plan, positions>>
    /\ UNCHANGED <<brief, latest, key, cardVars, cabinetVars, askVars, applyVars, faults>>

SlotsOf(addresses) == {k[1] : k \in addresses}

\* createdCampaigns: an unfinished attempt ends the launch (attempt_unresolved),
\* and so does a full set of campaigns (already_created) unless one more was asked
\* for.  In that case the undelivered cards are not replaced.
ReadCreated(l) ==
    LET found == {k \in Addresses : key[k] # "free"}
        full == SlotsOf(found) = Slots
    IN
    /\ stage[l] = "created"
    /\ \/ (\E k \in found : key[k] = "pending") /\ EndLaunch(l)
       \/ full /\ ~fresh[l] /\ EndLaunch(l)
       \/ /\ \A k \in found : key[k] = "done"
          /\ full => fresh[l]
          /\ taken' = [taken EXCEPT ![l] = found]
          /\ toClose' = [toClose EXCEPT ![l] = IF full THEN {} ELSE @]
          /\ stage' = [stage EXCEPT ![l] = IF fresh[l] THEN "brief" ELSE "latest"]
          /\ UNCHANGED <<fresh, seen, plan, positions>>
    /\ UNCHANGED <<brief, latest, key, cardVars, cabinetVars, askVars, applyVars, faults>>

\* A plan may be used again unless the brief was updated after the plan's createdAt.
Reusable(p, version) == p # NoPlan /\ version <= p.builtAt

\* latestPlan
ReadLatest(l) ==
    /\ stage[l] = "latest"
    /\ \/ /\ Reusable(latest, seen[l])
          /\ plan' = [plan EXCEPT ![l] = latest]
          /\ positions' = [positions EXCEPT ![l] = Slots \ SlotsOf(taken[l])]
          /\ stage' = [stage EXCEPT ![l] = "close"]
       \/ /\ ~Reusable(latest, seen[l])
          /\ stage' = [stage EXCEPT ![l] = "brief"]
          /\ UNCHANGED <<plan, positions>>
    /\ UNCHANGED <<fresh, seen, taken, toClose, brief, latest, key, cardVars, cabinetVars,
                   askVars, applyVars, faults>>

\* createAddresses: one more campaign gets the next generation of its slot; without
\* --new a plan inherits the address of the slot's oldest campaign.
Generation(l, s) ==
    IF fresh[l] THEN Cardinality({k \in taken[l] : k[1] = s}) ELSE 0

\* planCampaigns begins: the brief is read again, then two calls of the model follow.
LoadBrief(l) ==
    /\ stage[l] = "brief"
    /\ \A s \in Slots : Generation(l, s) \in Generations
    /\ plan' = [plan EXCEPT ![l] = [brief |-> brief, builtAt |-> brief,
                                    generation |-> [s \in Slots |-> Generation(l, s)]]]
    /\ stage' = [stage EXCEPT ![l] = "build"]
    /\ UNCHANGED <<fresh, seen, taken, toClose, positions, brief, latest, key, cardVars,
                   cabinetVars, askVars, applyVars, faults>>

\* planCampaigns ends: createdAt is taken now and the row is saved; or the planner
\* refuses (not_plannable).
SavePlan(l) ==
    LET built == [plan[l] EXCEPT !.builtAt = brief] IN
    /\ stage[l] = "build"
    /\ \/ /\ latest' = built
          /\ plan' = [plan EXCEPT ![l] = built]
          /\ positions' = [positions EXCEPT ![l] = IF fresh[l] THEN Slots ELSE Slots \ SlotsOf(taken[l])]
          /\ stage' = [stage EXCEPT ![l] = "close"]
          /\ UNCHANGED <<fresh, seen, taken, toClose>>
       \/ EndLaunch(l) /\ UNCHANGED latest
    /\ UNCHANGED <<brief, key, cardVars, cabinetVars, askVars, applyVars, faults>>

\* supersedeUndelivered, one conditional UPDATE per card.
Supersede(l) ==
    /\ stage[l] = "close"
    /\ \/ \E c \in toClose[l] :
             /\ toClose' = [toClose EXCEPT ![l] = @ \ {c}]
             /\ \/ decision[c] \in Undecided /\ Over(c)
                \/ decision[c] \notin Undecided /\ UNCHANGED <<decision, error>>
             /\ UNCHANGED stage
       \/ /\ toClose[l] = {}
          /\ stage' = [stage EXCEPT ![l] = "submit"]
          /\ UNCHANGED <<toClose, decision, error>>
    /\ UNCHANGED <<fresh, seen, taken, plan, positions, brief, latest, key, address, saysApplied,
                   cabinetVars, askVars, applyVars, faults>>

\* submitCampaignPlan, one createApproval per campaign; a card Telegram refused
\* keeps its row.
Submit(l) ==
    /\ stage[l] = "submit"
    /\ \/ \E s \in positions[l], c \in Cards :
             /\ decision[c] = "none"
             /\ decision' = [decision EXCEPT ![c] = "pending"]
             /\ address' = [address EXCEPT ![c] = <<s, plan[l].generation[s]>>]
             /\ \E undelivered \in BOOLEAN : error' = [error EXCEPT ![c] = undelivered]
             /\ positions' = [positions EXCEPT ![l] = @ \ {s}]
             /\ UNCHANGED <<stage, fresh, seen, taken, toClose, plan>>
       \/ positions[l] = {} /\ EndLaunch(l) /\ UNCHANGED <<decision, address, error>>
    /\ UNCHANGED <<saysApplied, brief, latest, key, cabinetVars, askVars, applyVars, faults>>

\* The launch dies, or an await of it throws.
LaunchCrash(l) ==
    /\ stage[l] # "idle"
    /\ Fault
    /\ EndLaunch(l)
    /\ UNCHANGED <<brief, latest, key, cardVars, cabinetVars, askVars, applyVars>>

\* "Thank you" in the interview is enough to update the brief.
EditBrief ==
    /\ brief < MaxEdits
    /\ brief' = brief + 1
    /\ UNCHANGED <<latest, key, cardVars, cabinetVars, askVars, launchVars, applyVars, faults>>

-----------------------------------------------------------------------------
(* The card, as far as a launch can see it (the module Approval has the rest) *)

\* Somebody presses the button; a card marked undelivered may hang in the chat, and
\* a handler that read the clock in time may claim the card behind its deadline.
Press(c) ==
    /\ decision[c] \in Undecided
    /\ decision' = [decision EXCEPT ![c] = "approved"]
    /\ UNCHANGED <<brief, latest, key, error, address, saysApplied, cabinetVars, askVars, launchVars,
                   applyVars, faults>>

\* It is rejected, or a pass or a late press expires it.
Close(c) ==
    /\ decision[c] \in Undecided
    /\ Over(c)
    /\ UNCHANGED <<brief, latest, key, address, saysApplied, cabinetVars, askVars, launchVars,
                   applyVars, faults>>

\* Its deadline passes, and no launch counts it any more.
Overdue(c) ==
    /\ decision[c] = "pending"
    /\ decision' = [decision EXCEPT ![c] = "overdue"]
    /\ UNCHANGED <<brief, latest, key, error, address, saysApplied, cabinetVars, askVars, launchVars,
                   applyVars, faults>>

\* A pass finds the application stuck and says so in the column error.
MarkStuck(c) ==
    /\ decision[c] = "applying"
    /\ ~error[c]
    /\ error' = [error EXCEPT ![c] = TRUE]
    /\ UNCHANGED <<brief, latest, key, decision, address, saysApplied, cabinetVars, askVars, launchVars,
                   applyVars, faults>>

\* One process leases the card and calls executeCreateCampaign.
Start(w, c) ==
    /\ at[w] = "idle"
    /\ decision[c] = "approved"
    /\ decision' = [decision EXCEPT ![c] = "applying"]
    /\ at' = [at EXCEPT ![w] = "reserve"]
    /\ job' = [job EXCEPT ![w] = c]
    /\ UNCHANGED <<brief, latest, key, error, address, saysApplied, cabinetVars, askVars, launchVars,
                   faults>>

-----------------------------------------------------------------------------
(* createOneCampaign *)

\* A mutant of the operator below: the process stays where it is.
PutDownStaying(w) ==
    /\ job' = [job EXCEPT ![w] = NoCard]
    /\ UNCHANGED at

\* Process w is through with its card.
PutDown(w) ==
    /\ at' = [at EXCEPT ![w] = "idle"]
    /\ job' = [job EXCEPT ![w] = NoCard]

\* applyApproval settles the card, and the card says why nothing was applied.
Settle(w) ==
    /\ Over(job[w])
    /\ PutDown(w)
    /\ UNCHANGED <<address, saysApplied>>

Proceed(w, l) ==
    /\ at' = [at EXCEPT ![w] = l]
    /\ UNCHANGED <<job, cardVars>>

\* A mutant of the step below: an unfinished attempt is taken up again.
ReserveUnfinished(w) ==
    LET k == address[job[w]] IN
    /\ at[w] = "reserve"
    /\ \/ key[k] = "done" /\ Settle(w) /\ UNCHANGED key
       \/ key[k] # "done" /\ key' = [key EXCEPT ![k] = "pending"] /\ Proceed(w, "create")
    /\ UNCHANGED <<brief, latest, cabinetVars, askVars, launchVars, faults>>

\* A dry run leaves no trace; a plan that cannot be read or has no writer fails; a
\* key that is there, finished or not, ends it as "skipped".  In no other case the
\* cabinet is asked, after the key's insert, whose answer may be lost.
Reserve(w) ==
    LET k == address[job[w]] IN
    /\ at[w] = "reserve"
    /\ \/ Settle(w) /\ UNCHANGED <<key, faults>>
       \/ /\ key[k] = "free"
          /\ key' = [key EXCEPT ![k] = "pending"]
          /\ \/ Proceed(w, "create") /\ UNCHANGED faults
             \/ Fault /\ Settle(w)
    /\ UNCHANGED <<brief, latest, cabinetVars, askVars, launchVars>>

\* A mutant of the step below: every error gives the key back.
CreateReleasing(w) ==
    LET k == address[job[w]] IN
    /\ at[w] = "create"
    /\ \/ campaigns' = [campaigns EXCEPT ![k] = @ + 1] /\ Proceed(w, "complete") /\ UNCHANGED faults
       \/ Proceed(w, "release") /\ UNCHANGED <<campaigns, faults>>
       \/ /\ Fault
          /\ campaigns' = [campaigns EXCEPT ![k] = @ + 1]
          /\ Proceed(w, "release")
    /\ UNCHANGED <<brief, latest, key, whole, askVars, launchVars>>

\* Campaigns.add is carried out, or refused (createOutcomeOf is not-created), or its
\* reply is lost and nobody knows: then the key is kept and the card fails.
Create(w) ==
    LET k == address[job[w]] IN
    /\ at[w] = "create"
    /\ \/ campaigns' = [campaigns EXCEPT ![k] = @ + 1] /\ Proceed(w, "complete") /\ UNCHANGED faults
       \/ Proceed(w, "release") /\ UNCHANGED <<campaigns, faults>>
       \/ /\ Fault
          /\ campaigns' \in {campaigns, [campaigns EXCEPT ![k] = @ + 1]}
          /\ Settle(w)
    /\ UNCHANGED <<brief, latest, key, whole, askVars, launchVars>>

\* A mutant of the step below: a refusal keeps the key like a lost reply.
ReleaseKeeping(w) ==
    /\ at[w] = "release"
    /\ Settle(w)
    /\ UNCHANGED <<brief, latest, key, cabinetVars, askVars, launchVars, faults>>

\* The refused campaign's key is deleted; when that throws, the key stays.
Release(w) ==
    /\ at[w] = "release"
    /\ \/ key' = [key EXCEPT ![address[job[w]]] = "free"] /\ UNCHANGED faults
       \/ Fault /\ UNCHANGED key
    /\ Settle(w)
    /\ UNCHANGED <<brief, latest, cabinetVars, askVars, launchVars>>

\* The key gets the campaign's id; a failure is a note and the key stays pending.
Complete(w) ==
    /\ at[w] = "complete"
    /\ \/ key' = [key EXCEPT ![address[job[w]]] = "done"] /\ UNCHANGED faults
       \/ Fault /\ UNCHANGED key
    /\ Proceed(w, "populate")
    /\ UNCHANGED <<brief, latest, cabinetVars, askVars, launchVars>>

\* Groups, keywords and ads follow, then the mirror in the database; a failure is a
\* note of the result, and the result is "created" all the same.
Populate(w) ==
    /\ at[w] = "populate"
    /\ \E all \in BOOLEAN : whole' = [whole EXCEPT ![address[job[w]]] = all]
    /\ Over(job[w])
    /\ PutDown(w)
    /\ saysApplied' = [saysApplied EXCEPT ![job[w]] = TRUE]
    /\ UNCHANGED <<address, brief, latest, key, campaigns, askVars, launchVars, faults>>

\* The process dies; the card stays as it is.
ApplyCrash(w) ==
    /\ at[w] # "idle"
    /\ Fault
    /\ PutDown(w)
    /\ UNCHANGED <<brief, latest, key, cardVars, cabinetVars, askVars, launchVars>>

-----------------------------------------------------------------------------
Init ==
    /\ brief = 0
    /\ latest = NoPlan
    /\ key = [k \in Addresses |-> "free"]
    /\ decision = [c \in Cards |-> "none"]
    /\ error = [c \in Cards |-> FALSE]
    /\ address = [c \in Cards |-> NoAddress]
    /\ saysApplied = [c \in Cards |-> FALSE]
    /\ campaigns = [k \in Addresses |-> 0]
    /\ whole = [k \in Addresses |-> FALSE]
    /\ asks = 0
    /\ freshAsks = 0
    /\ stage = [l \in Launches |-> "idle"]
    /\ fresh = [l \in Launches |-> FALSE]
    /\ seen = [l \in Launches |-> 0]
    /\ taken = [l \in Launches |-> {}]
    /\ toClose = [l \in Launches |-> {}]
    /\ plan = [l \in Launches |-> NoPlan]
    /\ positions = [l \in Launches |-> {}]
    /\ at = [w \in Appliers |-> "idle"]
    /\ job = [w \in Appliers |-> NoCard]
    /\ faults = 0

Launching(l) ==
    \/ Ask(l) \/ ReadLive(l) \/ ReadCreated(l) \/ ReadLatest(l) \/ LoadBrief(l)
    \/ SavePlan(l) \/ Supersede(l) \/ Submit(l) \/ LaunchCrash(l)

Creating(w) ==
    \/ Reserve(w) \/ Create(w) \/ Release(w) \/ Complete(w) \/ Populate(w) \/ ApplyCrash(w)

Next ==
    \/ \E l \in Launches : Launching(l)
    \/ \E c \in Cards : Press(c) \/ Close(c) \/ Overdue(c) \/ MarkStuck(c)
    \/ \E w \in Appliers, c \in Cards : Start(w, c)
    \/ \E w \in Appliers : Creating(w)
    \/ EditBrief

Spec == Init /\ [][Next]_vars

-----------------------------------------------------------------------------
(* Properties *)

\* The client's money: a slot never has more campaigns than one, and one more for
\* every time a human asked for one more, whatever launches overlap, cards are
\* pressed twice or late, replies are lost and processes die.
OnePerAsk ==
    /\ \A k \in Addresses : campaigns[k] <= 1
    /\ \A s \in Slots :
          Cardinality({k \in Addresses : k[1] = s /\ campaigns[k] > 0}) <= 1 + freshAsks

\* A campaign that exists, or may exist, is remembered by its key for ever: no
\* later launch can take its slot for an empty one.
CreatedIsRemembered == \A k \in Addresses : campaigns[k] > 0 => key[k] # "free"

\* A pending key blocks every launch of the client until a human looks at it.  So
\* while nothing failed there is none, except the one of an application at work.
BlockedForAReason ==
    \A k \in Addresses :
        key[k] = "pending" /\ faults = 0 => \E w \in Appliers : at[w] # "idle" /\ address[job[w]] = k

\* The comment at the structure's catch: "the human sees what is missing".
StructureGapShown ==
    \A c \in Cards : saysApplied[c] => whole[address[c]]

\* The comment at the plan's reuse: a plan built before the last edit of the brief
\* must not be used again.
ReusedPlanIsCurrent ==
    \A l \in Launches : stage[l] \in {"close", "submit"} => plan[l].brief >= seen[l]
=============================================================================
