----------------------------- MODULE Optimizer -----------------------------
(***************************************************************************)
(* The scheduled optimization of one campaign (src/src/optimizer).  The    *)
(* jobs optimize-bids and pause-losers both run runScheduledOptimization:  *)
(* read the local rows and the statistics, decide (Guardrails), write the  *)
(* changes to the cabinet one by one under idempotency keys of the day,    *)
(* log each, bring the local rows up to date, and issue cards for what a   *)
(* human has to approve.  The log is what the next runs read the bid at    *)
(* the start of their window from.                                         *)
(*                                                                         *)
(* A process runs one of the two jobs at a time (exclusive); the processes *)
(* share the database and the cabinet.  DRY_RUN is off: a dry run plans    *)
(* and writes nothing.                                                     *)
(***************************************************************************)
EXTENDS Guardrails

CONSTANTS Workers,      \* processes that run the jobs
          Statistics,   \* what the statistics of a window can be: a function to Metrics
          Spending,     \* what the campaign itself spends in a window: Metrics
          Budget,       \* its daily budget
          Target,       \* the target CPA of the campaign or of the brief, zero for none
          FirstModes,   \* handover modes the campaign can be in
          FirstBid,     \* the bid of every biddable entity at the start
          HumanBids,    \* bids a human may set in the cabinet
          Window,       \* DEFAULT_WINDOW_DAYS, in ticks of the clock
          Day,          \* ticks of the clock in a day
          LastTick,     \* bound on the clock
          MaxFaults     \* bound on crashes, failed updates, lost replies and human edits

ASSUME OptimizerAssumption ==
    /\ \A s \in Statistics : DOMAIN s \subseteq Entities /\ s \in [DOMAIN s -> Metrics]
    /\ Spending \subseteq Metrics
    /\ Budget \in Nat
    /\ Target \in Nat
    /\ FirstModes \subseteq Modes
    /\ FirstBid \in Nat
    /\ HumanBids \subseteq Nat
    /\ Window \in Nat \ {0}
    /\ Day \in Nat \ {0}
    /\ LastTick \in Nat
    /\ MaxFaults \in Nat

VARIABLES
  clock,
  mode,         \* handoverMode of the campaign
  cabinet,      \* the entities as the platform has them
  mirror,       \* the local rows
  log,          \* the BID_* rows of ChangeLog, in the order of appliedAt
  keys,         \* reserved idempotency keys
  cards,        \* how many cards there are under a key
  run,          \* the run of each process: the await it is at and its locals
  fresh,        \* fetch-stats has run since the last tick
  (*  history  *)
  past,         \* the cabinet at the beginning of each tick
  untold,       \* entities with a change the log does not tell, or not truly
  written,      \* how often a key's change was carried out
  lost,         \* keys of writes whose reply was lost, and of cards whose insert seemed to fail
  faults

dbVars == <<mode, mirror, log, keys, cards>>
historyVars == <<past, untold, written, lost>>
vars == <<clock, cabinet, dbVars, run, fresh, historyVars, faults>>

\* A card is its changes and a text that goes by the numbers each was decided on.  Here it
\* quotes all of them; a text of more than MassPause lines leaves the rest out.
Card(stats, changes) ==
    [changes |-> changes,
     reason |-> [d \in changes |-> Quoted(d, stats.of[d.entity], stats.campaign)]]

\* idempotencyKeyFor and approvalIdempotencyKey: a run id is a campaign and a date, and the
\* digest of a card is of its whole action, the text included.
KeyFor(w, d) == [day |-> run[w].now \div Day, action |-> d.action, entity |-> d.entity]
CardKey(w, card) == [day |-> run[w].now \div Day, card |-> card]

\* Between two runs; stats are what it decides from, todo the changes (then the card)
\* still to be written, ask the cards to be issued, done the changes that are in the cabinet.
Idle == [at |-> "idle", now |-> 0, stats |-> <<>>, todo |-> <<>>, ask |-> {}, done |-> {}]

LogRows == [entity : Entities, prev : Nat, next : Nat, at : 0 .. LastTick]
Awaits == {"idle", "history", "apply", "write", "log", "negate", "ask", "issue"}
Count(f, k) == IF k \in DOMAIN f THEN f[k] ELSE 0
Increment(f, k) == [x \in DOMAIN f \cup {k} |-> IF x = k THEN Count(f, k) + 1 ELSE f[x]]

\* Every variable has its type, the log is in order, and a run that writes has
\* something to write.
TypeOK ==
    /\ clock \in 0 .. LastTick
    /\ mode \in Modes
    /\ cabinet \in [Entities -> LocalRows]
    /\ mirror \in [Entities -> LocalRows]
    /\ \A i \in DOMAIN log : log[i] \in LogRows /\ (i > 1 => log[i - 1].at <= log[i].at)
    /\ DOMAIN run = Workers
    /\ \A w \in Workers :
          /\ run[w].at \in Awaits
          /\ run[w].now \in 0 .. clock
          /\ run[w].at # "issue" => \A i \in DOMAIN run[w].todo : run[w].todo[i] \in Decisions
          /\ run[w].done \in SUBSET Decisions
          /\ \A card \in run[w].ask : card.changes \subseteq Decisions
          /\ run[w].at \in {"write", "log", "issue"} => run[w].todo # <<>>
          /\ run[w].at = "issue" => Head(run[w].todo) \in run[w].ask
    /\ past \in [0 .. clock -> [Entities -> LocalRows]]
    /\ untold \in SUBSET Entities
    /\ fresh \in BOOLEAN

Init ==
    /\ clock = 0
    /\ mode \in FirstModes
    /\ cabinet = [e \in Entities |-> [bid |-> IF Kind[e] = BidLevel THEN FirstBid ELSE 0, on |-> TRUE]]
    /\ mirror = cabinet
    /\ log = <<>>
    /\ keys = {}
    /\ cards = <<>>
    /\ run = [w \in Workers |-> Idle]
    /\ fresh = FALSE
    /\ past = [t \in {0} |-> cabinet]
    /\ untold = {}
    /\ written = <<>>
    /\ lost = {}
    /\ faults = 0

Fault == faults < MaxFaults /\ faults' = faults + 1

\* reserve: the insert of a key that exists is skipped.
TakenNever(k) == FALSE
Taken(k) == k \in keys

-----------------------------------------------------------------------------
(***************************************************************************)
(* One run.                                                                *)
(***************************************************************************)

\* A run that finds nothing to change, or is skipped, changes nothing.
Propose(w) ==
    /\ run[w].at = "idle"
    /\ \E m \in Statistics, campaign \in Spending :
          LET ds == ResolveConflicts(Proposals(m, mirror, Target, Saving(campaign, Budget)))
          IN  /\ ds # <<>>
              /\ run' = [run EXCEPT ![w] = [Idle EXCEPT !.at = "history", !.now = clock,
                                                       !.stats = [of |-> m, campaign |-> campaign],
                                                       !.todo = ds]]
    /\ UNCHANGED <<clock, cabinet, dbVars, fresh, historyVars, faults>>

\* The rows an entity has in the log from a moment on, and the bid they tell it to have.
RowsSince(e, from) == {i \in DOMAIN log : log[i].entity = e /\ log[i].at >= from}
ToldBid(e) == IF RowsSince(e, 0) = {} THEN past[0][e].bid ELSE log[Max(RowsSince(e, 0))].next

\* The anchor of an entity is what its first change in the window found.  A history of more
\* than rowsPerEntityCap rows, which counts as unavailable, is longer than the bounds here.
Anchors(w) ==
    LET from == run[w].now - Window
    IN  [e \in {f \in Entities : RowsSince(f, from) # {}} |-> log[Min(RowsSince(e, from))].prev]

\* A change whose row is still to come: a history read now does not show it.
Unlogged == {Head(run[v].todo).entity : v \in {u \in Workers : run[u].at = "log"}}

Decide(w) ==
    /\ run[w].at = "history"
    /\ untold' = untold \cup (Unlogged \cap {run[w].todo[i].entity : i \in DOMAIN run[w].todo})
    /\ LET anchors == Anchors(w)
           history == [unavailable |-> {e \in DOMAIN anchors : anchors[e] = 0}, anchor |-> anchors]
           allowed == ApplyGuardrails(run[w].todo, run[w].stats.of, history)
       IN  run' = [run EXCEPT ![w].at = "apply", ![w].stats = <<>>,
                              ![w].todo = AutoApply(allowed, mode),
                              ![w].ask = {Card(run[w].stats, c) : c \in Approvals(allowed, mode)}]
    /\ UNCHANGED <<clock, cabinet, dbVars, fresh, past, written, lost, faults>>

Reserve(w) ==
    /\ run[w].at = "apply"
    /\ run[w].todo # <<>>
    /\ LET k == KeyFor(w, Head(run[w].todo))
       IN  IF Taken(k)
           THEN run' = [run EXCEPT ![w].todo = Tail(@)] /\ UNCHANGED keys
           ELSE run' = [run EXCEPT ![w].at = "write"] /\ keys' = keys \cup {k}
    /\ UNCHANGED <<clock, cabinet, mode, mirror, log, cards, fresh, historyVars, faults>>

\* What a row or an entity of the cabinet is after a change.
Changed(row, d) ==
    IF d.action \in BidActions THEN [row EXCEPT !.bid = d.next] ELSE [row EXCEPT !.on = FALSE]

InCabinet(d) == Changed(cabinet[d.entity], d) = cabinet[d.entity]

CarryOut(w, d) ==
    /\ cabinet' = [cabinet EXCEPT ![d.entity] = Changed(@, d)]
    /\ written' = Increment(written, KeyFor(w, d))

Write(w) ==
    /\ run[w].at = "write"
    /\ CarryOut(w, Head(run[w].todo))
    /\ run' = [run EXCEPT ![w].at = "log"]
    /\ UNCHANGED <<clock, dbVars, fresh, past, untold, lost, faults>>

AdvanceReserved(w, more) ==
    run' = [run EXCEPT ![w].at = "write", ![w].todo = Tail(@), ![w].done = @ \cup more]

\* The next change, with this one among those that are in the cabinet or not.
Advance(w, more) ==
    run' = [run EXCEPT ![w].at = "apply", ![w].todo = Tail(@), ![w].done = @ \cup more]

\* The platform refuses, has nothing to change (noop), or its reply is lost: the
\* key is released, and only a noop counts as done.
Miss(w) ==
    /\ run[w].at = "write"
    /\ LET d == Head(run[w].todo)
           k == KeyFor(w, d)
       IN  /\ keys' = keys \ {k}
           /\ \/ Advance(w, {}) /\ UNCHANGED <<cabinet, untold, written, lost, faults>>
              \/ /\ InCabinet(d)
                 /\ Advance(w, {d})
                 /\ UNCHANGED <<cabinet, untold, written, lost, faults>>
              \/ /\ Fault
                 /\ CarryOut(w, d)
                 /\ lost' = lost \cup {k}
                 /\ untold' = untold \cup {d.entity}
                 /\ Advance(w, {})
    /\ UNCHANGED <<clock, mode, mirror, log, cards, fresh, past>>

\* The row tells the truth when the bid it names as the previous one was the last the log
\* tells of, and the new one is what the cabinet has; the decision was made from the mirror.
TellsTruth(d) == d.prev = ToldBid(d.entity) /\ d.next = cabinet[d.entity].bid

ChangeRow(d) == [entity |-> d.entity, prev |-> d.prev, next |-> d.next, at |-> clock]

\* The row of the change; without it the key stays, the change is reported, and a negative
\* keyword is not marked.
Unmarked(d) == IF d.action = "ADD_NEGATIVE_KEYWORD" THEN {} ELSE {d}
LogChange(w) ==
    /\ run[w].at = "log"
    /\ LET d == Head(run[w].todo)
       IN  \/ /\ Advance(w, {d})
              /\ log' = IF d.action \in BidActions THEN Append(log, ChangeRow(d)) ELSE log
              /\ untold' = IF d.action \in BidActions /\ ~TellsTruth(d)
                           THEN untold \cup {d.entity}
                           ELSE untold
              /\ UNCHANGED faults
           \/ /\ Fault
              /\ Advance(w, Unmarked(d))
              /\ untold' = untold \cup {d.entity}
              /\ UNCHANGED log
    /\ UNCHANGED <<clock, cabinet, mode, mirror, keys, cards, fresh, past, written, lost>>

Negated(w) == {d.entity : d \in {c \in run[w].done : c.action = "ADD_NEGATIVE_KEYWORD"}}

\* The run goes on to its cards, or is over.
ToCards(w, rest) ==
    run' = [run EXCEPT ![w] = IF rest = {} THEN Idle
                              ELSE [@ EXCEPT !.at = "ask", !.ask = rest, !.todo = <<>>, !.done = {}]]

\* syncLocalState: an error leaves the local rows as they are and is counted.
SyncLocal(w) ==
    /\ run[w].at = "apply"
    /\ run[w].todo = <<>>
    /\ LET rows == {d \in run[w].done : d.action # "ADD_NEGATIVE_KEYWORD"}
           rowOf(e) == LET ds == {d \in rows : d.entity = e}
                       IN  IF ds = {} THEN mirror[e] ELSE Changed(mirror[e], CHOOSE d \in ds : TRUE)
       IN  \/ mirror' = [e \in Entities |-> rowOf(e)] /\ UNCHANGED faults
           \/ Fault /\ rows # {} /\ UNCHANGED mirror
    /\ IF Negated(w) = {} THEN ToCards(w, run[w].ask) ELSE run' = [run EXCEPT ![w].at = "negate"]
    /\ UNCHANGED <<clock, cabinet, mode, log, keys, cards, fresh, historyVars>>

\* markNegated takes the queries out of the next proposals.
MarkNegated(w) ==
    /\ run[w].at = "negate"
    /\ \/ /\ mirror' = [e \in Entities |-> [mirror[e] EXCEPT !.on = @ /\ e \notin Negated(w)]]
          /\ UNCHANGED faults
       \/ Fault /\ UNCHANGED mirror
    /\ ToCards(w, run[w].ask)
    /\ UNCHANGED <<clock, cabinet, mode, log, keys, cards, fresh, historyVars>>

ReserveCard(w) ==
    /\ run[w].at = "ask"
    /\ \E card \in run[w].ask :
          LET k == CardKey(w, card)
          IN  IF Taken(k)
              THEN ToCards(w, run[w].ask \ {card}) /\ UNCHANGED keys
              ELSE /\ keys' = keys \cup {k}
                   /\ run' = [run EXCEPT ![w].at = "issue", ![w].todo = <<card>>]
    /\ UNCHANGED <<clock, cabinet, mode, mirror, log, cards, fresh, historyVars, faults>>

\* createApproval makes the card; when it throws the key is given back and the other
\* cards of the request are given up until the next run.  It may throw although the
\* row was inserted.
Issue(w) ==
    /\ run[w].at = "issue"
    /\ LET card == Head(run[w].todo)
           k == CardKey(w, card)
       IN  \/ /\ cards' = Increment(cards, k)
              /\ ToCards(w, run[w].ask \ {card})
              /\ UNCHANGED <<keys, lost, faults>>
           \/ /\ Fault
              /\ \/ UNCHANGED <<cards, lost>>
                 \/ cards' = Increment(cards, k) /\ lost' = lost \cup {k}
              /\ keys' = keys \ {k}
              /\ \E rest \in SUBSET (run[w].ask \ {card}) : ToCards(w, rest)
    /\ UNCHANGED <<clock, cabinet, mode, mirror, log, fresh, past, untold, written>>

Crash(w) ==
    /\ run[w].at # "idle"
    /\ Fault
    /\ run' = [run EXCEPT ![w] = Idle]
    /\ untold' = IF run[w].at = "log" THEN untold \cup {Head(run[w].todo).entity} ELSE untold
    /\ UNCHANGED <<clock, cabinet, dbVars, fresh, past, written, lost>>

-----------------------------------------------------------------------------
(***************************************************************************)
(* Around the runs.                                                        *)
(***************************************************************************)

\* fetch-stats lists the cabinet and writes the local rows later: what it writes may
\* be as old as the tick.  Search queries are no entities of the listing.
Sync ==
    /\ ~fresh
    /\ \E listed \in {cabinet, past[clock]} :
          mirror' = [e \in Entities |-> IF Kind[e] = "QUERY" THEN mirror[e] ELSE listed[e]]
    /\ fresh' = TRUE
    /\ UNCHANGED <<clock, cabinet, mode, log, keys, cards, run, historyVars, faults>>

\* Somebody edits the cabinet by hand, or approves a card late: an edit the log does not tell.
HumanEdit ==
    /\ Fault
    /\ \E e \in Entities, bid \in HumanBids :
          /\ Kind[e] = BidLevel
          /\ cabinet' = [cabinet EXCEPT ![e] = [bid |-> bid, on |-> TRUE]]
          /\ untold' = untold \cup {e}
    /\ UNCHANGED <<clock, dbVars, run, fresh, past, written, lost>>

\* The hourly sync comes at least once between two ticks, and a row of the log is of
\* the same tick as its change.
Tick ==
    /\ clock < LastTick
    /\ fresh
    /\ \A w \in Workers : run[w].at # "log"
    /\ clock' = clock + 1
    /\ past' = [t \in 0 .. clock + 1 |-> IF t \in DOMAIN past THEN past[t] ELSE cabinet]
    /\ fresh' = FALSE
    /\ UNCHANGED <<cabinet, dbVars, run, untold, written, lost, faults>>

Step(w) ==
    \/ Propose(w) \/ Decide(w) \/ Reserve(w) \/ Write(w) \/ Miss(w) \/ LogChange(w)
    \/ SyncLocal(w) \/ MarkNegated(w) \/ ReserveCard(w) \/ Issue(w)

Next ==
    \/ \E w \in Workers : Step(w) \/ Crash(w)
    \/ Sync \/ HumanEdit \/ Tick

Spec == Init /\ [][Next]_vars

-----------------------------------------------------------------------------

\* Seven small steps do not add up (clampBid): whenever a run raises a bid, the new
\* one is at most MaxBidChange above the bid the entity had when the run's window
\* began, and never that far below when it lowers one, whatever else was running, as
\* long as the log tells every change of the entity and the run knew its bid.
InWindow(d, first) ==
    IF d.next > d.prev
    THEN d.next <= Floor(first * (100 + MaxBidChange))
    ELSE d.next >= Ceil(first * (100 - MaxBidChange))
WindowHeld ==
    [][\A w \in Workers :
          run[w].at = "write" /\ run'[w].at = "log" =>
             LET d == Head(run[w].todo)
                 began == IF run[w].now > Window THEN run[w].now - Window ELSE 0
             IN  /\ d.action \in BidActions
                 /\ d.entity \notin untold
                 /\ d.prev = cabinet[d.entity].bid
                 => InWindow(d, past[began][d.entity].bid)]_vars

\* A run is over before the window it decides from is: a job lasts minutes and the window a
\* week.  A hypothesis, nothing in the code sees to it.  A run that hung longer would bring a
\* local row to the bid it had set, when another run's later change of it is out of the window.
Prompt == \A w \in Workers : run[w].at # "idle" => clock < run[w].now + Window

\* Two jobs a day and two processes at once: a change of the day is carried out once,
\* unless the reply was lost and the key given back.
WrittenOnce ==
    \A k \in DOMAIN written : k \notin lost => written[k] <= 1

\* A question is put to the human once a day for the same numbers, by however many runs and
\* processes, unless its insert seemed to fail.  That is what approvalIdempotencyKey says of
\* itself; a later run that finds the same change on later numbers asks again.
AskedOnce ==
    \A k \in DOMAIN cards : k \notin lost => cards[k] <= 1
=============================================================================
