----------------------------- MODULE Moderation -----------------------------
(***************************************************************************)
(* Moderation of the ads of one account (src/src/moderation).  A run of    *)
(* check-moderation copies the platform's verdicts into the Ad rows        *)
(* (pollAdModeration), and repairs what was rejected (repairRejectedAd): a *)
(* model rewrites the text, the row is claimed, the text is submitted; a   *)
(* dead end is handed over to a human.  Yandex edits an ad in place, VK    *)
(* creates a new banner and deletes the old one, so that a row moves from  *)
(* one external id to the next.  The hourly ads sync of src/src/ingestion  *)
(* writes the same rows.  Runs and syncs share nothing but the database    *)
(* and the platform.                                                       *)
(*                                                                         *)
(* DRY_RUN is off: a dry run changes no row.  The ads of one group.        *)
(***************************************************************************)
EXTENDS Naturals, FiniteSets

CONSTANTS Ads,          \* ads of the group at the start
          Channels,     \* the platforms: "yandex" edits an ad in place, "vk" replaces it
          Runs,         \* processes that can run check-moderation
          Syncs,        \* processes that can run fetch-stats
          NoJob,        \* the job of a run between two ads
          MaxRetries,   \* MAX_MODERATION_RETRIES
          MaxRepairs,   \* MAX_REPAIRS_PER_RUN
          MaxMissing,   \* MAX_MISSING_ADS_PER_TARGET
          LastBanner,   \* bound on the banners the platform can make
          MaxFaults     \* bound on crashes, errors, lost replies and partial answers

Banners == 0 .. LastBanner
NoBanner == LastBanner + 1

\* Rows of the table Ad: a pair of group and external id has one.
Rows == Banners

Verdicts == {"PENDING", "APPROVED", "REJECTED"}

\* A rejected ad (RejectedAd) and how far its repair has come: the replacement
\* the platform reported, and why a human is asked.
Jobs == [row : Rows, ext : Banners, retries : 0 .. MaxRetries, new : Banners \cup {NoBanner},
         cause : {"none", "exhausted", "unwritable", "failed", "taken", "missing"}]

ASSUME ModerationAssumption ==
    /\ Channels \subseteq {"yandex", "vk"}
    /\ NoJob \notin Jobs
    /\ MaxRetries \in Nat \ {0}
    /\ MaxRepairs \in Nat \ {0}
    /\ MaxMissing \in Nat
    /\ LastBanner \in Nat
    /\ Ads \in 1 .. LastBanner + 1
    /\ MaxFaults \in Nat

VARIABLES
  (*  the rows of Ad; NoBanner is the ext of a row that does not exist  *)
  ext,          \* externalId
  active,       \* status is ACTIVE
  mod,          \* moderationStatus
  retries,      \* moderationRetries
  superseded,   \* supersededExternalIds
  stale,        \* rows not updated for REWRITING_STALE_MS
  (*  other tables  *)
  escalated,    \* the values of parkedAt in the row's ChangeLog
  backoff,      \* rows with a live key of BACKOFF_SCOPE
  (*  the platform  *)
  channel,      \* the platform of the account
  next,         \* the id of the next banner
  listed,       \* banners that exist
  running,      \* those that are not stopped
  verdict,      \* what the platform's moderation says of them
  (*  what happened since the row's counter was last reset  *)
  sent,         \* texts submitted
  letters,      \* letters that hand the ad over to a human
  told,         \* rows about which there was a letter of any kind
  (*  the runs  *)
  pc,           \* the await a run is at
  locals,       \* the rows as the poll read them
  updates,      \* the verdicts it still has to write
  missing,      \* the rows whose ad was not in the listing
  rejected,     \* the rejected ads still to be repaired
  left,         \* repairs left in this run
  job,          \* the ad at hand
  (*  the syncs  *)
  at,           \* the await a sync is at
  marked,       \* the superseded ids it read
  remote,       \* the listing still to be written
  faults

rowVars == <<ext, active, mod, retries, superseded, stale>>
tableVars == <<escalated, backoff>>
platformVars == <<channel, next, listed, running, verdict>>
historyVars == <<sent, letters, told>>
pollVars == <<locals, updates, missing, rejected>>
runVars == <<pc, pollVars, left, job>>
syncVars == <<at, marked, remote>>
vars == <<rowVars, tableVars, platformVars, historyVars, runVars, syncVars, faults>>

Snapshots == [ext : Banners, active : BOOLEAN, mod : Verdicts \cup {"REWRITING"}, retries : 0 .. MaxRetries]

\* Where a run holds the claim of its ad, and all the places where it can be.
Claimed == {"submit", "settle", "adopt", "release"}
Awaits == {"idle", "locals", "list", "work", "archive", "rewrite", "claim",
           "check", "deliver", "log", "park"} \cup Claimed

Existing == {r \in Rows : ext[r] # NoBanner}

RowsOK ==
    /\ ext \in [Rows -> Banners \cup {NoBanner}]
    /\ active \in [Rows -> BOOLEAN]
    /\ mod \in [Rows -> Verdicts \cup {"REWRITING"}]
    /\ retries \in [Rows -> 0 .. MaxRetries]
    /\ superseded \in [Rows -> SUBSET Banners]
    /\ stale \in SUBSET Rows
    /\ escalated \in [Rows -> SUBSET (1 .. MaxRetries)]
    /\ backoff \in SUBSET Rows

PlatformOK ==
    /\ channel \in Channels
    /\ next \in 0 .. LastBanner + 1
    /\ listed \in SUBSET Banners
    /\ running \in SUBSET listed
    /\ \A b \in listed : b < next
    /\ verdict \in [Banners -> Verdicts]
    /\ sent \in [Rows -> Nat]
    /\ letters \in [Rows -> Nat]
    /\ told \in SUBSET Rows
    /\ faults \in Nat

RunsOK ==
    /\ pc \in [Runs -> Awaits]
    /\ DOMAIN locals = Runs
    /\ \A w \in Runs : DOMAIN locals[w] \in SUBSET Rows /\ locals[w] \in [DOMAIN locals[w] -> Snapshots]
    /\ updates \in [Runs -> SUBSET (Rows \X Verdicts)]
    /\ missing \in [Runs -> SUBSET Jobs]
    /\ rejected \in [Runs -> SUBSET Jobs]
    /\ left \in [Runs -> 0 .. MaxRepairs]
    /\ job \in [Runs -> Jobs \cup {NoJob}]
    /\ \A w \in Runs : pc[w] \notin {"idle", "locals", "list", "work"} => job[w] \in Jobs

SyncsOK ==
    /\ at \in [Syncs -> {"idle", "list", "upsert"}]
    /\ marked \in [Syncs -> SUBSET Banners]
    /\ DOMAIN remote = Syncs
    /\ \A s \in Syncs :
          DOMAIN remote[s] \in SUBSET Banners /\ remote[s] \in [DOMAIN remote[s] -> Verdicts \X BOOLEAN]

\* Every variable has its type, and a run that repairs has an ad at hand.
TypeOK == RowsOK /\ PlatformOK /\ RunsOK /\ SyncsOK

\* Something goes wrong; MaxFaults times.
Fault ==
    /\ faults < MaxFaults
    /\ faults' = faults + 1

-----------------------------------------------------------------------------
(* pollAdModeration *)

\* A mutant of the condition below: every claim is taken back, however young.
DeadAtAnyAge == {r \in Rows : mod[r] = "REWRITING"}

\* A mutant of the condition below: the claim of the last attempt is not taken back.
DeadUnspent == {r \in stale : mod[r] = "REWRITING" /\ retries[r] < MaxRetries}

\* The WHERE of reclaimStale: claims that nobody can still be working on.
Dead == {r \in stale : mod[r] = "REWRITING"}

\* reclaimStale: they are taken back; their attempts remain spent.
Reclaim(w) ==
    /\ pc[w] = "idle"
    /\ mod' = [r \in Rows |-> IF r \in Dead THEN "REJECTED" ELSE mod[r]]
    /\ stale' = stale \ Dead
    /\ left' = [left EXCEPT ![w] = MaxRepairs]
    /\ pc' = [pc EXCEPT ![w] = "locals"]
    /\ UNCHANGED <<ext, active, retries, superseded, tableVars, platformVars, historyVars,
                   pollVars, job, syncVars, faults>>

\* The rows are read before the listing is asked for.
ReadLocals(w) ==
    /\ pc[w] = "locals"
    /\ locals' = [locals EXCEPT ![w] = [r \in Existing |->
          [ext |-> ext[r], active |-> active[r], mod |-> mod[r], retries |-> retries[r]]]]
    /\ pc' = [pc EXCEPT ![w] = "list"]
    /\ UNCHANGED <<rowVars, tableVars, platformVars, historyVars, updates, missing, rejected,
                   left, job, syncVars, faults>>

JobOf(r, row, cause) ==
    [row |-> r, ext |-> row.ext, retries |-> row.retries, new |-> NoBanner, cause |-> cause]

\* A mutant of the operator below: the first rewriting of an ad is overlooked.
MissingRewrittenTwice(rows, seen) ==
    {JobOf(r, rows[r], "missing") : r \in
        {r \in DOMAIN rows : /\ seen # {}
                             /\ rows[r].ext \notin seen
                             /\ rows[r].active
                             /\ rows[r].mod = "REJECTED"
                             /\ rows[r].retries > 1}}

\* collectMissing: a row that was rewritten, and whose ad a listing with anything in
\* it does not have.
Missing(rows, seen) ==
    {JobOf(r, rows[r], "missing") : r \in
        {r \in DOMAIN rows : /\ seen # {}
                             /\ rows[r].ext \notin seen
                             /\ rows[r].active
                             /\ rows[r].mod = "REJECTED"
                             /\ rows[r].retries > 0}}

\* The listing arrives, or a part of it.  What the poll has to write, to report and
\* to repair follows from it and from the rows read before; a row read as REWRITING
\* is left alone.  A verdict is written when it or its reason is another (reworded:
\* the reason of a rejection is).  More missing rows than MaxMissing mean a listing in
\* pieces.
List(w) ==
    LET rows == locals[w]
        met(seen) == {r \in DOMAIN rows : rows[r].ext \in seen /\ rows[r].mod # "REWRITING"}
    IN
    /\ pc[w] = "list"
    /\ \E seen \in SUBSET listed :
          /\ \/ seen = listed /\ UNCHANGED faults
             \/ seen # listed /\ Fault
          /\ \E reworded \in SUBSET {q \in met(seen) : verdict[rows[q].ext] = "REJECTED"} :
                updates' = [updates EXCEPT ![w] =
                    {<<r, verdict[rows[r].ext]>> : r \in reworded \cup
                        {q \in met(seen) : verdict[rows[q].ext] # rows[q].mod}}]
          /\ rejected' = [rejected EXCEPT ![w] =
                {JobOf(r, rows[r], "none") : r \in
                    {q \in met(seen) : rows[q].active /\ verdict[rows[q].ext] = "REJECTED"}}]
          /\ missing' = [missing EXCEPT ![w] =
                IF Cardinality(Missing(rows, seen)) > MaxMissing THEN {} ELSE Missing(rows, seen)]
    /\ locals' = [locals EXCEPT ![w] = <<>>]
    /\ pc' = [pc EXCEPT ![w] = "work"]
    /\ UNCHANGED <<rowVars, tableVars, platformVars, historyVars, left, job, syncVars>>

\* One verdict is written, unless the row has been claimed since.  An accepted ad
\* gets all its attempts back.
WriteVerdict(w) ==
    /\ pc[w] = "work"
    /\ \E u \in updates[w] :
          LET r == u[1]
              open == mod[r] # "REWRITING"
              reset == open /\ u[2] = "APPROVED"
          IN
          /\ updates' = [updates EXCEPT ![w] = @ \ {u}]
          /\ mod' = [mod EXCEPT ![r] = IF open THEN u[2] ELSE @]
          /\ retries' = [retries EXCEPT ![r] = IF reset THEN 0 ELSE @]
          /\ sent' = [sent EXCEPT ![r] = IF reset THEN 0 ELSE @]
          /\ letters' = [letters EXCEPT ![r] = IF reset THEN 0 ELSE @]
          /\ told' = IF reset THEN told \ {r} ELSE told
    /\ UNCHANGED <<ext, active, superseded, stale, tableVars, platformVars, pc, locals, missing,
                   rejected, left, job, syncVars, faults>>

-----------------------------------------------------------------------------
(* What a run does with its own variables *)

\* The repair goes on with the ad j at await l.
Proceed(w, l, j) ==
    /\ pc' = [pc EXCEPT ![w] = l]
    /\ job' = [job EXCEPT ![w] = j]
    /\ UNCHANGED <<pollVars, left>>

\* The run is through with its ad, which took cost of the run's repairs.
Done(w, cost) ==
    /\ pc' = [pc EXCEPT ![w] = "work"]
    /\ job' = [job EXCEPT ![w] = NoJob]
    /\ left' = [left EXCEPT ![w] = @ - cost]
    /\ UNCHANGED pollVars

\* The run ends, or its process does.
EndRun(w) ==
    /\ pc' = [pc EXCEPT ![w] = "idle"]
    /\ job' = [job EXCEPT ![w] = NoJob]
    /\ left' = [left EXCEPT ![w] = 0]
    /\ locals' = [locals EXCEPT ![w] = <<>>]
    /\ updates' = [updates EXCEPT ![w] = {}]
    /\ missing' = [missing EXCEPT ![w] = {}]
    /\ rejected' = [rejected EXCEPT ![w] = {}]

-----------------------------------------------------------------------------
(* escalateMissingAd *)

\* A letter about a row whose ad the listing did not have.
ReportMissing(w) ==
    /\ pc[w] = "work"
    /\ updates[w] = {}
    /\ \E j \in missing[w] :
          /\ missing' = [missing EXCEPT ![w] = @ \ {j}]
          /\ pc' = [pc EXCEPT ![w] = "archive"]
          /\ job' = [job EXCEPT ![w] = j]
          /\ told' = told \cup {j.row}
    /\ UNCHANGED <<locals, updates, rejected, left, rowVars, tableVars, platformVars,
                   sent, letters, syncVars, faults>>

\* The row is taken out of service.
Archive(w) ==
    /\ pc[w] = "archive"
    /\ active' = [active EXCEPT ![job[w].row] = FALSE]
    /\ Done(w, 0)
    /\ UNCHANGED <<ext, mod, retries, superseded, stale, tableVars, platformVars, historyVars,
                   syncVars, faults>>

-----------------------------------------------------------------------------
(* repairRejectedAd *)

\* The next rejected ad in the order of the listing, while the run may repair: it is
\* put off, or its attempts are exhausted, or a model rewrites its text.
Pick(w) ==
    /\ pc[w] = "work"
    /\ updates[w] = {}
    /\ missing[w] = {}
    /\ left[w] > 0
    /\ \E j \in rejected[w] :
          /\ \A other \in rejected[w] : j.ext <= other.ext
          /\ rejected' = [rejected EXCEPT ![w] = @ \ {j}]
          /\ \/ j.row \in backoff /\ UNCHANGED <<pc, job>>
             \/ /\ j.row \notin backoff
                /\ j.retries >= MaxRetries
                /\ pc' = [pc EXCEPT ![w] = "check"]
                /\ job' = [job EXCEPT ![w] = [j EXCEPT !.cause = "exhausted"]]
             \/ /\ j.row \notin backoff
                /\ j.retries < MaxRetries
                /\ pc' = [pc EXCEPT ![w] = "rewrite"]
                /\ job' = [job EXCEPT ![w] = j]
    /\ UNCHANGED <<locals, updates, missing, left, rowVars, tableVars, platformVars,
                   historyVars, syncVars, faults>>

\* The models classify the rejection and write a new text, or none that would pass.
Rewrite(w) ==
    /\ pc[w] = "rewrite"
    /\ \/ Proceed(w, "claim", job[w])
       \/ Proceed(w, "check", [job[w] EXCEPT !.cause = "unwritable"])
    /\ UNCHANGED <<rowVars, tableVars, platformVars, historyVars, syncVars, faults>>

\* A mutant of the condition below: the counter is not compared.
ClaimWhereUncounted(j) == active[j.row] /\ mod[j.row] = "REJECTED"

\* The WHERE of the claim.
ClaimWhere(j) == active[j.row] /\ mod[j.row] = "REJECTED" /\ retries[j.row] = j.retries

\* The claim counts the attempt; another run may have been faster.
Claim(w) ==
    LET j == job[w] IN
    /\ pc[w] = "claim"
    /\ \/ /\ ClaimWhere(j)
          /\ mod' = [mod EXCEPT ![j.row] = "REWRITING"]
          /\ retries' = [retries EXCEPT ![j.row] = j.retries + 1]
          /\ stale' = stale \ {j.row}
          /\ Proceed(w, "submit", j)
       \/ ~ClaimWhere(j) /\ Done(w, 0) /\ UNCHANGED <<mod, retries, stale>>
    /\ UNCHANGED <<ext, active, superseded, tableVars, platformVars, historyVars, syncVars, faults>>

\* updateAdText edits the ad in place.
Edited(b) ==
    /\ verdict' = [verdict EXCEPT ![b] = "PENDING"]
    /\ UNCHANGED <<channel, next, listed, running>>

\* updateAdText creates a banner; gone are the old one, and stopped what pauseQuietly
\* stops.
Replaced(gone, stopped) ==
    /\ next <= LastBanner
    /\ next' = next + 1
    /\ listed' = (listed \ gone) \cup {next}
    /\ running' = (running \ (gone \cup stopped)) \cup {next}
    /\ verdict' = [b \in Banners |-> IF b \in gone THEN "PENDING" ELSE verdict[b]]
    /\ UNCHANGED channel

\* The request is carried out; or a banner is created and the old one cannot be
\* deleted, or is although the answer says otherwise (VK_BANNER_REPLACE_ORPHAN); or
\* it is refused; or its reply is lost.
Submit(w) ==
    LET j == job[w]
        failed == [j EXCEPT !.cause = "failed"]
    IN
    /\ pc[w] = "submit"
    /\ \/ /\ j.ext \in listed
          /\ sent' = [sent EXCEPT ![j.row] = @ + 1]
          /\ \/ channel = "yandex" /\ Edited(j.ext) /\ Proceed(w, "settle", j) /\ UNCHANGED faults
             \/ /\ channel = "vk"
                /\ Replaced({j.ext}, {})
                /\ Proceed(w, "settle", [j EXCEPT !.new = next])
                /\ UNCHANGED faults
             \/ /\ channel = "vk"
                /\ \E gone, stopped \in {{}, {j.ext}} : Replaced(gone, stopped)
                /\ Proceed(w, "adopt", [failed EXCEPT !.new = next])
                /\ UNCHANGED faults
             \/ /\ Fault
                /\ \/ channel = "yandex" /\ Edited(j.ext)
                   \/ channel = "vk" /\ Replaced({}, {})
                /\ Proceed(w, "release", failed)
       \/ Proceed(w, "release", failed) /\ UNCHANGED <<platformVars, sent, faults>>
    /\ UNCHANGED <<rowVars, tableVars, letters, told, syncVars>>

\* The pair of group and external id is unique.
Taken(r, b) == \E other \in Rows \ {r} : ext[other] = b

\* A mutant of the step below: the old id is not kept.
MoveForgetting(r, from, to) ==
    /\ ext' = [ext EXCEPT ![r] = to]
    /\ UNCHANGED superseded

\* switchedExternalId
Move(r, from, to) ==
    /\ ext' = [ext EXCEPT ![r] = to]
    /\ superseded' = [superseded EXCEPT ![r] = @ \cup {from}]

\* The text is in the cabinet: the row waits for a verdict under its new id.  When a
\* sync was faster and made a row for that id, this one is taken out of service and
\* a human is asked.
Settle(w) ==
    LET j == job[w] IN
    /\ pc[w] = "settle"
    /\ mod' = [mod EXCEPT ![j.row] = "PENDING"]
    /\ \/ j.new = NoBanner /\ Done(w, 1) /\ UNCHANGED <<ext, active, superseded>>
       \/ /\ j.new # NoBanner
          /\ ~Taken(j.row, j.new)
          /\ Move(j.row, j.ext, j.new)
          /\ Done(w, 1)
          /\ UNCHANGED active
       \/ /\ j.new # NoBanner
          /\ Taken(j.row, j.new)
          /\ active' = [active EXCEPT ![j.row] = FALSE]
          /\ Proceed(w, "check", [j EXCEPT !.cause = "taken"])
          /\ UNCHANGED <<ext, superseded>>
    /\ stale' = stale \ {j.row}
    /\ UNCHANGED <<retries, tableVars, platformVars, historyVars, syncVars, faults>>

\* Half of the replacement was carried out: the row moves to the living banner and
\* the claim is given up in one update.
Adopt(w) ==
    LET j == job[w] IN
    /\ pc[w] = "adopt"
    /\ \/ /\ ~Taken(j.row, j.new)
          /\ Move(j.row, j.ext, j.new)
          /\ mod' = [mod EXCEPT ![j.row] = "REJECTED"]
          /\ stale' = stale \ {j.row}
          /\ Proceed(w, "check", j)
       \/ /\ Taken(j.row, j.new)
          /\ Proceed(w, "release", j)
          /\ UNCHANGED <<ext, superseded, mod, stale>>
    /\ UNCHANGED <<active, retries, tableVars, platformVars, historyVars, syncVars, faults>>

\* A mutant of the step below: the attempt is given back with the claim.
ReleaseReturning(w) ==
    LET j == job[w] IN
    /\ pc[w] = "release"
    /\ mod' = [mod EXCEPT ![j.row] = IF @ = "REWRITING" THEN "REJECTED" ELSE @]
    /\ retries' = [retries EXCEPT ![j.row] = j.retries]
    /\ stale' = stale \ {j.row}
    /\ Proceed(w, "check", j)
    /\ UNCHANGED <<ext, active, superseded, tableVars, platformVars, historyVars, syncVars, faults>>

\* The claim is given up, its attempt is not.
Release(w) ==
    LET j == job[w] IN
    /\ pc[w] = "release"
    /\ mod' = [mod EXCEPT ![j.row] = IF @ = "REWRITING" THEN "REJECTED" ELSE @]
    /\ stale' = stale \ {j.row}
    /\ Proceed(w, "check", j)
    /\ UNCHANGED <<ext, active, retries, superseded, tableVars, platformVars, historyVars,
                   syncVars, faults>>

-----------------------------------------------------------------------------
(* escalate *)

HandsOver(j) == j.cause \in {"exhausted", "unwritable"}

\* A mutant of the operator below: every letter parks the ad one attempt further.
ParkAtNext(j) == j.retries + 1

\* The value of the counter the ad is parked at, and the key of alreadyEscalated; the
\* counter does not exceed MaxRetries (TypeOK), the Math.max of the code is one of both.
ParkAt(j) == IF HandsOver(j) THEN MaxRetries ELSE j.retries + 1

\* A mutant of the condition below: any letter about the ad will do.
KnownAny(j) == escalated[j.row] # {}

\* alreadyEscalated
Known(j) == ParkAt(j) \in escalated[j.row]

\* A failed submission is an error of the run, whether a letter follows or not.
Check(w) ==
    LET j == job[w] IN
    /\ pc[w] = "check"
    /\ \/ Known(j) /\ Done(w, IF j.cause = "failed" THEN 1 ELSE 0)
       \/ ~Known(j) /\ Proceed(w, "deliver", j)
    /\ UNCHANGED <<rowVars, tableVars, platformVars, historyVars, syncVars, faults>>

\* The letter first, so that one that was not delivered is written again.
Deliver(w) ==
    LET j == job[w] IN
    /\ pc[w] = "deliver"
    /\ letters' = [letters EXCEPT ![j.row] = IF HandsOver(j) THEN @ + 1 ELSE @]
    /\ told' = told \cup {j.row}
    /\ Proceed(w, "log", j)
    /\ UNCHANGED <<rowVars, tableVars, platformVars, sent, syncVars, faults>>

Log(w) ==
    LET j == job[w] IN
    /\ pc[w] = "log"
    /\ escalated' = [escalated EXCEPT ![j.row] = @ \cup {ParkAt(j)}]
    /\ Proceed(w, "park", j)
    /\ UNCHANGED <<rowVars, backoff, platformVars, historyVars, syncVars, faults>>

\* The counter goes to its ceiling, unless another run has moved it.
Park(w) ==
    LET j == job[w]
        still == mod[j.row] = "REJECTED" /\ retries[j.row] = j.retries
    IN
    /\ pc[w] = "park"
    /\ retries' = [retries EXCEPT ![j.row] = IF still THEN ParkAt(j) ELSE @]
    /\ Done(w, 1)
    /\ UNCHANGED <<ext, active, mod, superseded, stale, tableVars, platformVars, historyVars,
                   syncVars, faults>>

-----------------------------------------------------------------------------
(* What goes wrong *)

\* An await of a repair throws.  A failure nobody counted puts the ad off; the next
\* ad follows.  A failed adoption still gives the claim up.
Throw(w) ==
    LET j == job[w]
        uncounted == pc[w] \in {"rewrite", "claim"} \/ j.cause = "unwritable"
    IN
    /\ pc[w] \notin {"idle", "locals", "list", "work", "submit"}
    /\ Fault
    /\ \/ pc[w] = "adopt" /\ Proceed(w, "release", j) /\ UNCHANGED backoff
       \/ /\ pc[w] # "adopt"
          /\ Done(w, IF pc[w] = "archive" THEN 0 ELSE 1)
          /\ backoff' = IF uncounted THEN backoff \cup {j.row} ELSE backoff
    /\ UNCHANGED <<rowVars, escalated, platformVars, historyVars, syncVars>>

\* The process dies, or the poll throws.
Crash(w) ==
    /\ pc[w] # "idle"
    /\ Fault
    /\ EndRun(w)
    /\ UNCHANGED <<rowVars, tableVars, platformVars, historyVars, syncVars>>

\* Nothing is left to do, or the rest is deferred to the next run.
Finish(w) ==
    /\ pc[w] = "work"
    /\ updates[w] = {}
    /\ missing[w] = {}
    /\ rejected[w] = {} \/ left[w] = 0
    /\ EndRun(w)
    /\ UNCHANGED <<rowVars, tableVars, platformVars, historyVars, syncVars, faults>>

-----------------------------------------------------------------------------
(* syncAds of ingestion *)

\* The superseded ids are read first.
ReadMarked(s) ==
    /\ at[s] = "idle"
    /\ marked' = [marked EXCEPT ![s] = UNION {superseded[r] : r \in Rows}]
    /\ at' = [at EXCEPT ![s] = "list"]
    /\ UNCHANGED <<rowVars, tableVars, platformVars, historyVars, runVars, remote, faults>>

\* The listing of the platform.
ListRemote(s) ==
    /\ at[s] = "list"
    /\ remote' = [remote EXCEPT ![s] = [b \in listed |-> <<verdict[b], b \in running>>]]
    /\ at' = [at EXCEPT ![s] = "upsert"]
    /\ UNCHANGED <<rowVars, tableVars, platformVars, historyVars, runVars, marked, faults>>

\* A mutant of the operator below: the platform's word is taken.
InServiceListed(s, b) == remote[s][b][2]

\* The status the row of a banner gets.
InService(s, b) == remote[s][b][2] /\ b \notin marked[s]

\* The next banner of the listing is written over its row, or into a new one.
Upsert(s) ==
    /\ at[s] = "upsert"
    /\ \E b \in DOMAIN remote[s] :
          /\ \A other \in DOMAIN remote[s] : b <= other
          /\ remote' = [remote EXCEPT ![s] = [o \in DOMAIN remote[s] \ {b} |-> remote[s][o]]]
          /\ \E r \in Rows :
                /\ \/ ext[r] = b
                   \/ /\ \A q \in Rows : ext[q] # b
                      /\ ext[r] = NoBanner
                      /\ \A q \in Rows : q < r => ext[q] # NoBanner
                /\ ext' = [ext EXCEPT ![r] = b]
                /\ mod' = [mod EXCEPT ![r] = remote[s][b][1]]
                /\ active' = [active EXCEPT ![r] = InService(s, b)]
                /\ stale' = stale \ {r}
    /\ UNCHANGED <<retries, superseded, tableVars, platformVars, historyVars, runVars, at, marked,
                   faults>>

EndSync(s) ==
    /\ at[s] = "upsert"
    /\ DOMAIN remote[s] = {}
    /\ at' = [at EXCEPT ![s] = "idle"]
    /\ marked' = [marked EXCEPT ![s] = {}]
    /\ UNCHANGED <<rowVars, tableVars, platformVars, historyVars, runVars, remote, faults>>

-----------------------------------------------------------------------------
(* The environment *)

\* The platform decides about an ad, for the first time or again.
Judge(b) ==
    /\ b \in listed
    /\ \E v \in {"APPROVED", "REJECTED"} : verdict' = [verdict EXCEPT ![b] = v]
    /\ UNCHANGED <<rowVars, tableVars, channel, next, listed, running, historyVars, runVars, syncVars,
                   faults>>

\* A claim grows old.  REWRITING_APPLY_BUDGET_MINUTES is longer than any submission
\* takes: only the claim of a run that is gone gets so old.
GrowStale(r) ==
    /\ mod[r] = "REWRITING"
    /\ \A w \in Runs : pc[w] \in Claimed => job[w].row # r
    /\ stale' = stale \cup {r}
    /\ UNCHANGED <<ext, active, mod, retries, superseded, tableVars, platformVars, historyVars, runVars,
                   syncVars, faults>>

\* REPAIR_BACKOFF_MINUTES are over.
BackoffEnds(r) ==
    /\ r \in backoff
    /\ backoff' = backoff \ {r}
    /\ UNCHANGED <<rowVars, escalated, platformVars, historyVars, runVars, syncVars, faults>>

-----------------------------------------------------------------------------
Init ==
    /\ ext = [r \in Rows |-> IF r < Ads THEN r ELSE NoBanner]
    /\ active = [r \in Rows |-> r < Ads]
    /\ mod = [r \in Rows |-> "PENDING"]
    /\ retries = [r \in Rows |-> 0]
    /\ superseded = [r \in Rows |-> {}]
    /\ stale = {}
    /\ escalated = [r \in Rows |-> {}]
    /\ backoff = {}
    /\ channel \in Channels
    /\ next = Ads
    /\ listed = 0 .. Ads - 1
    /\ running = 0 .. Ads - 1
    /\ verdict = [b \in Banners |-> "PENDING"]
    /\ sent = [r \in Rows |-> 0]
    /\ letters = [r \in Rows |-> 0]
    /\ told = {}
    /\ pc = [w \in Runs |-> "idle"]
    /\ locals = [w \in Runs |-> <<>>]
    /\ updates = [w \in Runs |-> {}]
    /\ missing = [w \in Runs |-> {}]
    /\ rejected = [w \in Runs |-> {}]
    /\ left = [w \in Runs |-> 0]
    /\ job = [w \in Runs |-> NoJob]
    /\ at = [s \in Syncs |-> "idle"]
    /\ marked = [s \in Syncs |-> {}]
    /\ remote = [s \in Syncs |-> <<>>]
    /\ faults = 0

Polling(w) == Reclaim(w) \/ ReadLocals(w) \/ List(w) \/ WriteVerdict(w)

Repairing(w) ==
    \/ ReportMissing(w) \/ Archive(w) \/ Pick(w) \/ Rewrite(w) \/ Claim(w) \/ Submit(w)
    \/ Settle(w) \/ Adopt(w) \/ Release(w)

Escalating(w) == Check(w) \/ Deliver(w) \/ Log(w) \/ Park(w)

Running(w) == Polling(w) \/ Repairing(w) \/ Escalating(w) \/ Finish(w)

Syncing(s) == ReadMarked(s) \/ ListRemote(s) \/ Upsert(s) \/ EndSync(s)

Next ==
    \/ \E w \in Runs : Running(w) \/ Throw(w) \/ Crash(w)
    \/ \E s \in Syncs : Syncing(s)
    \/ \E b \in Banners : Judge(b)
    \/ \E r \in Rows : GrowStale(r) \/ BackoffEnds(r)

Spec == Init /\ [][Next]_vars

\* The scheduler starts the jobs, a process that lives goes on, and time passes.
Fairness ==
    /\ \A w \in Runs : WF_vars(Running(w))
    /\ \A s \in Syncs : WF_vars(Syncing(s))
    /\ \A r \in Rows : WF_vars(GrowStale(r)) /\ WF_vars(BackoffEnds(r))

FairSpec == Spec /\ Fairness

-----------------------------------------------------------------------------
(* Properties *)

\* Every text that reached the platform since the ad was last accepted is counted,
\* although the run may have died before it knew: an ad costs MaxRetries rewritings.
AttemptsCounted == \A r \in Rows : sent[r] <= retries[r] /\ retries[r] <= MaxRetries

\* Overlapping runs never send two texts for one ad.
OneRewriter ==
    \A v, w \in Runs :
        v # w /\ pc[v] \in Claimed /\ pc[w] \in Claimed => job[v].row # job[w].row

\* One stuck ad, one letter: the rewriting that was not possible and the exhausted
\* attempts that follow hand the ad over once.
OneLetter == \A r \in Rows : letters[r] <= 1 + faults

\* A banner a replacement has made is known by a row, as its ad or as one it left
\* behind, or a run is about to write it down; unless something failed.
BannerIsKnown ==
    \A b \in listed :
        \/ \E r \in Rows : ext[r] = b \/ b \in superseded[r]
        \/ \E w \in Runs : pc[w] \in {"settle", "adopt"} /\ job[w].new = b
        \/ faults > 0

\* A claim does not outlive its run for long: the ad comes back to moderation.
ClaimIsGivenUp ==
    \A r \in Rows : mod[r] = "REWRITING" ~> mod[r] # "REWRITING"

\* A row whose ad has gone, of whose replacement nobody knows, does not stay in
\* service as if it were there.
LostRowIsArchived ==
    \A r \in Rows :
        (active[r] /\ mod[r] = "REJECTED" /\ retries[r] > 0 /\ ext[r] \notin listed)
        ~> ~(active[r] /\ mod[r] = "REJECTED" /\ ext[r] \notin listed)

\* A banner left behind that cannot be deleted is taken out of service for good,
\* whatever the listing says of it.
LeftBehindIsArchived ==
    \A b \in Banners :
        LET inService ==
              /\ b \in listed
              /\ \E r \in Rows : b \in superseded[r]
              /\ \E r \in Rows : ext[r] = b /\ active[r]
        IN  inService ~> ~inService

\* An ad whose attempts are exhausted is handed over to a human.
DeadEndIsHandedOver ==
    \A r \in Rows :
        (active[r] /\ mod[r] = "REJECTED" /\ retries[r] = MaxRetries /\ ext[r] \in listed)
        ~> (MaxRetries \in escalated[r] \/ ~active[r] \/ mod[r] # "REJECTED"
            \/ retries[r] # MaxRetries \/ ext[r] \notin listed)

\* What alreadyEscalated says of an accepted ad: the next cycle of rejections reaches
\* the human again.
NextCycleIsHandedOver ==
    \A r \in Rows :
        (active[r] /\ mod[r] = "REJECTED" /\ retries[r] = MaxRetries /\ ext[r] \in listed)
        ~> (r \in told \/ ~active[r] \/ mod[r] # "REJECTED"
            \/ retries[r] # MaxRetries \/ ext[r] \notin listed)
=============================================================================
