------------------------------- MODULE Alerts -------------------------------
(***************************************************************************)
(* The alert scan (src/src/reporter/alerts.ts, rate-limit.ts).  Every five  *)
(* minutes a job reads what ErrorLog gained, finds reasons to wake the      *)
(* administrator, drops those it spoke of within their cooldown, folds the  *)
(* cabinets of a broken platform into one message, sends the first few,     *)
(* critical ones first, and remembers, in the memory of its process, what   *)
(* it has told.                                                            *)
(*                                                                         *)
(* A tick of the clock is one period of the job.  A row's "at" is the tick  *)
(* whose scan is the first that can see it, so a scan ends its tick.  One   *)
(* scan is one step: only the scan touches the cooldowns, and a process     *)
(* that dies between two messages is a scan whose other messages failed,    *)
(* followed by a restart.                                                   *)
(***************************************************************************)
EXTENDS ErrorLog, FiniteSetsExt

CONSTANTS Cabinets,        \* clients rows of ErrorLog are about
          Noise,           \* how many rows of a kind may be written at once
          Lookback,        \* ERROR_LOOKBACK_MINUTES, in ticks
          BurstWindow,     \* ERROR_WINDOW_MINUTES, in ticks
          Threshold,       \* ERROR_BURST_THRESHOLD
          MaxGroups,       \* MAX_ERROR_GROUPS
          MaxPerRun,       \* MAX_ALERTS_PER_RUN
          Cooldown,        \* DEFAULT_COOLDOWN_MS, in ticks
          LongCooldown,    \* SPEND_ and STANDING_ALERT_COOLDOWN_MS, in ticks
          SpendInterval,   \* SPEND_SCAN_INTERVAL_MS, in ticks
          AlertDay,        \* ticks of the clock in a day
          MaxRows          \* bound on the rows others write

\* ERROR_LOOKBACK_MINUTES is two periods of the job and the jitter between two scans; no
\* cooldown is nothing.
ASSUME AlertsAssumption ==
    /\ IsFiniteSet(Cabinets)
    /\ Lookback \in Nat \ {0, 1}
    /\ MaxGroups \in Nat
    /\ {Cooldown, LongCooldown} \subseteq Nat \ {0}

VARIABLES
  limiter,    \* the keys spoken of, with the time and the cooldown (alertLimiter)
  spend,      \* what the spend check of each client finds
  (*  history  *)
  told,       \* messages in the administrator's chat: the keys they cover and when
  unheard     \* why a scan said nothing of what it should have: [at, why]

alertVars == <<limiter, spend, told, unheard>>

AuthCodes == {"AUTH_FAILED"}
UnitsCodes == {"OUT_OF_UNITS"}
ApprovalCodes == {"APPROVAL_NOT_DELIVERED"}
ReportCodes == {"REPORT_FAILED", "REPORT_DELIVERY_FAILED"}
\* Codes that are a reason each time they occur; others count only in a burst.
OneOffCodes == AuthCodes \cup UnitsCodes \cup ApprovalCodes \cup ReportCodes
OthersCodes == {"AUTH_FAILED", "OUT_OF_UNITS", "APPROVAL_NOT_DELIVERED", "FAILED"}

\* Rows of the reporter name no platform; bucketKey: client and platform.
Bucket(g) == <<g.client, g.code \notin ReportCodes>>
OnPlatform(g) == Bucket(g)[2]

-----------------------------------------------------------------------------
(***************************************************************************)
(* What one scan finds.                                                    *)
(***************************************************************************)

GroupOf(r) == [client |-> r.client, code |-> r.code, stage |-> r.stage]
RowsOfOneTick(depth) == {r \in log : r.at > clock - BurstWindow}
RowsSince(depth) == {r \in log : r.at > clock - depth}
RowsOf(rows, g) == {r \in rows : GroupOf(r) = g}
Newest(rows, g) == Max({r.at : r \in RowsOf(rows, g)})
Total(rows) == MapThenSumSet(LAMBDA r : r.n, rows)

\* groupErrors: the newest groups up to the cap; ties fall either way.
GroupSelections(rows) ==
    LET groups == {GroupOf(r) : r \in rows}
    IN  {kept \in SUBSET groups :
            /\ Cardinality(kept) = Min({Cardinality(groups), MaxGroups})
            /\ \A g \in kept, h \in groups \ kept : Newest(rows, g) >= Newest(rows, h)}

Loud(rows, bucket) == Total({r \in rows : Bucket(r) = bucket}) > Threshold

\* isWidespread: several cabinets are loud, or quiet ones are loud together.
Widespread(rows) ==
    LET touched == {r.client : r \in rows}
        loud == {c \in touched : Loud(rows, <<c, TRUE>>)}
        quiet == touched \ loud
    IN  \/ Cardinality(loud) > 1
        \/ /\ Cardinality(quiet) > 1
           /\ Total({r \in rows : r.client \in quiet}) > Threshold

\* findProviderBursts, for the one platform.
PlatformBurst(window) ==
    LET rows == {r \in window : OnPlatform(r)}
    IN  Total(rows) > Threshold /\ Widespread(rows)

PlatformKey == <<"provider_burst">>
NoParent == <<"none">>
Alert(key, severity, cooldown, parent) ==
    [key |-> key, severity |-> severity, cooldown |-> cooldown, parent |-> parent]
Critical(key) == Alert(key, "critical", Cooldown, NoParent)

\* The reason a row of ErrorLog is by itself.
ReasonOf(g) ==
    CASE g.code \in AuthCodes     -> Critical(<<"auth_error", Bucket(g)>>)
      [] g.code \in UnitsCodes    -> Alert(<<"out_of_units", Bucket(g)>>, "warning", Cooldown, NoParent)
      [] g.code \in ApprovalCodes -> Alert(<<"approval_undelivered", Bucket(g)>>, "warning", LongCooldown, NoParent)
      [] g.code \in ReportCodes   -> Critical(<<"report_failed", Bucket(g), g.stage, g.code>>)

BurstAlerts(window, buckets) ==
    {Alert(<<"error_burst", b>>, "critical", Cooldown,
           IF b[2] /\ PlatformBurst(window) THEN PlatformKey ELSE NoParent) :
        b \in {x \in buckets : Loud(window, x)}}

SpendKey(c) == <<"spend_anomaly", c, clock \div AlertDay>>
SpendAlerts ==
    {Alert(SpendKey(c), IF spend[c] = "spike" THEN "critical" ELSE "warning",
           LongCooldown, NoParent) : c \in {x \in Cabinets : spend[x] \in {"spike", "collapse"}}}

\* detectAlerts: of the groups kept of the lookback and of the window.
Detected(found, window, incomplete, checkSpend) ==
    (IF incomplete THEN {Critical(<<"scan_incomplete">>)} ELSE {})
    \cup (IF PlatformBurst(window) THEN {Critical(PlatformKey)} ELSE {})
    \cup BurstAlerts(window, {Bucket(g) : g \in found})
    \cup {ReasonOf(g) : g \in {x \in found : x.code \in OneOffCodes}}
    \cup (IF checkSpend THEN SpendAlerts ELSE {})

-----------------------------------------------------------------------------
(***************************************************************************)
(* What it says.                                                           *)
(***************************************************************************)

SpendScanKey == <<"spend_scan">>
Spoke(lim, key) == key \in DOMAIN lim /\ clock - lim[key].at < lim[key].cooldown
IsAllowed(key) == ~Spoke(limiter, key)

\* markSent, and the entries whose cooldown is over are pruned.
MarkSent(lim, alerts) ==
    LET keys == {a.key : a \in alerts}
        live == {key \in DOMAIN lim : Spoke(lim, key)}
    IN  [key \in live \cup keys |->
            IF key \in keys
            THEN [at |-> clock, cooldown |-> (CHOOSE a \in alerts : a.key = key).cooldown]
            ELSE lim[key]]

Folded(allowed) == {a \in allowed : \E b \in allowed : b.key = a.parent}

\* The first few, critical before warning; which of equals is left open.
ToSend(passing) ==
    {s \in SUBSET passing :
        /\ Cardinality(s) = Min({Cardinality(passing), MaxPerRun})
        /\ \A a \in s, b \in passing \ s : a.severity = "warning" => b.severity = "warning"}

\* What stops being news: what was delivered, and what its text told along.
SpokenWhenTried(delivered, folded, sent) == sent \cup folded
Spoken(delivered, folded, sent) ==
    delivered \cup {a \in folded : \E b \in delivered : b.key = a.parent}

RunAlertScan(fails) ==
    LET checkSpend == IsAllowed(SpendScanKey)
        marked == IF checkSpend
                  THEN MarkSent(limiter, {[key |-> SpendScanKey, cooldown |-> SpendInterval]})
                  ELSE limiter
        unreadable == IF checkSpend THEN {c \in Cabinets : spend[c] = "unreadable"} ELSE {}
        back == RowsSince(Lookback)
        recent == RowsSince(BurstWindow)
    IN  \E found \in GroupSelections(back), heard \in GroupSelections(recent) :
        LET window == {r \in recent : GroupOf(r) \in heard}
            incomplete == Cardinality({GroupOf(r) : r \in back}) > MaxGroups
            allowed == {a \in Detected(found, window, incomplete, checkSpend) : IsAllowed(a.key)}
            folded == Folded(allowed)
            passing == allowed \ folded
        IN  \E sent \in ToSend(passing), failed \in IF fails THEN SUBSET passing \ {{}} ELSE {{}} :
            LET delivered == sent \ failed
            IN  /\ failed \subseteq sent
                /\ limiter' = MarkSent(marked, Spoken(delivered, folded, sent))
                /\ told' = told \cup
                     {[at |-> clock,
                       keys |-> {a.key} \cup {b.key : b \in {x \in folded : x.parent = a.key}}] :
                      a \in delivered}
                /\ unheard' = unheard \cup {[at |-> clock, why |-> w] :
                     w \in (IF incomplete THEN {"incomplete"} ELSE {})
                           \cup (IF sent # passing THEN {"cut"} ELSE {})
                           \cup (IF fails THEN {"failed"} ELSE {})}
                /\ log' = log \cup {[client |-> c, code |-> "REPORT_FAILED", stage |-> "alerts",
                                     at |-> clock + 1, n |-> 1] : c \in unreadable}
                /\ clock' = clock + 1
                /\ UNCHANGED spend

\* The worker is down or the tick is skipped.
MissScan ==
    /\ unheard' = unheard \cup {[at |-> clock, why |-> "missed"]}
    /\ clock' = clock + 1
    /\ UNCHANGED <<log, limiter, spend, told>>

\* A new process has told nothing yet.
Restart == limiter' = <<>> /\ UNCHANGED <<clock, log, spend, told, unheard>>

\* Other parts of the system write to ErrorLog.
LogErrors ==
    /\ Cardinality({r \in log : r.stage = "others"}) < MaxRows
    /\ \E c \in Cabinets, code \in OthersCodes, n \in Noise :
          log' = log \cup {[client |-> c, code |-> code, stage |-> "others", at |-> clock, n |-> n]}
    /\ UNCHANGED <<clock, limiter, spend, told, unheard>>

-----------------------------------------------------------------------------
(***************************************************************************)
(* What the administrator may rely on.                                     *)
(***************************************************************************)

\* No reason is silent that was not told: whatever the limiter holds back went
\* to the chat when its silence began, in its own words or in its platform's.
SilenceIsEarned ==
    \A key \in DOMAIN limiter \ {SpendScanKey} :
        \E m \in told : m.at = limiter[key].at /\ key \in m.keys

\* A row that is a reason by itself reaches the administrator with one of the two
\* scans that see it, although one of them may be missed, or its reason was told
\* within the cooldown; else the scan says that it did not see everything, cut its
\* messages, or Telegram failed.
Heard ==
    \A r \in log : r.code \in OneOffCodes /\ r.at + 2 <= clock =>
        LET reason == ReasonOf(GroupOf(r))
            whys == {x.why : x \in {y \in unheard : y.at \in r.at .. r.at + 1}}
        IN  \/ \E m \in told : /\ reason.key \in m.keys
                               /\ m.at <= r.at + 1
                               /\ m.at + reason.cooldown > r.at
            \/ \A t \in r.at .. r.at + 1 : [at |-> t, why |-> "missed"] \in unheard
            \/ whys \cap {"incomplete", "cut", "failed"} # {}

\* What the last message of a scan promises: the reasons it cut come with the
\* next (here: when that scan is not missed and nothing fails).
TailComes ==
    \A x \in unheard : x.why = "cut" /\ x.at + 2 <= clock =>
        \/ \E y \in unheard : y.at = x.at + 1 /\ y.why \in {"missed", "failed"}
        \/ \A r \in log : r.at = x.at /\ r.code \in OneOffCodes =>
              \E m \in told : ReasonOf(GroupOf(r)).key \in m.keys
=============================================================================
