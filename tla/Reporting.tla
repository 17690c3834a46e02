----------------------------- MODULE Reporting -----------------------------
(***************************************************************************)
(* Reports and the alert scan on one clock: what a report run writes to    *)
(* ErrorLog is what the scan reads.                                        *)
(***************************************************************************)
EXTENDS Reports, Alerts

CONSTANT SpendStates     \* what the spend check may find, by client

vars == <<clock, log, faults, reportVars, alertVars>>

AlertCodes == OthersCodes \cup ReportCodes
Whys == {"incomplete", "cut", "failed", "missed"}

\* Every variable has its type, and the limiter never speaks of the future.
TypeOK ==
    /\ clock \in 0 .. LastTick
    /\ ReportsTypeOK
    /\ \A r \in log : r.client \in Clients \cup Cabinets /\ r.code \in AlertCodes /\ r.at <= clock + 1
    /\ \A key \in DOMAIN limiter : limiter[key].at < clock /\ limiter[key].cooldown > 0
    /\ \A m \in told : m.at < clock
    /\ \A x \in unheard : x.at < clock /\ x.why \in Whys

Init ==
    /\ clock = 0
    /\ log = {}
    /\ faults = 0
    /\ ReportsInit
    /\ limiter = <<>>
    /\ spend \in SpendStates
    /\ told = {}
    /\ unheard = {}

\* The runs of a tick are over before the scan that ends it.
Tick ==
    /\ RunsDone /\ clock < LastTick
    /\ \/ RunAlertScan(FALSE) /\ UNCHANGED faults
       \/ Fault /\ RunAlertScan(TRUE)
       \/ Fault /\ MissScan
    /\ due' = DueAt(clock')
    /\ UNCHANGED <<job, report, editions, letters, doubtful>>

\* Where in a tick others write, or the process restarts, makes no difference to
\* the scan that ends it.
Others ==
    /\ RunsDone
    /\ \/ LogErrors /\ UNCHANGED faults
       \/ Fault /\ DOMAIN limiter # {} /\ Restart
    /\ UNCHANGED reportVars

Next ==
    \/ ReportsNext /\ UNCHANGED alertVars
    \/ Tick
    \/ Others

Spec == Init /\ [][Next]_vars
=============================================================================
