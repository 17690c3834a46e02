------------------------------ MODULE ErrorLog ------------------------------
(***************************************************************************)
(* The rows of ErrorLog, on one clock: report runs write them (Reports),    *)
(* the alert scan reads them (Alerts).                                      *)
(***************************************************************************)
EXTENDS Integers, FiniteSets

CONSTANTS LastTick,      \* bound on the clock
          MaxFaults      \* bound on what goes wrong

VARIABLES clock,
          log,           \* the rows
          faults

Fault == faults < MaxFaults /\ faults' = faults + 1

\* One row: whom and what it is about, the tick whose scan is the first to see it, and for
\* how many rows like it it stands.
Row(c, code, stage) == [client |-> c, code |-> code, stage |-> stage, at |-> clock, n |-> 1]
=============================================================================
