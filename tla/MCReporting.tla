---------------------------- MODULE MCReporting ----------------------------
(***************************************************************************)
(* An instance of Reporting for TLC.                                       *)
(***************************************************************************)
EXTENDS Reporting, TLC

CONSTANTS c1, c2

MCRecipients == <<c1, c2>>
MCCabinets == {c1, c2}
MCLength == [k \in Kinds |-> IF k = "daily" THEN 2 ELSE 4]
\* Bound: the weekly run begins when the daily one is over.
OneRun == Cardinality({k \in Kinds : job[k].at # "idle"}) <= 1

MCSpendStates == {c1 :> "flat" @@ c2 :> "flat", c1 :> "spike" @@ c2 :> "unreadable"}
=============================================================================
