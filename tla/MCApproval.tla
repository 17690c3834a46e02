----------------------------- MODULE MCApproval -----------------------------
(***************************************************************************)
(* Finite instances of Approval.                                           *)
(***************************************************************************)
EXTENDS Approval, TLC

\* Handlers run the same code, so do cron processes, and cards start alike.
Symmetry == Permutations(Presses) \cup Permutations(Crons) \cup Permutations(Cards)
=============================================================================
