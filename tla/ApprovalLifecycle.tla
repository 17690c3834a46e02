------------------------- MODULE ApprovalLifecycle -------------------------
(***************************************************************************)
(* What an approval card promises, whatever processes work on it.          *)
(*                                                                         *)
(* A card is issued once, decided once, and the cabinet is written to at   *)
(* most once, only on behalf of a card that a human approved and that one  *)
(* process has leased.  Nothing leaves a final decision.  The module       *)
(* Approval is the detailed system; it implements this specification.      *)
(***************************************************************************)
EXTENDS Naturals

CONSTANT Cards                 \* the PendingApproval rows

VARIABLES decision,            \* [Cards -> Decisions], "NONE" before the insert
          writes               \* [Cards -> Nat], writes sent to the cabinet

lifecycleVars == <<decision, writes>>

\* The enum ApprovalDecision; "NONE" stands for a row not inserted yet.
Decisions == {"NONE", "PENDING", "APPROVED", "REJECTED", "EXPIRED",
              "APPLYING", "APPLIED", "FAILED"}

\* The decision of card a moves from the one to the other.
Move(a, from, to) ==
    /\ decision[a] = from
    /\ decision' = [decision EXCEPT ![a] = to]
    /\ UNCHANGED writes

Issue(a)  == Move(a, "NONE", "PENDING")
Decide(a) == \E d \in {"APPROVED", "REJECTED", "EXPIRED"} : Move(a, "PENDING", d)
Begin(a)  == Move(a, "APPROVED", "APPLYING")
Abandon(a) == Move(a, "APPROVED", "FAILED")
Settle(a) == \E d \in {"APPLIED", "FAILED"} : Move(a, "APPLYING", d)

\* The one write: only while the card is being applied, and only once.
Write(a) ==
    /\ decision[a] = "APPLYING"
    /\ writes[a] = 0
    /\ writes' = [writes EXCEPT ![a] = 1]
    /\ UNCHANGED decision

LifecycleInit ==
    /\ decision = [a \in Cards |-> "NONE"]
    /\ writes = [a \in Cards |-> 0]

LifecycleNext ==
    \E a \in Cards : \/ Issue(a) \/ Decide(a) \/ Begin(a)
                     \/ Abandon(a) \/ Settle(a) \/ Write(a)

LifecycleSpec == LifecycleInit /\ [][LifecycleNext]_lifecycleVars
=============================================================================
