----------------------------- MODULE Escalation ------------------------------
(***************************************************************************)
(* Calling a human to a halted interview (src/src/bot: admin-escalation.ts  *)
(* and the reply of onboarding-handlers.ts): one letter per ground and day, *)
(* however often the client writes.  The right to write is a row of         *)
(* IdempotencyKey that is taken before the letter is sent, and given back   *)
(* by its holder when the letter did not go out.                            *)
(***************************************************************************)
EXTENDS Naturals

CONSTANTS Handlers,          \* updates served at once
          Grounds,           \* reason and missing fields of a halt
          Window,            \* ESCALATION_WINDOW_MS, in ticks
          LastTick,          \* bound: the clock
          MaxFaults          \* bound: failures of the store and processes that die

VARIABLES clock,
          key,               \* [Grounds -> until when the row holds], 0 without a row
          call,              \* what each handler is at
          answered,          \* [Grounds -> the claims that ended in a letter, or in a fault]
          errors,            \* ErrorLog: grounds of the undelivered letters
          faults

escalationVars == <<clock, key, call, answered, errors, faults>>

Idle == [pc |-> "idle", ground |-> "none", until |-> 0]
At(h, pc) == call[h].pc = pc
Go(h, pc) == call' = [call EXCEPT ![h].pc = pc]
Stop(h) == call' = [call EXCEPT ![h] = Idle]
Ground(h) == call[h].ground
Claimed(h) == answered' = [answered EXCEPT ![Ground(h)] = @ \cup {call[h].until}]
Fault == faults < MaxFaults /\ faults' = faults + 1

\* The client was answered "a human will join"; a reply that fails ends the handler.
Reply(h, g) ==
    /\ At(h, "idle")
    /\ call' = [call EXCEPT ![h] = [pc |-> "renewing", ground |-> g, until |-> clock + Window]]
    /\ UNCHANGED <<clock, key, answered, errors, faults>>

\* claimEscalation: over a row that has expired...
Renew(h) ==
    LET g == Ground(h)
    IN  /\ At(h, "renewing")
        /\ IF key[g] # 0 /\ key[g] <= clock
           THEN key' = [key EXCEPT ![g] = call[h].until] /\ Go(h, "sending")
           ELSE key' = key /\ Go(h, "creating")
        /\ UNCHANGED <<clock, answered, errors, faults>>

\* ...or a new one; one that is there already means that somebody called.
Create(h) ==
    LET g == Ground(h)
    IN  /\ At(h, "creating")
        /\ IF key[g] = 0
           THEN key' = [key EXCEPT ![g] = call[h].until] /\ Go(h, "sending")
           ELSE key' = key /\ Stop(h)
        /\ UNCHANGED <<clock, answered, errors, faults>>

\* A store that fails lets the letter go out; the row may be written all the same.
ClaimFails(h) ==
    /\ At(h, "renewing") \/ At(h, "creating")
    /\ Fault
    /\ \/ key' = key
       \/ key[Ground(h)] <= clock /\ key' = [key EXCEPT ![Ground(h)] = call[h].until]
    /\ Go(h, "sending")
    /\ UNCHANGED <<clock, answered, errors>>

SendLetter(h) ==
    /\ At(h, "sending")
    /\ Claimed(h) /\ Stop(h)
    /\ UNCHANGED <<clock, key, errors, faults>>

SendFails(h) ==
    /\ At(h, "sending")
    /\ Go(h, "releasing")
    /\ UNCHANGED <<clock, key, answered, errors, faults>>

\* releaseEscalation: the holder's own row, known by its term; then the ErrorLog.
NotReleased(h) == key
Released(h) == IF key[Ground(h)] = call[h].until THEN [key EXCEPT ![Ground(h)] = 0] ELSE key
Release(h) ==
    /\ At(h, "releasing")
    /\ key' = Released(h)
    /\ errors' = errors \cup {Ground(h)}
    /\ Stop(h)
    /\ UNCHANGED <<clock, answered, faults>>

ReleaseFails(h) ==
    /\ At(h, "releasing")
    /\ Fault
    /\ errors' = errors \cup {Ground(h)}
    /\ Claimed(h) /\ Stop(h)
    /\ UNCHANGED <<clock, key>>

\* Without an administrator's chat there is only the ErrorLog.
NoAdminChat(h) ==
    /\ At(h, "renewing")
    /\ errors' = errors \cup {Ground(h)}
    /\ Stop(h)
    /\ UNCHANGED <<clock, key, answered, faults>>

Die(h) ==
    /\ ~At(h, "idle")
    /\ Fault
    /\ Claimed(h) /\ Stop(h)
    /\ UNCHANGED <<clock, key, errors>>

\* The cleanup of expired keys (src/src/scheduler).
CleanUp ==
    /\ \E g \in Grounds : key[g] # 0 /\ key[g] <= clock
    /\ key' = [g \in Grounds |-> IF key[g] <= clock THEN 0 ELSE key[g]]
    /\ UNCHANGED <<clock, call, answered, errors, faults>>

Tick ==
    /\ clock < LastTick
    /\ clock' = clock + 1
    /\ UNCHANGED <<key, call, answered, errors, faults>>

Init ==
    /\ clock = 1
    /\ key = [g \in Grounds |-> 0]
    /\ call = [h \in Handlers |-> Idle]
    /\ answered = [g \in Grounds |-> {}]
    /\ errors = {}
    /\ faults = 0

Next ==
    \/ \E h \in Handlers :
         \/ \E g \in Grounds : Reply(h, g)
         \/ Renew(h) \/ Create(h) \/ ClaimFails(h)
         \/ SendLetter(h) \/ SendFails(h) \/ NoAdminChat(h)
         \/ Release(h) \/ ReleaseFails(h)
         \/ Die(h)
    \/ CleanUp
    \/ Tick

Spec == Init /\ [][Next]_escalationVars

TypeOK ==
    /\ clock \in 1 .. LastTick /\ faults \in 0 .. MaxFaults
    /\ key \in [Grounds -> 0 .. LastTick + Window]
    /\ \A h \in Handlers : call[h].ground \in Grounds \cup {"none"}
    /\ answered \in [Grounds -> SUBSET (0 .. LastTick + Window)]
    /\ errors \subseteq Grounds

\* While a row silences a ground, a human was called, or is being called, under that
\* very row: a letter that failed never silences the client's next message.  Only a
\* process that died or a store that failed in between is excepted.
SilenceIsFounded ==
    \A g \in Grounds :
        key[g] > clock =>
            \/ key[g] \in answered[g]
            \/ \E h \in Handlers : /\ At(h, "sending") \/ At(h, "releasing")
                                   /\ Ground(h) = g /\ call[h].until = key[g]
=============================================================================
