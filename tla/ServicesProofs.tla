---------------------------- MODULE ServicesProofs ----------------------------
(***************************************************************************)
(* What holds of the components of Services, for every number of handlers,  *)
(* runs, calls and faults; each has a section, its constants any values of  *)
(* the types its theorem names.                                             *)
(***************************************************************************)
EXTENDS Services, FiniteSetTheorems, FoldProofs, TLAPS

CONSTANTS MinBudget, MaxKeywords, MaxName, TextAttempts, ParentOf  \* of PlanFacts

CF == INSTANCE ClientFacts
PF == INSTANCE PlanFacts WITH Attempts <- TextAttempts
CR == INSTANCE CreativeFacts
IFa == INSTANCE IngestionFacts

-----------------------------------------------------------------------------
\* No component reads what another writes.
LEMMA SideBySide ==
    /\ ServicesSpec => Onb!Spec
    /\ ServicesSpec => Esc!Spec
    /\ ServicesSpec => Exp!Spec
    /\ ServicesSpec => Vk!Spec
    /\ ServicesSpec => Cred!Spec
    /\ ServicesSpec => Units!Init /\ [][Units!Next]_(Units!unitVars)
    /\ ServicesSpec => Ai!Spec
    /\ ServicesSpec => Conv!Spec
<1> USE DEF ServicesNext, servicesVars, Interviews, Escalates, TestsTexts, UsesTokens, KeepsCredentials,
            SpendsUnits, AsksModel, CountsConversions
<1>1. ServicesSpec => Onb!Spec
  <2>1. ServicesInit => Onb!Init
    BY DEF ServicesInit
  <2>2. [ServicesNext]_servicesVars => [Onb!Next]_(Onb!onboardingVars)
    BY DEF onbVars, Onb!onboardingVars
  <2> QED BY <2>1, <2>2, PTL DEF ServicesSpec, Onb!Spec
<1>2. ServicesSpec => Esc!Spec
  <2>1. ServicesInit => Esc!Init
    BY DEF ServicesInit
  <2>2. [ServicesNext]_servicesVars => [Esc!Next]_(Esc!escalationVars)
    BY DEF escVars, Esc!escalationVars
  <2> QED BY <2>1, <2>2, PTL DEF ServicesSpec, Esc!Spec
<1>3. ServicesSpec => Cred!Spec
  <2>1. ServicesInit => Cred!Init
    BY DEF ServicesInit
  <2>2. [ServicesNext]_servicesVars => [Cred!Next]_(Cred!credVars)
    BY DEF credVars, Cred!credVars
  <2> QED BY <2>1, <2>2, PTL DEF ServicesSpec, Cred!Spec
<1>4. ServicesSpec => Units!Init /\ [][Units!Next]_(Units!unitVars)
  <2>1. ServicesInit => Units!Init
    BY DEF ServicesInit
  <2>2. [ServicesNext]_servicesVars => [Units!Next]_(Units!unitVars)
    BY DEF unitVars, Units!unitVars
  <2> QED BY <2>1, <2>2, PTL DEF ServicesSpec
<1>5. ServicesSpec => Ai!Spec
  <2>1. ServicesInit => Ai!Init
    BY DEF ServicesInit
  <2>2. [ServicesNext]_servicesVars => [Ai!Next]_(Ai!llmVars)
    BY DEF aiVars, Ai!llmVars
  <2> QED BY <2>1, <2>2, PTL DEF ServicesSpec, Ai!Spec
<1>6. ServicesSpec => Conv!Spec
  <2>1. ServicesInit => Conv!Init
    BY DEF ServicesInit
  <2>2. [ServicesNext]_servicesVars => [Conv!Next]_(Conv!convVars)
    BY DEF convVars, Conv!convVars
  <2> QED BY <2>1, <2>2, PTL DEF ServicesSpec, Conv!Spec
<1>7. ServicesSpec => Exp!Spec
  <2>1. ServicesInit => Exp!Init
    BY DEF ServicesInit
  <2>2. [ServicesNext]_servicesVars => [Exp!Next]_(Exp!experimentVars)
    BY DEF expVars, Exp!experimentVars
  <2> QED BY <2>1, <2>2, PTL DEF ServicesSpec, Exp!Spec
<1>8. ServicesSpec => Vk!Spec
  <2>1. ServicesInit => Vk!Init
    BY DEF ServicesInit
  <2>2. [ServicesNext]_servicesVars => [Vk!Next]_(Vk!vkVars)
    BY DEF vkVars, Vk!vkVars
  <2> QED BY <2>1, <2>2, PTL DEF ServicesSpec, Vk!Spec
<1> QED BY <1>1, <1>2, <1>3, <1>4, <1>5, <1>6, <1>7, <1>8

-----------------------------------------------------------------------------
(* Escalation: calling a human. *)

EscTypes == Window \in Nat

\* A call under way knows its ground.
EscCallOK ==
    /\ call \in [Handlers -> [pc : {"idle", "renewing", "creating", "sending", "releasing"},
                              ground : Grounds \cup {"none"}, until : Nat]]
    /\ \A h \in Handlers : call[h].pc # "idle" => call[h].ground \in Grounds

EscTypeInv ==
    /\ clock \in Nat /\ key \in [Grounds -> Nat] /\ answered \in [Grounds -> SUBSET Nat]
    /\ EscCallOK

\* That the row of a ground is founded.
Sends(h, g) == call[h].pc \in {"sending", "releasing"} /\ call[h].ground = g /\ call[h].until = key[g]
Founded(g) == key[g] > clock => key[g] \in answered[g] \/ \E h \in Handlers : Sends(h, g)

LEMMA FoundedIsFounded == Esc!SilenceIsFounded <=> \A g \in Grounds : Founded(g)
  BY DEF Esc!SilenceIsFounded, Founded, Sends, Esc!At, Esc!Ground

LEMMA EscInit == EscTypes /\ Esc!Init => EscTypeInv /\ Esc!SilenceIsFounded
<1> SUFFICES ASSUME EscTypes, Esc!Init PROVE EscTypeInv /\ \A g \in Grounds : Founded(g)
  BY FoundedIsFounded
<1>1. EscTypeInv
  BY DEF EscTypes, Esc!Init, Esc!Idle, EscTypeInv, EscCallOK
<1>2. \A g \in Grounds : Founded(g)
  BY DEF Esc!Init, Founded
<1> QED BY <1>1, <1>2

\* One handler goes on to another step of its call, or stops.
LEMMA EscGoes ==
    ASSUME EscTypeInv, NEW h \in Handlers, call[h].pc # "idle",
           NEW pc \in {"creating", "sending", "releasing"}, Esc!Go(h, pc)
    PROVE  /\ EscCallOK'
           /\ call'[h].pc = pc /\ call'[h].ground = call[h].ground /\ call'[h].until = call[h].until
           /\ \A i \in Handlers \ {h} : call'[i] = call[i]
  BY DEF EscTypeInv, EscCallOK, Esc!Go

LEMMA EscStops ==
    ASSUME EscTypeInv, NEW h \in Handlers, Esc!Stop(h)
    PROVE  /\ EscCallOK'
           /\ call'[h].pc = "idle"
           /\ \A i \in Handlers \ {h} : call'[i] = call[i]
  BY DEF EscTypeInv, EscCallOK, Esc!Stop, Esc!Idle

LEMMA EscStep ==
    ASSUME EscTypes, EscTypeInv, \A g \in Grounds : Founded(g), [Esc!Next]_(Esc!escalationVars)
    PROVE  EscTypeInv' /\ \A g \in Grounds : Founded(g)'
<1>1. ASSUME NEW h \in Handlers, NEW g \in Grounds, Esc!Reply(h, g)
      PROVE  EscTypeInv' /\ \A gg \in Grounds : Founded(gg)'
  <2>1. /\ call[h].pc = "idle" /\ clock + Window \in Nat
        /\ call' = [call EXCEPT ![h] = [pc |-> "renewing", ground |-> g, until |-> clock + Window]]
        /\ UNCHANGED <<clock, key, answered>>
    BY <1>1 DEF Esc!Reply, Esc!At, EscTypes, EscTypeInv
  <2>2. EscTypeInv'
    BY <2>1 DEF EscTypeInv, EscCallOK
  <2>3. \A i \in Handlers, gg \in Grounds : Sends(i, gg) => Sends(i, gg)'
    BY <2>1 DEF Sends, EscTypeInv, EscCallOK
  <2> QED BY <2>1, <2>2, <2>3 DEF Founded
<1>2. ASSUME NEW h \in Handlers, Esc!Renew(h) \/ Esc!Create(h) \/ Esc!ClaimFails(h)
      PROVE  EscTypeInv' /\ \A gg \in Grounds : Founded(gg)'
  <2>0. PICK g \in Grounds : g = call[h].ground
    BY <1>2 DEF Esc!Renew, Esc!Create, Esc!ClaimFails, Esc!At, EscTypeInv, EscCallOK
  <2>1. /\ call[h].pc \in {"renewing", "creating"}
        /\ call[h].until \in Nat
        /\ UNCHANGED <<clock, answered>>
    BY <1>2 DEF Esc!Renew, Esc!Create, Esc!ClaimFails, Esc!At, EscTypeInv, EscCallOK
  <2>2. \/ key[g] <= clock /\ key' = [key EXCEPT ![g] = call[h].until] /\ Esc!Go(h, "sending")
        \/ key' = key /\ (Esc!Go(h, "creating") \/ Esc!Go(h, "sending") \/ Esc!Stop(h))
    BY <1>2, <2>0, <2>1 DEF Esc!Renew, Esc!Create, Esc!ClaimFails, Esc!At, Esc!Ground, EscTypeInv
  <2>3. CASE key[g] <= clock /\ key' = [key EXCEPT ![g] = call[h].until] /\ Esc!Go(h, "sending")
    <3>1. /\ EscCallOK' /\ call'[h].pc = "sending" /\ call'[h].ground = g /\ call'[h].until = call[h].until
          /\ \A i \in Handlers \ {h} : call'[i] = call[i]
      BY <2>0, <2>1, <2>3, EscGoes
    <3>2. EscTypeInv'
      BY <2>1, <2>3, <3>1 DEF EscTypeInv
    <3>3. key'[g] = call[h].until /\ \A gg \in Grounds \ {g} : key'[gg] = key[gg]
      BY <2>1, <2>3 DEF EscTypeInv
    <3>4. Sends(h, g)'
      BY <3>1, <3>3 DEF Sends
    <3>5. \A i \in Handlers, gg \in Grounds \ {g} : Sends(i, gg) => Sends(i, gg)'
      BY <2>1, <3>1, <3>3 DEF Sends
    <3>6. Founded(g)'
      BY <3>4 DEF Founded
    <3>7. \A gg \in Grounds \ {g} : Founded(gg)'
      BY <2>1, <3>3, <3>5 DEF Founded
    <3> QED BY <3>2, <3>6, <3>7
  <2>4. CASE key' = key /\ (Esc!Go(h, "creating") \/ Esc!Go(h, "sending") \/ Esc!Stop(h))
    <3>1. EscCallOK' /\ \A i \in Handlers \ {h} : call'[i] = call[i]
      BY <2>1, <2>4, EscGoes, EscStops
    <3>2. EscTypeInv'
      BY <2>1, <2>4, <3>1 DEF EscTypeInv
    <3>3. \A i \in Handlers, gg \in Grounds : Sends(i, gg) => Sends(i, gg)'
      BY <2>1, <2>4, <3>1 DEF Sends
    <3> QED BY <2>1, <2>4, <3>2, <3>3 DEF Founded
  <2> QED BY <2>2, <2>3, <2>4
<1>3. ASSUME NEW h \in Handlers, Esc!SendLetter(h) \/ Esc!ReleaseFails(h) \/ Esc!Die(h)
      PROVE  EscTypeInv' /\ \A gg \in Grounds : Founded(gg)'
  <2> DEFINE g == call[h].ground
  <2>1. /\ g \in Grounds /\ call[h].until \in Nat
        /\ answered' = [answered EXCEPT ![g] = @ \cup {call[h].until}]
        /\ Esc!Stop(h) /\ UNCHANGED <<clock, key>>
    BY <1>3 DEF Esc!SendLetter, Esc!ReleaseFails, Esc!Die, Esc!At, Esc!Claimed, Esc!Ground, EscTypeInv, EscCallOK
  <2>2. EscCallOK' /\ \A i \in Handlers \ {h} : call'[i] = call[i]
    BY <2>1, EscStops
  <2>3. /\ answered'[g] = answered[g] \cup {call[h].until}
        /\ \A gg \in Grounds : answered[gg] \subseteq answered'[gg]
    BY <2>1 DEF EscTypeInv
  <2>4. EscTypeInv'
    BY <2>1, <2>2 DEF EscTypeInv
  <2>5. \A i \in Handlers, gg \in Grounds : Sends(i, gg) => Sends(i, gg)' \/ key[gg] \in answered'[gg]
    BY <2>1, <2>2, <2>3 DEF Sends
  <2> QED BY <2>1, <2>3, <2>4, <2>5 DEF Founded
<1>4. ASSUME NEW h \in Handlers, Esc!SendFails(h)
      PROVE  EscTypeInv' /\ \A gg \in Grounds : Founded(gg)'
  <2>1. call[h].pc = "sending" /\ Esc!Go(h, "releasing") /\ UNCHANGED <<clock, key, answered>>
    BY <1>4 DEF Esc!SendFails, Esc!At
  <2>2. /\ EscCallOK' /\ call'[h].pc = "releasing" /\ call'[h].ground = call[h].ground
        /\ call'[h].until = call[h].until /\ \A i \in Handlers \ {h} : call'[i] = call[i]
    BY <2>1, EscGoes
  <2>3. \A i \in Handlers, gg \in Grounds : Sends(i, gg) => Sends(i, gg)'
    BY <2>1, <2>2 DEF Sends
  <2> QED BY <2>1, <2>2, <2>3 DEF Founded, EscTypeInv
<1>5. ASSUME NEW h \in Handlers, Esc!Release(h)
      PROVE  EscTypeInv' /\ \A gg \in Grounds : Founded(gg)'
  <2> DEFINE g == call[h].ground
  <2>1. /\ call[h].pc = "releasing" /\ g \in Grounds /\ Esc!Stop(h) /\ UNCHANGED <<clock, answered>>
        /\ key' = IF key[g] = call[h].until THEN [key EXCEPT ![g] = 0] ELSE key
    BY <1>5 DEF Esc!Release, Esc!Released, Esc!At, Esc!Ground, EscTypeInv, EscCallOK
  <2>2. EscCallOK' /\ \A i \in Handlers \ {h} : call'[i] = call[i]
    BY <2>1, EscStops
  <2>3. EscTypeInv'
    BY <2>1, <2>2 DEF EscTypeInv
  <2>4. \A gg \in Grounds : key'[gg] = key[gg] \/ key'[gg] = 0
    BY <2>1 DEF EscTypeInv
  <2>5. key[g] = call[h].until => key'[g] = 0
    BY <2>1 DEF EscTypeInv
  <2>6. \A i \in Handlers, gg \in Grounds : Sends(i, gg) => Sends(i, gg)' \/ key'[gg] = 0
    BY <2>2, <2>4, <2>5 DEF Sends
  <2> QED BY <2>1, <2>3, <2>4, <2>6 DEF Founded, EscTypeInv
<1>6. ASSUME NEW h \in Handlers, Esc!NoAdminChat(h)
      PROVE  EscTypeInv' /\ \A gg \in Grounds : Founded(gg)'
  <2>1. call[h].pc = "renewing" /\ Esc!Stop(h) /\ UNCHANGED <<clock, key, answered>>
    BY <1>6 DEF Esc!NoAdminChat, Esc!At
  <2>2. EscCallOK' /\ \A i \in Handlers \ {h} : call'[i] = call[i]
    BY <2>1, EscStops
  <2>3. \A i \in Handlers, gg \in Grounds : Sends(i, gg) => Sends(i, gg)'
    BY <2>1, <2>2 DEF Sends
  <2> QED BY <2>1, <2>2, <2>3 DEF Founded, EscTypeInv
<1>7. CASE Esc!CleanUp
  <2>1. /\ key' = [g \in Grounds |-> IF key[g] <= clock THEN 0 ELSE key[g]]
        /\ UNCHANGED <<clock, call, answered>>
    BY <1>7 DEF Esc!CleanUp
  <2>2. \A g \in Grounds : key'[g] = key[g] \/ key'[g] = 0
    BY <2>1
  <2>3. \A i \in Handlers, g \in Grounds : Sends(i, g) => Sends(i, g)' \/ key'[g] = 0
    BY <2>1, <2>2 DEF Sends
  <2> QED BY <2>1, <2>2, <2>3 DEF Founded, EscTypeInv, EscCallOK
<1>8. CASE Esc!Tick
  <2>1. clock' = clock + 1 /\ UNCHANGED <<key, call, answered>>
    BY <1>8 DEF Esc!Tick
  <2>2. \A i \in Handlers, g \in Grounds : Sends(i, g) => Sends(i, g)'
    BY <2>1 DEF Sends
  <2> QED BY <2>1, <2>2 DEF Founded, EscTypeInv, EscCallOK
<1>9. CASE UNCHANGED Esc!escalationVars
  BY <1>9 DEF Esc!escalationVars, Founded, Sends, EscTypeInv, EscCallOK
<1> QED BY <1>1, <1>2, <1>3, <1>4, <1>5, <1>6, <1>7, <1>8, <1>9 DEF Esc!Next

\* admin-escalation.ts: while a row silences a ground, a human was called, or is being
\* called, under that very row - with any number of handlers that renew, take and give
\* back the row over each other, a cleanup at any moment and any number of faults.
THEOREM SilenceStaysFounded ==
    ASSUME EscTypes
    PROVE  ServicesSpec => []SilenceIsFounded
<1> DEFINE Inv == EscTypeInv /\ \A g \in Grounds : Founded(g)
<1>1. Esc!Init => Inv
  BY EscInit, FoundedIsFounded
<1>2. Inv /\ [Esc!Next]_(Esc!escalationVars) => Inv'
  BY EscStep
<1> QED BY <1>1, <1>2, FoundedIsFounded, SideBySide, PTL DEF Esc!Spec, SilenceIsFounded

-----------------------------------------------------------------------------
(* YandexUnits: how far the reserve is eaten into.                          *)

UnitsTypes ==
    /\ IsFiniteSet(Jobs)
    /\ MaxConcurrent \in Nat \ {0} /\ Attempts \in Nat \ {0}
    /\ Reserve \in Nat /\ Cost \in Nat /\ ErrorCost \in Nat /\ Hourly \in Nat /\ MaxFaults \in Nat
    /\ Daily \in Nat /\ Reserve <= Daily

\* Calls in flight: not served yet, answered with enough left, answered with too little.
Sent == {j \in Jobs : unitCall[j].pc = "sent"}
High == {j \in Jobs : unitCall[j].pc = "answered" /\ unitCall[j].left >= Reserve}
Low == {j \in Jobs : unitCall[j].pc = "answered" /\ unitCall[j].left < Reserve}

\* Twice the calls that can still be served while the units are below the reserve, if
\* nothing is lost: the places that are free or will be, then, for every high answer that
\* is yet to be heard, the places it lets calls out into.
Rounds(high) == 2 * MaxConcurrent * high - high * high + high
OpenCalls(high, low) == 2 * (MaxConcurrent - high - low) + Rounds(high)
ShutCalls(sent, high) == 2 * sent + Rounds(high)

Free == known = -1 \/ known >= Reserve
ToCome == IF Free THEN OpenCalls(Cardinality(High), Cardinality(Low))
          ELSE ShutCalls(Cardinality(Sent), Cardinality(High))

\* With b units, twice the calls that may have been served below the reserve are e.
Within(b, e) == 2 * b + Cost * e >= 2 * Reserve
\* With b units, after f faults and t calls (twice) to come: no more was lost than what
\* the calls cost that may have been served below the reserve so far.
AllCalls(f) == MaxConcurrent * (MaxConcurrent + 1) + 2 * (f * MaxConcurrent)
Kept(b, f, t) == Within(b, AllCalls(f) - t)

FlightInv == Cardinality(Sent) + Cardinality(High) + Cardinality(Low) <= MaxConcurrent
ReserveInv == FlightInv /\ Kept(balance, unitFaults, ToCome)

LEMMA MulLe == ASSUME NEW c \in Nat, NEW a \in Int, NEW b \in Int, a <= b PROVE c * a <= c * b
  <1>1. PICK d \in Nat : b = a + d
    <2>1. b - a \in Nat /\ b = a + (b - a)
      OBVIOUS
    <2> QED BY <2>1
  <1>2. c * b = c * a + c * d
    BY <1>1
  <1>3. c * d \in Nat /\ c * a \in Int
    BY <1>1
  <1> QED BY <1>2, <1>3

LEMMA MulNat == ASSUME NEW a \in Nat, NEW b \in Nat PROVE a * b \in Nat
  OBVIOUS

\* What is to come is never less than nothing, and never more than all the rounds.
LEMMA ToComeBounds ==
    ASSUME UnitsTypes, NEW s \in Nat, NEW h \in Nat, NEW l \in Nat, s + h + l <= MaxConcurrent
    PROVE  /\ OpenCalls(h, l) \in Nat /\ ShutCalls(s, h) \in Nat
           /\ ShutCalls(s, h) <= OpenCalls(h, l)
           /\ OpenCalls(h, l) <= MaxConcurrent * (MaxConcurrent + 1)
<1>1. PICK d \in Nat : MaxConcurrent = h + d /\ s + l <= d
  <2>1. MaxConcurrent - h \in Nat /\ MaxConcurrent = h + (MaxConcurrent - h) /\ s + l <= MaxConcurrent - h
    BY DEF UnitsTypes
  <2> QED BY <2>1
<1>2. h * d \in Nat /\ h * h \in Nat /\ d * d \in Nat /\ d <= d * d
  <2>1. h * d \in Nat /\ h * h \in Nat /\ d * d \in Nat
    BY <1>1
  <2>2. CASE d = 0
    BY <2>1, <2>2
  <2>3. CASE d >= 1
    <3>1. d * 1 <= d * d
      BY <1>1, <2>3, MulLe
    <3> QED BY <1>1, <2>1, <3>1
  <2> QED BY <1>1, <2>1, <2>2, <2>3
<1>3. Rounds(h) = h * h + 2 * (h * d) + h
  <2>1. 2 * (h + d) * h - h * h + h = h * h + 2 * (h * d) + h
    BY <1>1
  <2> QED BY <1>1, <2>1 DEF Rounds
<1>4. OpenCalls(h, l) = 2 * d - 2 * l + h * h + 2 * (h * d) + h
  BY <1>1, <1>2, <1>3 DEF OpenCalls
<1>5. ShutCalls(s, h) = 2 * s + h * h + 2 * (h * d) + h
  BY <1>2, <1>3 DEF ShutCalls
<1>6. MaxConcurrent * (MaxConcurrent + 1) = h * h + 2 * (h * d) + d * d + h + d
  <2>1. (h + d) * ((h + d) + 1) = h * h + 2 * (h * d) + d * d + h + d
    BY <1>1
  <2> QED BY <1>1, <2>1
<1> QED BY <1>1, <1>2, <1>4, <1>5, <1>6

\* A high answer that goes takes away at least what it frees.
LEMMA HighGoes ==
    ASSUME UnitsTypes, NEW s \in Nat, NEW h \in Nat, NEW l \in Nat, s + h + l <= MaxConcurrent, h > 0
    PROVE  /\ OpenCalls(h - 1, l) <= OpenCalls(h, l)
           /\ OpenCalls(h - 1, l) <= ShutCalls(s, h)
           /\ ShutCalls(s, h - 1) <= ShutCalls(s, h)
<1>1. 2 * MaxConcurrent * (h - 1) - (h - 1) * (h - 1) + (h - 1)
        = 2 * MaxConcurrent * h - h * h + h - 2 * MaxConcurrent + 2 * h - 2
  BY DEF UnitsTypes
<1>2. Rounds(h - 1) = Rounds(h) - 2 * MaxConcurrent + 2 * h - 2
  BY <1>1 DEF Rounds, UnitsTypes
<1>3. Rounds(h) \in Int /\ MaxConcurrent \in Nat
  BY DEF Rounds, UnitsTypes
<1> QED BY <1>2, <1>3 DEF OpenCalls, ShutCalls

\* A step that serves nothing, and one that serves a call.
LEMMA SpentGrows ==
    ASSUME UnitsTypes, NEW b \in Nat, NEW bb \in Nat, NEW e \in Int, NEW ee \in Int,
           Within(b, e),
           (b <= bb /\ e <= ee) \/ (b <= bb + Cost /\ e + 2 <= ee) \/ (bb >= Reserve /\ ee >= 0)
    PROVE  Within(bb, ee)
<1>1. Cost \in Nat /\ Reserve \in Nat /\ Cost * e \in Int /\ Cost * ee \in Int
  BY DEF UnitsTypes
<1>2. CASE b <= bb /\ e <= ee
  <2>1. Cost * e <= Cost * ee
    BY <1>1, <1>2, MulLe
  <2> QED BY <1>1, <1>2, <2>1 DEF Within
<1>3. CASE b <= bb + Cost /\ e + 2 <= ee
  <2>1. Cost * (e + 2) <= Cost * ee
    BY <1>1, <1>3, MulLe
  <2>2. Cost * (e + 2) = Cost * e + 2 * Cost
    BY <1>1
  <2> QED BY <1>1, <1>3, <2>1, <2>2 DEF Within
<1>4. CASE bb >= Reserve /\ ee >= 0
  <2>1. Cost * 0 <= Cost * ee
    BY <1>1, <1>4, MulLe
  <2> QED BY <1>1, <1>4, <2>1 DEF Within
<1> QED BY <1>2, <1>3, <1>4

LEMMA JobsCount ==
    ASSUME UnitsTypes, NEW T, T \subseteq Jobs
    PROVE  IsFiniteSet(T) /\ Cardinality(T) \in Nat
  BY FS_Subset, FS_CardinalityType DEF UnitsTypes

LEMMA SetsCount ==
    ASSUME UnitsTypes
    PROVE  /\ IsFiniteSet(Sent) /\ IsFiniteSet(High) /\ IsFiniteSet(Low)
           /\ Cardinality(Sent) \in Nat /\ Cardinality(High) \in Nat /\ Cardinality(Low) \in Nat
<1>1. Sent \subseteq Jobs /\ High \subseteq Jobs /\ Low \subseteq Jobs
  BY DEF Sent, High, Low
<1> QED BY <1>1, JobsCount

LEMMA SetsCountNext ==
    ASSUME UnitsTypes
    PROVE  Cardinality(Sent') \in Nat /\ Cardinality(High') \in Nat /\ Cardinality(Low') \in Nat
<1>1. Sent' \subseteq Jobs /\ High' \subseteq Jobs /\ Low' \subseteq Jobs
  BY DEF Sent, High, Low
<1> QED BY <1>1, JobsCount

\* YandexUnits counts with the same operator.
LEMMA SameCardinality == \A T : Units!Cardinality(T) = Cardinality(T)
  BY DEF Units!Cardinality, Cardinality

\* Every call in flight is counted once.
LEMMA FlightCount ==
    ASSUME UnitsTypes, Units!TypeOK
    PROVE  Cardinality(Units!InFlight) = Cardinality(Sent) + Cardinality(High) + Cardinality(Low)
<1>1. \A j \in Jobs : unitCall[j].left \in Int
  <2>1. \A j \in Jobs : unitCall[j].left \in 0 .. Daily
    BY DEF Units!TypeOK
  <2> QED BY <2>1 DEF UnitsTypes
<1>2. Units!InFlight = (Sent \cup High) \cup Low /\ Sent \cap High = {} /\ (Sent \cup High) \cap Low = {}
  BY <1>1 DEF Units!InFlight, Sent, High, Low, UnitsTypes
<1>3. IsFiniteSet(Sent \cup High) /\ Cardinality(Sent \cup High) = Cardinality(Sent) + Cardinality(High)
  <2>1. /\ IsFiniteSet(Sent \cup High)
        /\ Cardinality(Sent \cup High) = Cardinality(Sent) + Cardinality(High) - Cardinality(Sent \cap High)
    BY SetsCount, FS_Union
  <2>2. Cardinality(Sent \cap High) = 0
    BY <1>2, FS_EmptySet, Zenon
  <2> QED BY <2>1, <2>2, SetsCount
<1>4. Cardinality((Sent \cup High) \cup Low) = Cardinality(Sent \cup High) + Cardinality(Low)
  <2>1. Cardinality((Sent \cup High) \cup Low)
          = Cardinality(Sent \cup High) + Cardinality(Low) - Cardinality((Sent \cup High) \cap Low)
    BY <1>3, SetsCount, FS_Union
  <2>2. Cardinality((Sent \cup High) \cap Low) = 0
    BY <1>2, FS_EmptySet, Zenon
  <2> QED BY <1>3, <2>1, <2>2, SetsCount
<1> QED BY <1>2, <1>3, <1>4

LEMMA SpentLinear ==
    ASSUME NEW b \in Nat, NEW bb \in Nat, NEW f \in Nat, NEW ff \in Nat, NEW t \in Nat, NEW tt \in Nat,
           NEW all \in Nat, NEW g \in Nat, NEW gg \in Nat, NEW c \in Nat, NEW m \in Nat, NEW r \in Nat,
           ff = f => gg = g, ff = f + 1 => gg = g + m, tt <= all,
           \/ b <= bb /\ ff = f /\ tt <= t
           \/ b <= bb /\ ff = f + 1 /\ tt <= t + 2 * m
           \/ b <= bb + c /\ ff = f /\ tt + 2 <= t
           \/ bb >= r
    PROVE  \E e \in Int, ee \in Int :
               /\ e = all + 2 * g - t /\ ee = all + 2 * gg - tt
               /\ (b <= bb /\ e <= ee) \/ (b <= bb + c /\ e + 2 <= ee) \/ (bb >= r /\ ee >= 0)
<1>1. /\ all + 2 * g - t \in Int /\ all + 2 * gg - tt \in Int
      /\ \/ b <= bb /\ all + 2 * g - t <= all + 2 * gg - tt
         \/ b <= bb + c /\ (all + 2 * g - t) + 2 <= all + 2 * gg - tt
         \/ bb >= r /\ all + 2 * gg - tt >= 0
  OBVIOUS
<1> QED BY <1>1

\* What a step may do to the units and to what is still to come.
LEMMA SpentMoves ==
    ASSUME UnitsTypes, NEW b \in Nat, NEW bb \in Nat, NEW f \in Nat, NEW ff \in Nat, NEW t \in Nat, NEW tt \in Nat,
           tt <= MaxConcurrent * (MaxConcurrent + 1), Kept(b, f, t),
           \/ b <= bb /\ ff = f /\ tt <= t
           \/ b <= bb /\ ff = f + 1 /\ tt <= t + 2 * MaxConcurrent
           \/ b <= bb + Cost /\ ff = f /\ tt + 2 <= t
           \/ bb >= Reserve
    PROVE  Kept(bb, ff, tt)
<1>1. MaxConcurrent \in Nat /\ Cost \in Nat /\ Reserve \in Nat
  BY DEF UnitsTypes
<1>2. PICK all \in Nat : all = MaxConcurrent * (MaxConcurrent + 1)
  BY <1>1, MulNat
<1>3. PICK g \in Nat : g = f * MaxConcurrent
  BY <1>1, MulNat
<1>4. PICK gg \in Nat : gg = ff * MaxConcurrent
  BY <1>1, MulNat
<1>5. ff = f => gg = g
  BY <1>3, <1>4
<1>6. ff = f + 1 => gg = g + MaxConcurrent
  <2>1. (f + 1) * MaxConcurrent = f * MaxConcurrent + MaxConcurrent
    BY <1>1
  <2> QED BY <1>3, <1>4, <2>1
<1>7. PICK e \in Int, ee \in Int :
        /\ e = all + 2 * g - t /\ ee = all + 2 * gg - tt
        /\ (b <= bb /\ e <= ee) \/ (b <= bb + Cost /\ e + 2 <= ee) \/ (bb >= Reserve /\ ee >= 0)
  BY <1>1, <1>2, <1>5, <1>6, SpentLinear
<1>8. Within(b, e)
  BY <1>2, <1>3, <1>7 DEF Kept, AllCalls
<1>9. Within(bb, ee)
  BY <1>7, <1>8, SpentGrows
<1> QED BY <1>2, <1>4, <1>7, <1>9 DEF Kept, AllCalls

LEMMA ReserveKept ==
    ASSUME UnitsTypes, ReserveInv, FlightInv',
           balance \in Nat, balance' \in Nat, unitFaults \in Nat, unitFaults' \in Nat,
           \/ balance <= balance' /\ unitFaults' = unitFaults /\ ToCome' <= ToCome
           \/ balance <= balance' /\ unitFaults' = unitFaults + 1 /\ ToCome' <= ToCome + 2 * MaxConcurrent
           \/ balance <= balance' + Cost /\ unitFaults' = unitFaults /\ ToCome' + 2 <= ToCome
           \/ balance' >= Reserve
    PROVE  ReserveInv'
<1>1. MaxConcurrent \in Nat
  BY DEF UnitsTypes
<1>2. ToCome \in Nat
  <2>1. /\ OpenCalls(Cardinality(High), Cardinality(Low)) \in Nat
        /\ ShutCalls(Cardinality(Sent), Cardinality(High)) \in Nat
    BY SetsCount, ToComeBounds DEF ReserveInv, FlightInv
  <2> QED BY <2>1 DEF ToCome
<1>3. ToCome' \in Nat /\ ToCome' <= MaxConcurrent * (MaxConcurrent + 1)
  <2>1. /\ OpenCalls(Cardinality(High'), Cardinality(Low')) \in Nat
        /\ ShutCalls(Cardinality(Sent'), Cardinality(High')) \in Nat
        /\ ShutCalls(Cardinality(Sent'), Cardinality(High')) <= OpenCalls(Cardinality(High'), Cardinality(Low'))
        /\ OpenCalls(Cardinality(High'), Cardinality(Low')) <= MaxConcurrent * (MaxConcurrent + 1)
    BY SetsCountNext, ToComeBounds DEF FlightInv
  <2>2. \/ ToCome' = OpenCalls(Cardinality(High'), Cardinality(Low'))
        \/ ToCome' = ShutCalls(Cardinality(Sent'), Cardinality(High'))
    BY DEF ToCome, OpenCalls, ShutCalls, Rounds
  <2>3. MaxConcurrent * (MaxConcurrent + 1) \in Nat
    BY <1>1
  <2> QED BY <2>1, <2>2, <2>3
<1>4. Kept(balance', unitFaults', ToCome')
  BY <1>2, <1>3, SpentMoves DEF ReserveInv
<1> QED BY <1>4 DEF ReserveInv

UnitsCalls == [pc : {"none", "queued", "sent", "answered"}, attempt : 0 .. Attempts,
               answer : {"none", "result", "out of units"}, left : 0 .. Daily]

LEMMA UnitsTypeInit == UnitsTypes /\ Units!Init => Units!TypeOK
  BY DEF UnitsTypes, Units!Init, Units!TypeOK, Units!NoCall, Units!Unheard

\* The balance after a call that was served.
LEMMA ServedBalance ==
    ASSUME UnitsTypes, Units!TypeOK, NEW j \in Jobs, Units!Serve(j)
    PROVE  /\ balance' \in 0 .. Daily /\ balance <= balance' + Cost
           /\ \E answer \in {"result", "out of units"} :
                unitCall' = [unitCall EXCEPT ![j] = [unitCall[j] EXCEPT !.pc = "answered", !.left = balance', !.answer = answer]]
<1> DEFINE paid == balance >= Cost
<1>1. /\ balance' = IF paid THEN balance - Cost ELSE IF balance >= ErrorCost THEN balance - ErrorCost ELSE 0
      /\ unitCall' = [unitCall EXCEPT ![j] = [unitCall[j] EXCEPT !.pc = "answered", !.left = balance',
                                          !.answer = IF paid THEN "result" ELSE "out of units"]]
  BY DEF Units!Serve
<1>2. balance \in 0 .. Daily
  BY DEF Units!TypeOK
<1>3. balance' \in 0 .. Daily /\ balance <= balance' + Cost
  BY <1>1, <1>2 DEF UnitsTypes
<1> QED BY <1>1, <1>3

LEMMA QueuedCall ==
    ASSUME NEW n
    PROVE  [Units!NoCall EXCEPT !.pc = "queued", !.attempt = n]
             = [pc |-> "queued", attempt |-> n, answer |-> "none", left |-> 0]
<1>1. [Units!NoCall EXCEPT !.pc = "queued"] = [pc |-> "queued", attempt |-> 0, answer |-> "none", left |-> 0]
  BY DEF Units!NoCall
<1>2. [[pc |-> "queued", attempt |-> 0, answer |-> "none", left |-> 0] EXCEPT !.attempt = n]
        = [pc |-> "queued", attempt |-> n, answer |-> "none", left |-> 0]
  OBVIOUS
<1>3. [Units!NoCall EXCEPT !.pc = "queued", !.attempt = n] = [[Units!NoCall EXCEPT !.pc = "queued"] EXCEPT !.attempt = n]
  BY Zenon
<1> QED BY <1>1, <1>2, <1>3

LEMMA UnitsTypeStep ==
    ASSUME UnitsTypes, Units!TypeOK, [Units!Next]_(Units!unitVars)
    PROVE  Units!TypeOK'
<1>0. /\ balance \in 0 .. Daily /\ known \in {-1} \cup 0 .. Daily /\ unitCall \in [Jobs -> UnitsCalls]
      /\ unitWork \in [Jobs -> {"none", "asked", "done"}] /\ unitFaults \in 0 .. MaxFaults
      /\ Units!NoCall \in UnitsCalls
  <2>1. Units!NoCall \in UnitsCalls
    BY DEF UnitsCalls, Units!NoCall, UnitsTypes
  <2> QED BY <2>1 DEF Units!TypeOK, Units!Unheard, UnitsCalls
<1>1. ASSUME NEW j \in Jobs, Units!Ask(j) PROVE Units!TypeOK'
  <2>1. /\ unitWork' = [unitWork EXCEPT ![j] = "asked"]
        /\ unitCall' = [unitCall EXCEPT ![j] = [pc |-> "queued", attempt |-> 1, answer |-> "none", left |-> 0]]
        /\ UNCHANGED <<balance, known, unitFaults>>
    BY <1>1, QueuedCall DEF Units!Ask
  <2>2. [pc |-> "queued", attempt |-> 1, answer |-> "none", left |-> 0] \in UnitsCalls
    BY DEF UnitsCalls, UnitsTypes
  <2>3. unitCall' \in [Jobs -> UnitsCalls]
    BY <1>0, <2>1, <2>2
  <2> QED BY <1>0, <2>1, <2>3 DEF Units!TypeOK, Units!Unheard, UnitsCalls
<1>2. ASSUME NEW j \in Jobs, Units!Refuse(j) PROVE Units!TypeOK'
  <2>1. unitCall' \in [Jobs -> UnitsCalls]
    BY <1>0, <1>2 DEF Units!Refuse
  <2> QED BY <1>0, <1>2, <2>1 DEF Units!Refuse, Units!TypeOK, Units!Unheard, UnitsCalls
<1>3. ASSUME NEW j \in Jobs, Units!Send(j) PROVE Units!TypeOK'
  <2>1. unitCall' \in [Jobs -> UnitsCalls]
    BY <1>0, <1>3 DEF Units!Send, UnitsCalls
  <2> QED BY <1>0, <1>3, <2>1 DEF Units!Send, Units!TypeOK, Units!Unheard, UnitsCalls
<1>4. ASSUME NEW j \in Jobs, Units!Serve(j) PROVE Units!TypeOK'
  <2>1. PICK answer \in {"result", "out of units"} :
          unitCall' = [unitCall EXCEPT ![j] = [unitCall[j] EXCEPT !.pc = "answered", !.left = balance', !.answer = answer]]
    BY <1>4, ServedBalance
  <2>2. balance' \in 0 .. Daily /\ UNCHANGED <<known, unitWork, unitFaults>>
    BY <1>4, ServedBalance DEF Units!Serve
  <2>3. unitCall' \in [Jobs -> UnitsCalls]
    BY <1>0, <2>1, <2>2 DEF UnitsCalls
  <2> QED BY <1>0, <2>2, <2>3 DEF Units!TypeOK, Units!Unheard, UnitsCalls
<1>5. ASSUME NEW j \in Jobs, Units!Hear(j) PROVE Units!TypeOK'
  <2>1. unitCall' \in [Jobs -> UnitsCalls]
    BY <1>0, <1>5 DEF Units!Hear
  <2>2. known' \in 0 .. Daily
    BY <1>0, <1>5 DEF Units!Hear, UnitsCalls
  <2>3. unitWork' \in [Jobs -> {"none", "asked", "done"}]
    BY <1>0, <1>5 DEF Units!Hear
  <2> QED BY <1>0, <1>5, <2>1, <2>2, <2>3 DEF Units!Hear, Units!TypeOK, Units!Unheard, UnitsCalls
<1>6. ASSUME NEW j \in Jobs, Units!LoseAnswer(j) PROVE Units!TypeOK'
  <2>1. unitFaults' \in 0 .. MaxFaults /\ UNCHANGED <<balance, known, unitWork>>
    BY <1>0, <1>6 DEF Units!LoseAnswer, Units!Fault, UnitsTypes
  <2>2. unitCall[j].attempt \in 0 .. Attempts
    BY <1>0 DEF UnitsCalls
  <2>3. unitCall[j].attempt < Attempts =>
          [pc |-> "queued", attempt |-> unitCall[j].attempt + 1, answer |-> "none", left |-> 0] \in UnitsCalls
    BY <2>2 DEF UnitsCalls, UnitsTypes
  <2>4. unitCall' = [unitCall EXCEPT ![j] = IF unitCall[j].attempt < Attempts
            THEN [pc |-> "queued", attempt |-> unitCall[j].attempt + 1, answer |-> "none", left |-> 0]
            ELSE Units!NoCall]
    BY <1>6, QueuedCall DEF Units!LoseAnswer
  <2>5. unitCall' \in [Jobs -> UnitsCalls]
    BY <1>0, <2>3, <2>4
  <2> QED BY <1>0, <2>1, <2>5 DEF Units!TypeOK, Units!Unheard, UnitsCalls
<1>7. CASE Units!Restart
  <2>1. unitCall' \in [Jobs -> UnitsCalls] /\ known' = -1
    BY <1>0, <1>7 DEF Units!Restart, Units!Unheard
  <2>2. unitFaults' \in 0 .. MaxFaults /\ UNCHANGED <<balance, unitWork>>
    BY <1>0, <1>7 DEF Units!Restart, Units!Fault, UnitsTypes
  <2> QED BY <1>0, <2>1, <2>2 DEF Units!TypeOK, Units!Unheard, UnitsCalls
<1>8. CASE Units!Replenish
  <2>1. balance' \in 0 .. Daily
    BY <1>0, <1>8 DEF Units!Replenish, UnitsTypes
  <2> QED BY <1>0, <1>8, <2>1 DEF Units!Replenish, Units!TypeOK, Units!Unheard, UnitsCalls
<1>9. CASE UNCHANGED Units!unitVars
  BY <1>9 DEF Units!unitVars, Units!TypeOK
<1> QED BY <1>1, <1>2, <1>3, <1>4, <1>5, <1>6, <1>7, <1>8, <1>9 DEF Units!Next, Units!Step

LEMMA ToComeNext ==
    ToCome' = IF Free' THEN OpenCalls(Cardinality(High'), Cardinality(Low'))
              ELSE ShutCalls(Cardinality(Sent'), Cardinality(High'))
  BY DEF ToCome, OpenCalls, ShutCalls, Rounds

\* A step in which no call that is in flight moves.
LEMMA FlightStays ==
    ASSUME UnitsTypes, ReserveInv, balance \in Nat, balance' \in Nat, unitFaults \in Nat, unitFaults' = unitFaults,
           Sent' = Sent, High' = High, Low' = Low, known' = known, balance <= balance'
    PROVE  ReserveInv'
<1>1. ToCome' = ToCome
  BY ToComeNext DEF ToCome, Free
<1>2. ToCome \in Nat
  BY SetsCount, ToComeBounds DEF ReserveInv, FlightInv, ToCome
<1>3. FlightInv'
  BY DEF ReserveInv, FlightInv
<1> QED BY <1>1, <1>2, <1>3, ReserveKept

\* One call changes, the others stay where they are.
LEMMA OneCall ==
    ASSUME Units!TypeOK, NEW j \in Jobs, NEW c, unitCall' = [unitCall EXCEPT ![j] = c]
    PROVE  unitCall'[j] = c /\ \A i \in Jobs \ {j} : unitCall'[i] = unitCall[i]
  BY DEF Units!TypeOK

LEMMA IdleCalls ==
    /\ Units!NoCall.pc = "none"
    /\ \A n : [Units!NoCall EXCEPT !.pc = "queued", !.attempt = n].pc = "queued"
<1>1. Units!NoCall.pc = "none"
  BY DEF Units!NoCall
<1>2. ASSUME NEW n
      PROVE  [Units!NoCall EXCEPT !.pc = "queued", !.attempt = n].pc = "queued"
  BY QueuedCall
<1> QED BY <1>1, <1>2

LEMMA SentCall ==
    ASSUME Units!TypeOK, NEW j \in Jobs, Units!Send(j)
    PROVE  unitCall'[j].pc = "sent" /\ \A i \in Jobs \ {j} : unitCall'[i] = unitCall[i]
<1>1. unitCall \in [Jobs -> UnitsCalls]
  BY DEF Units!TypeOK, UnitsCalls
<1> QED BY <1>1 DEF Units!Send, UnitsCalls

LEMMA ServedCall ==
    ASSUME UnitsTypes, Units!TypeOK, NEW j \in Jobs, Units!Serve(j)
    PROVE  unitCall'[j].pc = "answered" /\ unitCall'[j].left = balance' /\ \A i \in Jobs \ {j} : unitCall'[i] = unitCall[i]
<1>1. unitCall \in [Jobs -> UnitsCalls]
  BY DEF Units!TypeOK, UnitsCalls
<1>2. PICK answer : unitCall' = [unitCall EXCEPT ![j] = [unitCall[j] EXCEPT !.pc = "answered", !.left = balance', !.answer = answer]]
  BY ServedBalance
<1> QED BY <1>1, <1>2 DEF UnitsCalls

LEMMA ReserveStep ==
    ASSUME UnitsTypes, Units!TypeOK, Units!TypeOK', ReserveInv, [Units!Next]_(Units!unitVars)
    PROVE  ReserveInv'
<1> DEFINE S == Cardinality(Sent)
           H == Cardinality(High)
           L == Cardinality(Low)
<1>0. /\ balance \in Nat /\ balance' \in Nat /\ unitFaults \in Nat /\ unitFaults' \in Nat
      /\ MaxConcurrent \in Nat /\ 1 <= MaxConcurrent /\ Reserve \in Nat /\ Cost \in Nat
      /\ \A j \in Jobs : unitCall[j].left \in Nat
  <2>1. \A j \in Jobs : unitCall[j].left \in 0 .. Daily
    BY DEF Units!TypeOK
  <2>2. balance \in 0 .. Daily /\ unitFaults \in 0 .. MaxFaults /\ balance' \in 0 .. Daily /\ unitFaults' \in 0 .. MaxFaults
    BY DEF Units!TypeOK
  <2> QED BY <2>1, <2>2 DEF UnitsTypes
<1>00. /\ S \in Nat /\ H \in Nat /\ L \in Nat /\ S + H + L <= MaxConcurrent
       /\ OpenCalls(H, L) \in Nat /\ ShutCalls(S, H) \in Nat /\ ShutCalls(S, H) <= OpenCalls(H, L)
       /\ IsFiniteSet(Sent) /\ IsFiniteSet(High) /\ IsFiniteSet(Low)
  BY SetsCount, ToComeBounds DEF ReserveInv, FlightInv
<1>1. ASSUME NEW j \in Jobs, Units!Ask(j) \/ Units!Refuse(j) PROVE ReserveInv'
  <2>1. PICK c : unitCall' = [unitCall EXCEPT ![j] = c] /\ c.pc \in {"none", "queued"}
    BY <1>1, IdleCalls DEF Units!Ask, Units!Refuse
  <2>2. unitCall[j].pc \in {"none", "queued"} /\ UNCHANGED <<balance, known, unitFaults>>
    BY <1>1 DEF Units!Ask, Units!Refuse
  <2>3. unitCall'[j] = c /\ \A i \in Jobs \ {j} : unitCall'[i] = unitCall[i]
    BY <2>1, OneCall
  <2>4. Sent' = Sent /\ High' = High /\ Low' = Low
    BY <2>1, <2>2, <2>3 DEF Sent, High, Low
  <2> QED BY <1>0, <2>2, <2>4, FlightStays
<1>2. ASSUME NEW j \in Jobs, Units!Send(j) PROVE ReserveInv'
  <2>1. /\ unitCall[j].pc = "queued" /\ Units!UnitsAvailable(j)
        /\ Cardinality(Units!InFlight) < MaxConcurrent /\ UNCHANGED <<balance, known, unitFaults>>
    BY <1>2, SameCardinality DEF Units!Send
  <2>2. unitCall'[j].pc = "sent" /\ \A i \in Jobs \ {j} : unitCall'[i] = unitCall[i]
    BY <1>2, SentCall
  <2>3. Sent' = Sent \cup {j} /\ j \notin Sent /\ High' = High /\ Low' = Low
    BY <2>1, <2>2 DEF Sent, High, Low
  <2>4. Cardinality(Sent') = S + 1
    BY <1>00, <2>3, FS_AddElement
  <2>5. FlightInv'
    BY <1>0, <1>00, <2>1, <2>3, <2>4, FlightCount DEF FlightInv
  <2>6. ToCome' = ToCome
    <3>1. Free /\ Free'
      BY <2>1 DEF Free, Units!UnitsAvailable, Units!Unheard
    <3> QED BY <2>3, <3>1, ToComeNext DEF ToCome
  <2>7. ToCome \in Nat
    BY <1>00 DEF ToCome
  <2> QED BY <1>0, <2>1, <2>5, <2>6, <2>7, ReserveKept
<1>3. ASSUME NEW j \in Jobs, Units!Serve(j) PROVE ReserveInv'
  <2>2. balance <= balance' + Cost /\ unitCall[j].pc = "sent" /\ UNCHANGED <<known, unitFaults>>
    BY <1>3, ServedBalance DEF Units!Serve
  <2>3. unitCall'[j].pc = "answered" /\ unitCall'[j].left = balance' /\ \A i \in Jobs \ {j} : unitCall'[i] = unitCall[i]
    BY <1>3, ServedCall
  <2>4. Sent' = Sent \ {j} /\ j \in Sent /\ j \notin High /\ j \notin Low
    BY <2>2, <2>3 DEF Sent, High, Low
  <2>5. Cardinality(Sent') = S - 1 /\ S - 1 \in Nat
    <3>1. Cardinality(Sent') = S - 1
      BY <1>00, <2>4, FS_RemoveElement
    <3> QED BY <3>1, SetsCountNext
  <2>6. CASE balance' >= Reserve
    <3>1. High' = High \cup {j} /\ Low' = Low
      BY <1>0, <2>2, <2>3, <2>6 DEF High, Low
    <3>2. Cardinality(High') = H + 1
      BY <1>00, <2>4, <3>1, FS_AddElement
    <3>3. FlightInv'
      BY <1>0, <1>00, <2>5, <3>1, <3>2 DEF FlightInv
    <3> QED BY <1>0, <2>6, <3>3, ReserveKept
  <2>7. CASE balance' < Reserve
    <3>1. High' = High /\ Low' = Low \cup {j}
      BY <1>0, <2>2, <2>3, <2>7 DEF High, Low
    <3>2. Cardinality(Low') = L + 1
      BY <1>00, <2>4, <3>1, FS_AddElement
    <3>3. FlightInv'
      BY <1>0, <1>00, <2>5, <3>1, <3>2 DEF FlightInv
    <3>4. Free' = Free
      BY <2>2 DEF Free
    <3>5. OpenCalls(H, L + 1) + 2 = OpenCalls(H, L)
      <4>1. Rounds(H) \in Int
        BY <1>0, <1>00 DEF Rounds
      <4> QED BY <1>0, <1>00, <4>1 DEF OpenCalls
    <3>6. ShutCalls(S - 1, H) + 2 = ShutCalls(S, H)
      <4>1. Rounds(H) \in Int
        BY <1>0, <1>00 DEF Rounds
      <4> QED BY <1>0, <1>00, <4>1 DEF ShutCalls
    <3>7. ToCome' + 2 <= ToCome
      <4>1. CASE Free
        BY <4>1, <1>00, <3>1, <3>2, <3>4, <3>5, ToComeNext DEF ToCome
      <4>2. CASE ~Free
        BY <4>2, <1>00, <2>5, <3>1, <3>4, <3>6, ToComeNext DEF ToCome
      <4> QED BY <4>1, <4>2
    <3> QED BY <1>0, <2>2, <3>3, <3>7, ReserveKept
  <2> QED BY <1>0, <2>6, <2>7
<1>4. ASSUME NEW j \in Jobs, Units!Hear(j) \/ Units!LoseAnswer(j), unitCall[j].left >= Reserve PROVE ReserveInv'
  <2>1. PICK c : unitCall' = [unitCall EXCEPT ![j] = c] /\ c.pc \in {"none", "queued"}
    BY <1>4, IdleCalls DEF Units!Hear, Units!LoseAnswer
  <2>2. /\ unitCall[j].pc = "answered" /\ balance' = balance
        /\ \/ unitFaults' = unitFaults /\ known' = unitCall[j].left
           \/ unitFaults' = unitFaults + 1 /\ known' = known
    BY <1>4 DEF Units!Hear, Units!LoseAnswer, Units!Fault
  <2>3. unitCall'[j] = c /\ \A i \in Jobs \ {j} : unitCall'[i] = unitCall[i]
    BY <2>1, OneCall
  <2>4. Sent' = Sent /\ High' = High \ {j} /\ Low' = Low /\ j \in High
    BY <1>0, <1>4, <2>1, <2>2, <2>3 DEF Sent, High, Low
  <2>5. Cardinality(High') = H - 1 /\ H - 1 \in Nat
    <3>1. Cardinality(High') = H - 1
      BY <1>00, <2>4, FS_RemoveElement
    <3> QED BY <3>1, SetsCountNext
  <2>6. FlightInv'
    BY <1>0, <1>00, <2>4, <2>5 DEF FlightInv
  <2>7. /\ OpenCalls(H - 1, L) <= OpenCalls(H, L) /\ OpenCalls(H - 1, L) <= ShutCalls(S, H)
        /\ ShutCalls(S, H - 1) <= ShutCalls(S, H)
    BY <1>00, <2>5, HighGoes
  <2>8. OpenCalls(H - 1, L) \in Nat /\ ShutCalls(S, H - 1) \in Nat
    <3>1. S + (H - 1) + L <= MaxConcurrent
      BY <1>0, <1>00, <2>5
    <3> QED BY <1>00, <2>5, <3>1, ToComeBounds
  <2>9. Free' \/ Free' = Free
    BY <1>4, <2>2 DEF Free
  <2>10. ToCome' <= ToCome
    <3>1. CASE Free'
      BY <3>1, <1>00, <2>4, <2>5, <2>7, ToComeNext DEF ToCome
    <3>2. CASE ~Free'
      BY <3>2, <1>00, <2>4, <2>5, <2>7, <2>9, ToComeNext DEF ToCome
    <3> QED BY <3>1, <3>2
  <2>11. ToCome \in Nat /\ ToCome' \in Nat
    BY <1>00, <2>4, <2>5, <2>8, ToComeNext DEF ToCome
  <2>12. ToCome' <= ToCome + 2 * MaxConcurrent
    BY <1>0, <2>10, <2>11
  <2> QED BY <1>0, <2>2, <2>6, <2>10, <2>12, ReserveKept
<1>5. ASSUME NEW j \in Jobs, Units!Hear(j) \/ Units!LoseAnswer(j), unitCall[j].left < Reserve PROVE ReserveInv'
  <2>1. PICK c : unitCall' = [unitCall EXCEPT ![j] = c] /\ c.pc \in {"none", "queued"}
    BY <1>5, IdleCalls DEF Units!Hear, Units!LoseAnswer
  <2>2. /\ unitCall[j].pc = "answered" /\ balance' = balance
        /\ \/ unitFaults' = unitFaults /\ known' = unitCall[j].left
           \/ unitFaults' = unitFaults + 1 /\ known' = known
    BY <1>5 DEF Units!Hear, Units!LoseAnswer, Units!Fault
  <2>3. unitCall'[j] = c /\ \A i \in Jobs \ {j} : unitCall'[i] = unitCall[i]
    BY <2>1, OneCall
  <2>4. Sent' = Sent /\ High' = High /\ Low' = Low \ {j} /\ j \in Low
    BY <1>0, <1>5, <2>1, <2>2, <2>3 DEF Sent, High, Low
  <2>5. Cardinality(Low') = L - 1 /\ L - 1 \in Nat
    <3>1. Cardinality(Low') = L - 1
      BY <1>00, <2>4, FS_RemoveElement
    <3> QED BY <3>1, SetsCountNext
  <2>6. FlightInv'
    BY <1>0, <1>00, <2>4, <2>5 DEF FlightInv
  <2>7. OpenCalls(H, L - 1) = OpenCalls(H, L) + 2
    <3>1. Rounds(H) \in Int
      BY <1>0, <1>00 DEF Rounds
    <3> QED BY <1>0, <1>00, <3>1 DEF OpenCalls
  <2>8. ToCome \in Nat /\ ToCome' \in Nat
    BY <1>00, <2>4, <2>5, <2>7, ToComeNext DEF ToCome
  <2>9. CASE unitFaults' = unitFaults /\ known' = unitCall[j].left
    <3>1. ~Free'
      BY <1>0, <1>5, <2>9 DEF Free
    <3>2. ToCome' <= ToCome
      BY <3>1, <1>00, <2>4, ToComeNext DEF ToCome
    <3> QED BY <1>0, <2>2, <2>6, <2>8, <2>9, <3>2, ReserveKept
  <2>10. CASE unitFaults' = unitFaults + 1 /\ known' = known
    <3>1. Free' = Free
      BY <2>10 DEF Free
    <3>2. ToCome' <= ToCome + 2
      BY <3>1, <1>00, <2>4, <2>5, <2>7, ToComeNext DEF ToCome
    <3>3. ToCome' <= ToCome + 2 * MaxConcurrent
      BY <1>0, <2>8, <3>2
    <3> QED BY <1>0, <2>2, <2>6, <2>8, <2>10, <3>3, ReserveKept
  <2> QED BY <2>2, <2>9, <2>10
<1>6. CASE Units!Restart
  <2>1. /\ unitCall' = [j \in Jobs |-> Units!NoCall] /\ Units!NoCall.pc = "none" /\ known' = -1
        /\ balance' = balance /\ unitFaults' = unitFaults + 1
    BY <1>6 DEF Units!Restart, Units!NoCall, Units!Unheard, Units!Fault
  <2>2. Sent' = {} /\ High' = {} /\ Low' = {}
    BY <2>1 DEF Sent, High, Low
  <2>3. Cardinality(Sent') = 0 /\ Cardinality(High') = 0 /\ Cardinality(Low') = 0
    BY <2>2, FS_EmptySet, Zenon
  <2>4. FlightInv'
    BY <1>0, <2>3 DEF FlightInv
  <2>5. Free'
    BY <2>1 DEF Free
  <2>6. OpenCalls(0, 0) = 2 * MaxConcurrent
    BY <1>0 DEF OpenCalls, Rounds
  <2>7. ToCome' = 2 * MaxConcurrent
    BY <2>3, <2>5, <2>6, ToComeNext
  <2>8. ToCome \in Nat
    BY <1>00 DEF ToCome
  <2>9. ToCome' <= ToCome + 2 * MaxConcurrent
    BY <1>0, <2>7, <2>8
  <2> QED BY <1>0, <2>1, <2>4, <2>9, ReserveKept
<1>7. CASE Units!Replenish
  <2>1. UNCHANGED <<known, unitCall, unitFaults>>
    BY <1>7 DEF Units!Replenish
  <2>2. balance <= balance'
    BY <1>0, <1>7 DEF Units!Replenish, UnitsTypes
  <2>3. Sent' = Sent /\ High' = High /\ Low' = Low
    BY <2>1 DEF Sent, High, Low
  <2> QED BY <1>0, <2>1, <2>2, <2>3, FlightStays
<1>8. CASE UNCHANGED Units!unitVars
  <2>1. UNCHANGED <<balance, known, unitCall, unitFaults>>
    BY <1>8 DEF Units!unitVars
  <2>2. Sent' = Sent /\ High' = High /\ Low' = Low
    BY <2>1 DEF Sent, High, Low
  <2> QED BY <1>0, <2>1, <2>2, FlightStays
<1>9. \A j \in Jobs : unitCall[j].left >= Reserve \/ unitCall[j].left < Reserve
  BY <1>0
<1> QED BY <1>1, <1>2, <1>3, <1>4, <1>5, <1>6, <1>7, <1>8, <1>9 DEF Units!Next, Units!Step

\* Nothing is in flight and nothing was heard: all rounds are still to come.
LEMMA ReserveInit ==
    ASSUME UnitsTypes, Units!Init
    PROVE  ReserveInv
<1>1. /\ Units!NoCall.pc = "none" /\ unitCall = [j \in Jobs |-> Units!NoCall]
      /\ balance = Daily /\ known = -1 /\ unitFaults = 0
  BY DEF Units!Init, Units!NoCall, Units!Unheard
<1>2. Sent = {} /\ High = {} /\ Low = {}
  BY <1>1 DEF Sent, High, Low
<1>3. Cardinality(Sent) = 0 /\ Cardinality(High) = 0 /\ Cardinality(Low) = 0
  BY <1>2, FS_EmptySet, Zenon
<1>4. MaxConcurrent \in Nat /\ FlightInv
  BY <1>3 DEF FlightInv, UnitsTypes
<1>5. ToCome \in Nat /\ ToCome <= MaxConcurrent * (MaxConcurrent + 1)
  BY <1>1, <1>3, <1>4, ToComeBounds DEF ToCome, Free
<1>6. Kept(balance, unitFaults, ToCome)
  <2>1. PICK e \in Nat : e = AllCalls(unitFaults) - ToCome
    <3>1. MaxConcurrent * (MaxConcurrent + 1) \in Nat /\ 0 * MaxConcurrent = 0
      BY <1>4, MulNat
    <3>2. AllCalls(unitFaults) = MaxConcurrent * (MaxConcurrent + 1)
      BY <1>1, <3>1 DEF AllCalls
    <3> QED BY <1>5, <3>1, <3>2
  <2>2. Cost * e \in Nat /\ Reserve \in Nat /\ Daily \in Nat /\ Reserve <= Daily
    BY MulNat DEF UnitsTypes
  <2>3. Within(balance, e)
    BY <1>1, <2>2 DEF Within
  <2> QED BY <2>1, <2>3 DEF Kept
<1> QED BY <1>4, <1>6 DEF ReserveInv

\* Whatever is still to come, no more was spent than all rounds cost.
LEMMA ReserveMeans ==
    ASSUME UnitsTypes, Units!TypeOK, ReserveInv
    PROVE  Units!ReserveHolds
<1>1. balance \in Nat /\ unitFaults \in Nat /\ MaxConcurrent \in Nat /\ Cost \in Nat /\ Reserve \in Nat
  <2>1. balance \in 0 .. Daily /\ unitFaults \in 0 .. MaxFaults
    BY DEF Units!TypeOK
  <2> QED BY <2>1 DEF UnitsTypes
<1>2. ToCome \in Nat
  BY SetsCount, ToComeBounds DEF ReserveInv, FlightInv, ToCome
<1>3. PICK e \in Int : e = AllCalls(unitFaults)
  <2>1. MaxConcurrent * (MaxConcurrent + 1) \in Nat /\ unitFaults * MaxConcurrent \in Nat
    BY <1>1, MulNat
  <2> QED BY <2>1 DEF AllCalls
<1>4. Within(balance, e - ToCome)
  BY <1>3 DEF ReserveInv, Kept
<1>5. Cost * (e - ToCome) <= Cost * e /\ Cost * (e - ToCome) \in Int /\ Cost * e \in Int
  BY <1>1, <1>2, <1>3, MulLe
<1>6. 2 * Reserve <= 2 * balance + Cost * e
  BY <1>1, <1>4, <1>5 DEF Within
<1>7. e = MaxConcurrent * (MaxConcurrent + 1 + 2 * unitFaults)
  BY <1>1, <1>3 DEF AllCalls
<1>8. Cost * e = Cost * MaxConcurrent * (MaxConcurrent + 1 + 2 * unitFaults)
  BY <1>1, <1>7
<1> QED BY <1>1, <1>5, <1>6, <1>8 DEF Units!ReserveHolds

\* http.ts, assertUnitsAvailable: with any number of calls waiting and in flight, answers
\* heard in any order, lost and forgotten in restarts, the reserve is eaten into by no
\* more than rounds of 1, 2, ... MaxConcurrent calls and one full round for every fault.
THEOREM ReserveIsKept ==
    ASSUME UnitsTypes
    PROVE  ServicesSpec => []ReserveHolds
<1> DEFINE Inv == Units!TypeOK /\ ReserveInv
<1>1. Units!Init => Inv
  BY UnitsTypeInit, ReserveInit
<1>2. Inv /\ [Units!Next]_(Units!unitVars) => Inv'
  BY UnitsTypeStep, ReserveStep
<1>3. Inv => Units!ReserveHolds
  BY ReserveMeans
<1> QED BY <1>1, <1>2, <1>3, SideBySide, PTL DEF ReserveHolds

-----------------------------------------------------------------------------
(* Conversions: one model at rest.                                          *)

ConvRuns == [pc : {"idle", "entities", "report", "stats", "metrika", "apply", "zero"},
             todo : SUBSET Campaigns, answer : SUBSET Campaigns, shielded : SUBSET Campaigns,
             heals : SUBSET Campaigns]

ConvTypeInv ==
    /\ runs \in [Runs -> ConvRuns] /\ broken \in SUBSET Campaigns /\ starts \in Nat
    /\ DOMAIN stored = Campaigns
    /\ starts = 0 => \A i \in Runs : runs[i].pc = "idle"

\* What run i will still put into the model of Metrika, if it does not fail and nothing
\* shields it.
Covers(i, c) ==
    \/ runs[i].pc \in {"entities", "report", "stats", "metrika"}
    \/ runs[i].pc = "apply" /\ (c \in runs[i].todo \/ c \notin runs[i].answer)
    \/ runs[i].pc = "zero" /\ (c \in runs[i].todo \/ c \in runs[i].shielded \ runs[i].answer)

\* What is not in the model of Metrika is some run's to see to, or is known to be left
\* and no run that is under way will take that back.
ConvInv ==
    \A c \in Campaigns :
        \/ stored[c].source = "METRIKA" \/ starts = 0
        \/ \E i \in Runs : Covers(i, c)
        \/ c \in broken /\ \A i \in Runs : runs[i].pc # "idle" => c \notin runs[i].heals

LEMMA OfMetrikaSource == \A n : Conv!IF_!OfMetrika(n).source = "METRIKA"
  BY DEF Conv!IF_!OfMetrika

LEMMA ConvInit == Conv!Init => ConvTypeInv /\ ConvInv
<1>1. Conv!Idle \in ConvRuns /\ Conv!Idle.pc = "idle"
  BY DEF Conv!Idle, ConvRuns
<1>2. Conv!Init => ConvTypeInv
  <2> SUFFICES ASSUME Conv!Init PROVE ConvTypeInv
    OBVIOUS
  <2>1. /\ stored = [c \in Campaigns |-> Conv!Empty] /\ runs = [i \in Runs |-> Conv!Idle]
        /\ broken = {} /\ starts = 0
    BY DEF Conv!Init
  <2>2. runs \in [Runs -> ConvRuns] /\ \A i \in Runs : runs[i].pc = "idle"
    BY <1>1, <2>1
  <2>3. DOMAIN stored = Campaigns
    BY <2>1
  <2> QED BY <2>1, <2>2, <2>3 DEF ConvTypeInv
<1>3. Conv!Init => ConvInv
  BY DEF Conv!Init, ConvInv
<1> QED BY <1>2, <1>3

\* A run goes on without touching the window, and covers what it covered.
LEMMA RunGoesOn ==
    ASSUME ConvTypeInv, ConvInv, NEW i \in Runs, NEW run \in ConvRuns,
           runs' = [runs EXCEPT ![i] = run],
           run.heals = runs[i].heals, runs[i].pc # "idle",
           starts # 0,
           UNCHANGED <<stored, broken, starts>>,
           \A c \in Campaigns : Covers(i, c) => Covers(i, c)' \/ stored[c].source = "METRIKA"
    PROVE  ConvTypeInv' /\ ConvInv'
<1>1. runs'[i] = run /\ \A j \in Runs \ {i} : runs'[j] = runs[j]
  BY DEF ConvTypeInv
<1>2. ConvTypeInv'
  BY <1>1 DEF ConvTypeInv
<1>3. \A j \in Runs \ {i}, c \in Campaigns : Covers(j, c) => Covers(j, c)'
  BY <1>1 DEF Covers
<1>4. \A c \in Campaigns : (\E j \in Runs : Covers(j, c)) => (\E j \in Runs : Covers(j, c)') \/ stored[c].source = "METRIKA"
  BY <1>3
<1>5. \A j \in Runs, c \in Campaigns :
        (runs[j].pc # "idle" => c \notin runs[j].heals) => (runs'[j].pc # "idle" => c \notin runs'[j].heals)
  BY <1>1
<1> QED BY <1>2, <1>4, <1>5 DEF ConvInv

\* A run writes one row of its share into the model of Metrika.
LEMMA RowWritten ==
    ASSUME ConvTypeInv, ConvInv, NEW i \in Runs, NEW c \in Campaigns, NEW new, new.source = "METRIKA",
           runs[i].pc \in {"apply", "zero"}, starts # 0,
           stored' = [stored EXCEPT ![c] = new],
           runs' = [runs EXCEPT ![i] = [runs[i] EXCEPT !.todo = runs[i].todo \ {c}]],
           UNCHANGED <<broken, starts>>
    PROVE  ConvTypeInv' /\ ConvInv'
<1>1. /\ runs'[i] = [runs[i] EXCEPT !.todo = runs[i].todo \ {c}] /\ runs[i] \in ConvRuns
      /\ \A j \in Runs \ {i} : runs'[j] = runs[j]
  BY DEF ConvTypeInv
<1>2. /\ runs'[i] \in ConvRuns /\ runs'[i].pc = runs[i].pc /\ runs'[i].todo = runs[i].todo \ {c}
      /\ runs'[i].answer = runs[i].answer /\ runs'[i].shielded = runs[i].shielded
      /\ runs'[i].heals = runs[i].heals
  BY <1>1 DEF ConvRuns
<1>3. stored'[c].source = "METRIKA" /\ \A d \in Campaigns \ {c} : stored'[d] = stored[d]
  BY DEF ConvTypeInv
<1>4. ConvTypeInv'
  BY <1>1, <1>2 DEF ConvTypeInv
<1>5. \A j \in Runs, d \in Campaigns \ {c} : Covers(j, d) => Covers(j, d)'
  BY <1>1, <1>2 DEF Covers
<1>6. \A j \in Runs, d \in Campaigns :
        (runs[j].pc # "idle" => d \notin runs[j].heals) => (runs'[j].pc # "idle" => d \notin runs'[j].heals)
  BY <1>1, <1>2
<1> QED BY <1>3, <1>4, <1>5, <1>6 DEF ConvInv

\* A run that ends leaves no more than it says.
LEMMA RunEnds ==
    ASSUME ConvTypeInv, ConvInv, NEW i \in Runs, starts # 0, UNCHANGED <<stored, starts>>, runs[i].pc # "idle",
           NEW left \in SUBSET Campaigns, NEW audit, Conv!Ends(i, left, audit),
           \A c \in Campaigns \ left : ~Covers(i, c)
    PROVE  ConvTypeInv' /\ ConvInv'
<1>1. /\ runs' = [j \in Runs |-> IF j = i THEN Conv!Idle ELSE [runs[j] EXCEPT !.heals = runs[j].heals \ left]]
      /\ broken' = left \cup (broken \ runs[i].heals)
  BY DEF Conv!Ends
<1>2. Conv!Idle \in ConvRuns /\ Conv!Idle.pc = "idle"
  BY DEF Conv!Idle, ConvRuns
<1>3. /\ runs'[i] = Conv!Idle
      /\ \A j \in Runs \ {i} : /\ runs'[j] \in ConvRuns /\ runs'[j].pc = runs[j].pc
                               /\ runs'[j].todo = runs[j].todo /\ runs'[j].answer = runs[j].answer
                               /\ runs'[j].shielded = runs[j].shielded
                               /\ runs'[j].heals = runs[j].heals \ left
  BY <1>1 DEF ConvTypeInv, ConvRuns
<1>4. runs' = [j \in Runs |-> runs'[j]]
  BY <1>1
<1>5. broken' \in SUBSET Campaigns
  BY <1>1 DEF ConvTypeInv
<1>6. ConvTypeInv'
  BY <1>2, <1>3, <1>4, <1>5 DEF ConvTypeInv
<1>7. \A c \in left : c \in broken' /\ \A j \in Runs : runs'[j].pc # "idle" => c \notin runs'[j].heals
  BY <1>1, <1>2, <1>3
<1>8. \A c \in Campaigns \ left, j \in Runs : Covers(j, c) => Covers(j, c)'
  BY <1>3 DEF Covers
<1>9. \A c \in Campaigns :
        (c \in broken /\ \A j \in Runs : runs[j].pc # "idle" => c \notin runs[j].heals)
          => (c \in broken' /\ \A j \in Runs : runs'[j].pc # "idle" => c \notin runs'[j].heals)
  BY <1>1, <1>2, <1>3
<1> QED BY <1>6, <1>7, <1>8, <1>9 DEF ConvInv

\* A run that fails leaves the whole window.
LEMMA RunFails ==
    ASSUME ConvTypeInv, ConvInv, NEW i \in Runs, UNCHANGED <<stored, starts>>, runs[i].pc # "idle",
           NEW audit, Conv!Ends(i, Campaigns, audit)
    PROVE  ConvTypeInv' /\ ConvInv'
<1>1. starts # 0
  BY DEF ConvTypeInv
<1>2. Campaigns \in SUBSET Campaigns /\ \A c \in Campaigns \ Campaigns : ~Covers(i, c)
  OBVIOUS
<1> QED BY <1>1, <1>2, RunEnds

\* A run that is under way knows that one was started, and has a row of its type.
LEMMA UnderWay ==
    ASSUME ConvTypeInv, NEW i \in Runs, runs[i].pc # "idle"
    PROVE  starts # 0 /\ runs[i] \in ConvRuns
  BY DEF ConvTypeInv

\* Goto, with the fields a run keeps.
LEMMA RunGoes ==
    ASSUME ConvTypeInv, NEW i \in Runs, runs[i].pc # "idle",
           NEW pc \in {"entities", "report", "stats", "metrika", "apply", "zero"}, NEW todo \in SUBSET Campaigns,
           Conv!Goto(i, pc, todo)
    PROVE  \E run \in ConvRuns :
               /\ runs' = [runs EXCEPT ![i] = run]
               /\ run.pc = pc /\ run.todo = todo /\ run.answer = runs[i].answer
               /\ run.shielded = runs[i].shielded /\ run.heals = runs[i].heals
<1> DEFINE run == [runs[i] EXCEPT !.pc = pc, !.todo = todo]
<1>1. runs' = [runs EXCEPT ![i] = run]
  BY Zenon DEF Conv!Goto
<1>2. runs[i] \in ConvRuns
  BY UnderWay
<1>3. /\ run \in ConvRuns
      /\ run.pc = pc /\ run.todo = todo /\ run.answer = runs[i].answer
      /\ run.shielded = runs[i].shielded /\ run.heals = runs[i].heals
  BY <1>2 DEF ConvRuns
<1> QED BY <1>1, <1>3

\* A run that goes on to a stage before Metrika covers the whole window.
LEMMA EarlyStage ==
    ASSUME ConvTypeInv, ConvInv, NEW i \in Runs, runs[i].pc # "idle",
           NEW pc \in {"entities", "report", "stats", "metrika"}, NEW todo \in SUBSET Campaigns,
           Conv!Goto(i, pc, todo), UNCHANGED <<stored, broken, starts>>
    PROVE  ConvTypeInv' /\ ConvInv'
<1>1. PICK run \in ConvRuns :
        /\ runs' = [runs EXCEPT ![i] = run]
        /\ run.pc = pc /\ run.todo = todo /\ run.answer = runs[i].answer /\ run.heals = runs[i].heals
  BY RunGoes
<1>2. runs'[i] = run
  BY <1>1 DEF ConvTypeInv
<1>3. \A c \in Campaigns : Covers(i, c)'
  BY <1>1, <1>2 DEF Covers
<1> QED BY <1>1, <1>3, UnderWay, RunGoesOn

LEMMA ConvStep ==
    ASSUME ConvTypeInv, ConvInv, [Conv!Next]_(Conv!convVars)
    PROVE  ConvTypeInv' /\ ConvInv'
<1>1. ASSUME NEW i \in Runs, Conv!Start(i) PROVE ConvTypeInv' /\ ConvInv'
  <2> DEFINE run == [Conv!Idle EXCEPT !.pc = "entities", !.heals = Campaigns]
  <2>1. /\ runs' = [runs EXCEPT ![i] = run] /\ starts' = starts + 1 /\ runs[i].pc = "idle"
        /\ UNCHANGED <<stored, broken>>
    BY <1>1 DEF Conv!Start
  <2>2. run \in ConvRuns /\ run.pc = "entities"
    BY DEF Conv!Idle, ConvRuns
  <2>3. runs'[i] = run
    BY <2>1 DEF ConvTypeInv
  <2>4. ConvTypeInv'
    BY <2>1, <2>2 DEF ConvTypeInv
  <2>5. \A c \in Campaigns : Covers(i, c)'
    BY <2>2, <2>3 DEF Covers
  <2> QED BY <2>4, <2>5 DEF ConvInv
<1>2. ASSUME NEW i \in Runs, Conv!Throws(i) PROVE ConvTypeInv' /\ ConvInv'
  <2>1. runs[i].pc # "idle" /\ UNCHANGED <<stored, starts>> /\ starts # 0
    BY <1>2, UnderWay DEF Conv!Throws
  <2>2. \/ Conv!Goto(i, Conv!NextStage(runs[i].pc), {}) /\ UNCHANGED broken
        \/ Conv!Ends(i, Campaigns, FALSE)
    BY <1>2 DEF Conv!Throws
  <2>3. Conv!NextStage(runs[i].pc) \in {"report", "metrika"}
    BY DEF Conv!NextStage
  <2>4. CASE Conv!Goto(i, Conv!NextStage(runs[i].pc), {}) /\ UNCHANGED broken
    BY <2>1, <2>3, <2>4, EarlyStage
  <2>5. CASE Conv!Ends(i, Campaigns, FALSE)
    BY <2>1, <2>5, RunFails
  <2> QED BY <2>2, <2>4, <2>5
<1>3. ASSUME NEW i \in Runs, Conv!SyncedEntities(i) \/ Conv!StatsDone(i) PROVE ConvTypeInv' /\ ConvInv'
  <2>1. /\ runs[i].pc # "idle" /\ UNCHANGED <<stored, broken, starts>>
        /\ Conv!Goto(i, "report", {}) \/ Conv!Goto(i, "metrika", {})
    BY <1>3 DEF Conv!SyncedEntities, Conv!StatsDone
  <2> QED BY <2>1, EarlyStage
<1>4. ASSUME NEW i \in Runs, Conv!Reports(i) PROVE ConvTypeInv' /\ ConvInv'
  <2>1. PICK reported \in SUBSET Campaigns : Conv!Goto(i, "stats", reported)
    BY <1>4 DEF Conv!Reports
  <2>2. runs[i].pc # "idle" /\ UNCHANGED <<stored, broken, starts>>
    BY <1>4 DEF Conv!Reports
  <2> QED BY <2>1, <2>2, EarlyStage
<1>5. ASSUME NEW i \in Runs, NEW c \in Campaigns, Conv!WriteStat(i, c) PROVE ConvTypeInv' /\ ConvInv'
  <2>1. /\ runs[i].pc = "stats" /\ Conv!Goto(i, "stats", runs[i].todo \ {c}) /\ UNCHANGED <<broken, starts>>
        /\ \E number : stored' = [stored EXCEPT ![c] = number]
    BY <1>5 DEF Conv!WriteStat
  <2>2. runs[i] \in ConvRuns /\ starts # 0
    BY <2>1, UnderWay
  <2>3. runs[i].todo \ {c} \in SUBSET Campaigns
    BY <2>2 DEF ConvRuns
  <2>4. PICK run \in ConvRuns : runs' = [runs EXCEPT ![i] = run] /\ run.pc = "stats"
    BY <2>1, <2>3, RunGoes
  <2>5. runs'[i] = run
    BY <2>4 DEF ConvTypeInv
  <2>6. ConvTypeInv'
    BY <2>1, <2>2, <2>4 DEF ConvTypeInv
  <2>7. \A d \in Campaigns : Covers(i, d)'
    BY <2>4, <2>5 DEF Covers
  <2> QED BY <2>6, <2>7 DEF ConvInv
<1>6. ASSUME NEW i \in Runs, Conv!AsksMetrika(i) PROVE ConvTypeInv' /\ ConvInv'
  <2>1. PICK placed \in SUBSET Campaigns \ {{}}, shielded \in SUBSET Campaigns :
          runs' = [runs EXCEPT ![i].pc = "apply", ![i].todo = placed, ![i].answer = placed,
                               ![i].shielded = shielded]
    BY <1>6, Zenon DEF Conv!AsksMetrika
  <2>2. runs[i].pc # "idle" /\ UNCHANGED <<stored, broken, starts>>
    BY <1>6 DEF Conv!AsksMetrika
  <2>3. runs[i] \in ConvRuns /\ starts # 0
    BY <2>2, UnderWay
  <2> DEFINE run == [runs[i] EXCEPT !.pc = "apply", !.todo = placed, !.answer = placed, !.shielded = shielded]
  <2>4. runs' = [runs EXCEPT ![i] = run]
    BY <2>1, Zenon
  <2>5. run \in ConvRuns /\ run.pc = "apply" /\ run.todo = placed /\ run.answer = placed /\ run.heals = runs[i].heals
    BY <2>3 DEF ConvRuns
  <2>6. runs'[i] = run
    BY <2>4 DEF ConvTypeInv
  <2>7. \A c \in Campaigns : Covers(i, c)'
    BY <2>5, <2>6 DEF Covers
  <2> HIDE DEF run
  <2> QED BY <2>2, <2>3, <2>4, <2>5, <2>7, RunGoesOn
<1>7. ASSUME NEW i \in Runs, NEW c \in Campaigns, Conv!Apply(i, c) PROVE ConvTypeInv' /\ ConvInv'
  <2>1. /\ runs[i].pc = "apply" /\ (\E new : new.source = "METRIKA" /\ stored' = [stored EXCEPT ![c] = new])
        /\ Conv!Goto(i, "apply", runs[i].todo \ {c}) /\ UNCHANGED <<broken, starts>>
    BY <1>7, OfMetrikaSource DEF Conv!Apply
  <2>2. runs[i] \in ConvRuns /\ starts # 0
    BY <2>1, UnderWay
  <2>3. runs' = [runs EXCEPT ![i] = [runs[i] EXCEPT !.pc = "apply", !.todo = runs[i].todo \ {c}]]
    BY <2>1, Zenon DEF Conv!Goto
  <2>4. [runs[i] EXCEPT !.pc = "apply", !.todo = runs[i].todo \ {c}] = [runs[i] EXCEPT !.todo = runs[i].todo \ {c}]
    BY <2>1, <2>2 DEF ConvRuns
  <2>5. runs' = [runs EXCEPT ![i] = [runs[i] EXCEPT !.todo = runs[i].todo \ {c}]]
    BY <2>3, <2>4
  <2> QED BY <2>1, <2>2, <2>5, RowWritten
<1>8. ASSUME NEW i \in Runs, NEW c \in Campaigns, Conv!Zero(i, c) PROVE ConvTypeInv' /\ ConvInv'
  <2>1. /\ runs[i].pc = "zero" /\ (\E new : new.source = "METRIKA" /\ stored' = [stored EXCEPT ![c] = new])
        /\ Conv!Goto(i, "zero", runs[i].todo \ {c}) /\ UNCHANGED <<broken, starts>>
    BY <1>8, OfMetrikaSource DEF Conv!Zero
  <2>2. runs[i] \in ConvRuns /\ starts # 0
    BY <2>1, UnderWay
  <2>3. runs' = [runs EXCEPT ![i] = [runs[i] EXCEPT !.pc = "zero", !.todo = runs[i].todo \ {c}]]
    BY <2>1, Zenon DEF Conv!Goto
  <2>4. [runs[i] EXCEPT !.pc = "zero", !.todo = runs[i].todo \ {c}] = [runs[i] EXCEPT !.todo = runs[i].todo \ {c}]
    BY <2>1, <2>2 DEF ConvRuns
  <2>5. runs' = [runs EXCEPT ![i] = [runs[i] EXCEPT !.todo = runs[i].todo \ {c}]]
    BY <2>3, <2>4
  <2> QED BY <2>1, <2>2, <2>5, RowWritten
<1>9. ASSUME NEW i \in Runs, Conv!ReadsStale(i) PROVE ConvTypeInv' /\ ConvInv'
  <2> DEFINE spared == runs[i].answer \cup runs[i].shielded
             zero == {c \in Campaigns \ spared : stored[c] # Conv!IF_!OfMetrika(0)}
  <2>1. /\ runs[i].pc = "apply" /\ runs[i].todo = {} /\ Conv!Goto(i, "zero", zero) /\ UNCHANGED <<stored, broken, starts>>
    BY <1>9 DEF Conv!ReadsStale, Conv!ToZero
  <2>2. PICK run \in ConvRuns :
          /\ runs' = [runs EXCEPT ![i] = run]
          /\ run.pc = "zero" /\ run.todo = zero /\ run.answer = runs[i].answer
          /\ run.shielded = runs[i].shielded /\ run.heals = runs[i].heals
    BY <2>1, RunGoes
  <2>3. runs'[i] = run
    BY <2>2 DEF ConvTypeInv
  <2>4. \A c \in Campaigns : Covers(i, c) => c \notin runs[i].answer
    BY <2>1 DEF Covers
  <2>5. \A c \in Campaigns : c \in zero \/ c \in runs[i].shielded \ runs[i].answer => Covers(i, c)'
    BY <2>2, <2>3 DEF Covers
  <2>6. \A c \in Campaigns : Covers(i, c) => Covers(i, c)' \/ stored[c].source = "METRIKA"
    BY <2>4, <2>5, OfMetrikaSource
  <2> QED BY <2>1, <2>2, <2>6, UnderWay, RunGoesOn
<1>10. ASSUME NEW i \in Runs, Conv!LeavesWindow(i) \/ Conv!Finish(i) PROVE ConvTypeInv' /\ ConvInv'
  <2>1. CASE Conv!LeavesWindow(i)
    BY <2>1, RunFails DEF Conv!LeavesWindow
  <2>2. CASE Conv!Finish(i)
    <3> DEFINE left == runs[i].shielded \ runs[i].answer
    <3>1. runs[i].pc = "zero" /\ runs[i].todo = {} /\ Conv!Ends(i, left, TRUE) /\ UNCHANGED <<stored, starts>>
      BY <2>2 DEF Conv!Finish
    <3>2. left \in SUBSET Campaigns /\ starts # 0
      BY <3>1, UnderWay DEF ConvRuns
    <3>3. \A c \in Campaigns \ left : ~Covers(i, c)
      BY <3>1 DEF Covers
    <3> HIDE DEF left
    <3> QED BY <3>1, <3>2, <3>3, RunEnds
  <2> QED BY <1>10, <2>1, <2>2
<1>11. CASE UNCHANGED Conv!convVars
  BY <1>11 DEF Conv!convVars, ConvTypeInv, ConvInv, Covers
<1> QED BY <1>1, <1>2, <1>3, <1>4, <1>5, <1>6, <1>7, <1>8, <1>9, <1>10, <1>11 DEF Conv!Next

\* run.ts: with any number of passes of the ingestion over each other, each of which may
\* throw at any stage, find Metrika silent or shield campaigns it cannot place a row of,
\* the window is in the model of Metrika when none is under way, but for the campaigns
\* that some pass left out and none begun since has placed or set to nought.
THEOREM OneModelRemains == ServicesSpec => []OneModelAtRest
<1> DEFINE Inv == ConvTypeInv /\ ConvInv
<1>1. Conv!Init => Inv
  BY ConvInit
<1>2. Inv /\ [Conv!Next]_(Conv!convVars) => Inv'
  BY ConvStep
<1>3. Inv => Conv!OneModelAtRest
  BY DEF ConvTypeInv, ConvInv, Covers, Conv!OneModelAtRest
<1> QED BY <1>1, <1>2, <1>3, SideBySide, PTL DEF Conv!Spec, OneModelAtRest

-----------------------------------------------------------------------------
(* Experiments: the cards of the test of texts.                             *)

\* There are texts, and one fault at the most.
ExpTypes == TestAds # {} /\ MaxFaults \in {0, 1}

\* An ad stands still only by a card of ours; one card at a time, and none that would stop
\* the last of the ads.  What is taken for running does run, at the latest when it is
\* compared: before a fault because no update was missed, and after it because the load
\* of the night came through.
ExpInv ==
    /\ testFaults \in Nat
    /\ ours = TestAds \ cabinet /\ cabinet \subseteq TestAds /\ status \subseteq TestAds
    /\ cabinet # {}
    /\ testFaults = 0 \/ phase = "evaluate" => status \subseteq cabinet
    /\ phase \in {"serve", "load", "evaluate", "cards"}
    /\ phase # "cards" => pending = {}
    /\ \A L, M \in pending : L = M
    /\ \A L \in pending : L \subseteq TestAds /\ cabinet \ L # {}

\* selectWinner: the one it takes for the leader is not among the losers.
LEMMA LeaderStays ==
    ASSUME NEW counts, NEW elapsed, Exp!SelectWinner(counts, elapsed).losers # {}
    PROVE  \E v \in DOMAIN counts : v \notin Exp!SelectWinner(counts, elapsed).losers
<1> DEFINE ready == {v \in DOMAIN counts : counts[v].impressions >= MinImpressions}
           rateAtLeast(v, w) ==
               counts[v].clicks * counts[w].impressions >= counts[w].clicks * counts[v].impressions
           leaders == {v \in ready : \A w \in ready : rateAtLeast(v, w)}
           leader == CHOOSE v \in leaders : TRUE
           losers == Exp!SelectWinner(counts, elapsed).losers
<1>1. losers # {} => Exp!Cardinality(leaders) = 1 /\ losers = ready \ {leader}
  BY DEF Exp!SelectWinner, Exp!Collecting, Exp!Verdict
<1>2. Exp!Cardinality({}) = 0
  <2>1. Exp!Cardinality({}) = Cardinality({})
    BY DEF Exp!Cardinality, Cardinality
  <2> QED BY <2>1, FS_EmptySet
<1>3. leaders # {} => leader \in leaders
  OBVIOUS
<1>4. leaders \subseteq DOMAIN counts
  OBVIOUS
<1> HIDE DEF leaders, leader, ready, losers
<1>5. losers # {}
  BY DEF losers
<1>6. leader \in DOMAIN counts /\ leader \notin losers
  BY <1>1, <1>2, <1>3, <1>4, <1>5
<1> QED BY <1>6 DEF losers

\* evaluateAdExperiment: a card names some of the competing ads, and not all.
LEMMA LosersSpare ==
    ASSUME Exp!Losers # {}
    PROVE  \E a \in status : a \notin Exp!Losers
<1> DEFINE counts == Exp!Counts(Exp!Competing)
           losers == Exp!SelectWinner(counts, Exp!ElapsedDays(Exp!Competing)).losers
<1>1. Exp!Losers = {a \in Exp!Competing : VariantOf[a] \in losers}
  BY DEF Exp!Losers
<1>2. DOMAIN counts = {VariantOf[a] : a \in Exp!Competing}
  BY DEF Exp!Counts
<1>3. losers # {}
  BY <1>1
<1>4. PICK v \in DOMAIN counts : v \notin losers
  BY <1>3, LeaderStays
<1> HIDE DEF counts, losers
<1>5. PICK a \in Exp!Competing : VariantOf[a] = v
  BY <1>2, <1>4
<1>6. a \in status /\ a \notin Exp!Losers
  BY <1>1, <1>4, <1>5 DEF Exp!Competing
<1> QED BY <1>6

LEMMA ExpInit == ASSUME ExpTypes, Exp!Init PROVE ExpInv
BY DEF ExpTypes, Exp!Init, ExpInv

LEMMA ExpStep == ASSUME ExpTypes, ExpInv, [Exp!Next]_(Exp!experimentVars) PROVE ExpInv'
<1> USE DEF ExpTypes, ExpInv, Exp!At, Exp!Then, Exp!Fault
<1>1. CASE Exp!Serve
  BY <1>1 DEF Exp!Serve
<1>2. CASE Exp!Load
  <2>1. phase' = "evaluate" /\ pending = {} /\ UNCHANGED <<cabinet, pending, ours>>
    BY <1>2 DEF Exp!Load
  <2>2. CASE status' = cabinet /\ testFaults' = testFaults
    BY <2>1, <2>2
  <2>3. CASE status' = status /\ Exp!Fault
    <3>1. testFaults = 0
      BY <2>3
    <3> QED BY <2>1, <2>3, <3>1
  <2> QED BY <1>2, <2>2, <2>3 DEF Exp!Load
<1>3. CASE Exp!Evaluate
  <2>1. /\ phase = "evaluate" /\ phase' = "cards" /\ pending = {}
        /\ UNCHANGED <<cabinet, status, ours>>
        /\ testFaults' = testFaults \/ testFaults' = testFaults + 1
    BY <1>3 DEF Exp!Evaluate
  <2> Exp!Losers \subseteq TestAds
    BY DEF Exp!Losers, Exp!Competing
  <2>2. pending' = {} \/ (Exp!Losers # {} /\ pending' = {Exp!Losers})
    BY <1>3, <2>1 DEF Exp!Evaluate
  <2>3. Exp!Losers # {} => cabinet \ Exp!Losers # {}
    BY <2>1, LosersSpare
  <2> QED BY <2>1, <2>2, <2>3
<1>4. CASE Exp!EndDay
  BY <1>4 DEF Exp!EndDay
<1>5. ASSUME NEW L \in pending, Exp!Approve(L) PROVE ExpInv'
  BY <1>5 DEF Exp!Approve
<1>6. ASSUME NEW L \in pending, Exp!Reject(L) \/ Exp!Expire(L) PROVE ExpInv'
  BY <1>6 DEF Exp!Reject, Exp!Expire
<1>7. ASSUME NEW a \in TestAds, Exp!Resume(a) \/ Exp!Rewrite(a) PROVE ExpInv'
  BY <1>7 DEF Exp!Resume, Exp!Rewrite
<1>8. CASE UNCHANGED Exp!experimentVars
  BY <1>8 DEF Exp!experimentVars
<1> QED BY <1>1, <1>2, <1>3, <1>4, <1>5, <1>6, <1>7, <1>8 DEF Exp!Next

\* creatives/ab: whatever cards are approved, turned down or left to expire, whatever
\* people resume and moderation rewrites, for any number of ads, variants and days.
THEOREM GroupIsNeverOff ==
    ASSUME ExpTypes
    PROVE  ServicesSpec => []GroupStaysOn
<1>1. Exp!Init => ExpInv
  BY ExpInit
<1>2. ExpInv /\ [Exp!Next]_(Exp!experimentVars) => ExpInv'
  BY ExpStep
<1>3. ExpInv => Exp!GroupStaysOn
  BY DEF ExpInv, Exp!GroupStaysOn
<1> QED BY <1>1, <1>2, <1>3, SideBySide, PTL DEF Exp!Spec, GroupStaysOn

-----------------------------------------------------------------------------
(* VkTokens: what a process deletes of its own.                             *)

\* A token that is not minted anew while it is fresh; processes have names of their own;
\* a request is one of a process.
VkTypes ==
    /\ Ttl \in Nat /\ Margin \in Nat /\ Remint \in Nat /\ Remint + Margin <= Ttl
    /\ Processes \cap {"before", "live", "limit", "outside"} = {}
    /\ \A r \in Requests : r[1] \in Processes

VkTokenRecs == [by : Processes \cup {"before"}, born : Nat, end : Processes \cup {"live", "limit", "outside"},
                died : Nat]
VkCaches(n) == [token : 0 .. n, refreshAt : Int, mintedAt : Int]
VkMints(n) == [pc : {"none", "delete", "ask", "release", "ask again", "store", "save"}, old : 0 .. n,
               token : 0 .. n, replaced : BOOLEAN]
VkRequests(n) == [pc : {"idle", "get", "waits", "send", "force", "waits again", "done", "auth", "error"},
                  token : 0 .. n, again : BOOLEAN]

VkTypeInv ==
    LET n == Len(tokens)
    IN  /\ tokenClock \in Nat /\ tokens \in Seq(VkTokenRecs)
        /\ \A t \in 1 .. n : tokens[t].born <= tokenClock
        /\ tokenRow \in 0 .. n /\ ctx \in [Processes -> 0 .. n]
        /\ cache \in [Processes -> VkCaches(n)] /\ mint \in [Processes -> VkMints(n)]
        /\ req \in [Requests -> VkRequests(n)]

\* Nothing is lost if p deletes the token now.
Harmless(p, t) ==
    \/ t = 0 \/ tokens[t].by # p \/ ~Vk!Live(t)
    \/ tokenClock - tokens[t].born >= Remint
\* The memory of p says that it minted a moment ago, and the token is no younger.
Remembered(p, t) ==
    /\ cache[p].token # 0 /\ cache[p].mintedAt >= tokens[t].born
    /\ cache[p].refreshAt >= tokens[t].born + Remint
\* p has forgotten when it minted, but knows no other token and has not been refused it.
KnowsOnly(p, t) ==
    /\ ctx[p] = t /\ cache[p].token \in {0, t}
    /\ \A r \in Requests : r[1] = p => req[r].pc # "force" /\ (req[r].pc = "send" => req[r].token = t)
SafeWith(p, t) == Harmless(p, t) \/ Remembered(p, t) \/ (mint[p].pc # "save" /\ KnowsOnly(p, t))

\* Of its own a process deleted none that was young.
Spared ==
    \A t \in 1 .. Len(tokens) : tokens[t].end = tokens[t].by => tokens[t].died - tokens[t].born >= Remint

VkOwn(p) ==
    /\ SafeWith(p, tokenRow) /\ SafeWith(p, ctx[p])
    /\ mint[p].pc = "delete" => Harmless(p, mint[p].old)
    /\ mint[p].pc \in {"store", "save"} => mint[p].token # 0 /\ tokens[mint[p].token].by = p
    /\ mint[p].pc = "store" =>
         \A t \in 1 .. Len(tokens) : tokens[t].by = p => tokens[t].born <= tokens[mint[p].token].born
    /\ mint[p].pc = "save" => SafeWith(p, mint[p].token)

VkInv ==
    /\ VkTypeInv /\ Spared
    /\ \A p \in Processes : VkOwn(p)
    /\ \A r \in Requests : req[r].pc = "send" => req[r].token # 0

\* What is known of a token stays, but that it ends.
TokensLive ==
    /\ Len(tokens) <= Len(tokens') /\ tokenClock <= tokenClock'
    /\ \A t \in 1 .. Len(tokens) : /\ tokens'[t].by = tokens[t].by /\ tokens'[t].born = tokens[t].born
                                   /\ tokens'[t].end = "live" => tokens[t].end = "live"

LEMMA EndedOK ==
    ASSUME VkTypeInv, NEW ts, NEW how \in Processes \cup {"limit", "outside"}
    PROVE  LET ended == Vk!Ended(ts, how)
           IN  /\ ended \in Seq(VkTokenRecs) /\ Len(ended) = Len(tokens)
               /\ \A t \in 1 .. Len(tokens) :
                     /\ ended[t].by = tokens[t].by /\ ended[t].born = tokens[t].born
                     /\ \/ ended[t] = tokens[t]
                        \/ t \in ts /\ Vk!Live(t) /\ ended[t].end = how /\ ended[t].died = tokenClock
<1> DEFINE ended == Vk!Ended(ts, how)
           n == Len(tokens)
<1>1. tokens \in Seq(VkTokenRecs) /\ tokenClock \in Nat
  BY DEF VkTypeInv
<1>2. n \in Nat /\ DOMAIN tokens = 1 .. n /\ \A t \in 1 .. n : tokens[t] \in VkTokenRecs
  BY <1>1
<1>3. ended = [t \in 1 .. n |-> IF t \in ts /\ Vk!Live(t)
                                THEN [tokens[t] EXCEPT !.end = how, !.died = tokenClock] ELSE tokens[t]]
  BY <1>2 DEF Vk!Ended
<1> HIDE DEF ended, n
<1>4. ASSUME NEW t \in 1 .. n
      PROVE  /\ ended[t] \in VkTokenRecs /\ ended[t].by = tokens[t].by /\ ended[t].born = tokens[t].born
             /\ \/ ended[t] = tokens[t]
                \/ t \in ts /\ Vk!Live(t) /\ ended[t].end = how /\ ended[t].died = tokenClock
  <2> DEFINE over == [tokens[t] EXCEPT !.end = how, !.died = tokenClock]
  <2>1. /\ over \in VkTokenRecs /\ over.by = tokens[t].by /\ over.born = tokens[t].born
        /\ over.end = how /\ over.died = tokenClock
    BY <1>1, <1>2 DEF VkTokenRecs
  <2>2. ended[t] = IF t \in ts /\ Vk!Live(t) THEN over ELSE tokens[t]
    BY <1>3
  <2> HIDE DEF over
  <2> QED BY <1>2, <2>1, <2>2
<1>5. ended = [t \in 1 .. n |-> ended[t]]
  BY <1>3
<1>6. ended \in Seq(VkTokenRecs) /\ Len(ended) = n
  BY <1>2, <1>4, <1>5
<1> QED BY <1>4, <1>6 DEF ended, n

LEMMA MintedOK ==
    ASSUME VkTypeInv, NEW p \in Processes
    PROVE  LET minted == Vk!Minted(p)
           IN  /\ minted \in Seq(VkTokenRecs) /\ Len(minted) = Len(tokens) + 1
               /\ \A t \in 1 .. Len(tokens) : minted[t] = tokens[t]
               /\ minted[Len(tokens) + 1] = [by |-> p, born |-> tokenClock, end |-> "live", died |-> 0]
<1> DEFINE new == [by |-> p, born |-> tokenClock, end |-> "live", died |-> 0]
<1>1. tokens \in Seq(VkTokenRecs) /\ tokenClock \in Nat
  BY DEF VkTypeInv
<1>2. new \in VkTokenRecs
  BY <1>1 DEF VkTokenRecs
<1>3. Vk!Minted(p) = Append(tokens, new)
  BY DEF Vk!Minted
<1> HIDE DEF new
<1>4. Append(tokens, new) \in Seq(VkTokenRecs) /\ Len(Append(tokens, new)) = Len(tokens) + 1
      /\ (\A t \in 1 .. Len(tokens) : Append(tokens, new)[t] = tokens[t])
      /\ Append(tokens, new)[Len(tokens) + 1] = new
  BY <1>1, <1>2
<1> QED BY <1>3, <1>4 DEF new

LEMMA HarmlessStays ==
    ASSUME VkTypes, VkTypeInv, VkTypeInv', TokensLive, NEW p \in Processes, NEW t \in 0 .. Len(tokens), Harmless(p, t)
    PROVE  Harmless(p, t)'
<1>1. CASE t = 0
  BY <1>1 DEF Harmless
<1>2. CASE t # 0
  <2>1. t \in 1 .. Len(tokens) /\ Len(tokens) \in Nat
    BY <1>2 DEF VkTypeInv
  <2>2. tokens[t] \in VkTokenRecs /\ tokenClock \in Nat /\ tokenClock' \in Nat
    BY <2>1 DEF VkTypeInv
  <2>3. tokens[t].born \in Nat
    BY <2>2 DEF VkTokenRecs
  <2>4. /\ tokens'[t].by = tokens[t].by /\ tokens'[t].born = tokens[t].born /\ tokenClock <= tokenClock'
        /\ tokens'[t].end = "live" => tokens[t].end = "live"
    BY <2>1 DEF TokensLive
  <2>5. ~Vk!Live(t) => ~(tokens'[t].end = "live" /\ tokenClock' < tokens'[t].born + Ttl)
    BY <1>2, <2>2, <2>3, <2>4 DEF Vk!Live, Vk!NoToken, Vk!ExpiresAt, VkTypes
  <2>6. ~Vk!Live(t) => ~(Vk!Live(t)')
    BY <2>5 DEF Vk!Live, Vk!ExpiresAt
  <2>7. tokenClock - tokens[t].born >= Remint => tokenClock' - tokens'[t].born >= Remint
    BY <2>2, <2>3, <2>4 DEF VkTypes
  <2> QED BY <2>4, <2>6, <2>7 DEF Harmless
<1> QED BY <1>1, <1>2

\* p keeps what it remembers, and none of its requests comes to a token or a refusal.
Calm(p) ==
    /\ cache'[p] = cache[p] /\ ctx'[p] = ctx[p]
    /\ mint'[p].pc = "save" => mint[p].pc = "save"
    /\ \A r \in Requests : r[1] = p => /\ req'[r].pc = "force" => req[r].pc = "force"
                                       /\ req'[r].pc = "send" => req[r].pc = "send" /\ req'[r].token = req[r].token

LEMMA SafeStays ==
    ASSUME VkTypes, VkTypeInv, VkTypeInv', TokensLive, NEW p \in Processes, Calm(p),
           NEW t \in 0 .. Len(tokens), SafeWith(p, t)
    PROVE  SafeWith(p, t)'
<1>1. CASE Harmless(p, t)
  BY <1>1, HarmlessStays DEF SafeWith
<1>2. CASE Remembered(p, t) /\ t # 0
  <2>1. tokens'[t].born = tokens[t].born /\ cache'[p] = cache[p]
    BY <1>2 DEF Calm, TokensLive, VkTypeInv
  <2>2. Remembered(p, t)'
    BY <1>2, <2>1 DEF Remembered
  <2> QED BY <2>2 DEF SafeWith
<1>3. CASE mint[p].pc # "save" /\ KnowsOnly(p, t)
  <2>1. KnowsOnly(p, t)'
    BY <1>3 DEF KnowsOnly, Calm
  <2>2. mint'[p].pc # "save"
    BY <1>3 DEF Calm
  <2> QED BY <2>1, <2>2 DEF SafeWith
<1>4. CASE t = 0
  BY <1>4 DEF SafeWith, Harmless
<1> QED BY <1>1, <1>2, <1>3, <1>4 DEF SafeWith

\* The empty memory, minting and request; and how the other two begin.
LEMMA VkBlank ==
    ASSUME NEW n \in Nat
    PROVE  /\ Vk!NoCache \in VkCaches(n) /\ Vk!NoCache.token = 0
           /\ Vk!NoMint \in VkMints(n) /\ Vk!NoMint.pc = "none"
           /\ \A o \in 0 .. n : LET new == [Vk!NoMint EXCEPT !.pc = "delete", !.old = o]
                                IN  new \in VkMints(n) /\ new.pc = "delete" /\ new.old = o
           /\ Vk!Idle \in VkRequests(n) /\ Vk!Idle.pc = "idle"
           /\ LET new == [Vk!Idle EXCEPT !.pc = "get"] IN new \in VkRequests(n) /\ new.pc = "get"
<1>1. 0 \in 0 .. n
  OBVIOUS
<1>2. Vk!NoCache \in VkCaches(n) /\ Vk!NoCache.token = 0
  BY <1>1 DEF Vk!NoCache, Vk!NoToken, VkCaches
<1>3. Vk!NoMint \in VkMints(n) /\ Vk!NoMint.pc = "none"
  BY <1>1 DEF Vk!NoMint, Vk!NoToken, VkMints
<1>4. ASSUME NEW o \in 0 .. n
      PROVE  LET new == [Vk!NoMint EXCEPT !.pc = "delete", !.old = o]
             IN  new \in VkMints(n) /\ new.pc = "delete" /\ new.old = o
  BY <1>3 DEF VkMints
<1>5. Vk!Idle \in VkRequests(n) /\ Vk!Idle.pc = "idle"
  BY <1>1 DEF Vk!Idle, Vk!NoToken, VkRequests
<1>6. LET new == [Vk!Idle EXCEPT !.pc = "get"] IN new \in VkRequests(n) /\ new.pc = "get"
  BY <1>5 DEF VkRequests
<1> QED BY <1>2, <1>3, <1>4, <1>5, <1>6

LEMMA MintedCount == VkTypeInv => Len(tokens) \in Nat
BY DEF VkTypeInv

\* What JoinMint leaves of the requests and the mintings.
LEMMA JoinTypes ==
    ASSUME VkTypes, VkTypeInv, NEW r \in Requests, NEW pc \in {"waits", "waits again"}, Vk!JoinMint(r, pc)
    PROVE  /\ mint' \in [Processes -> VkMints(Len(tokens))] /\ req' \in [Requests -> VkRequests(Len(tokens))]
           /\ req'[r].pc = pc /\ \A q \in Requests : q # r => req'[q] = req[q]
           /\ \A p \in Processes : p # r[1] => mint'[p] = mint[p]
           /\ \/ mint[r[1]].pc # "none" /\ mint' = mint
              \/ mint[r[1]].pc = "none" /\ mint'[r[1]].pc = "delete" /\ mint'[r[1]].old = ctx[r[1]]
<1> DEFINE n == Len(tokens)
           new == [Vk!NoMint EXCEPT !.pc = "delete", !.old = ctx[r[1]]]
           asked == [req[r] EXCEPT !.pc = pc]
<1>1. r[1] \in Processes /\ n \in Nat /\ ctx[r[1]] \in 0 .. n
  <2>1. r[1] \in Processes
    BY DEF VkTypes
  <2>2. n \in Nat
    BY MintedCount DEF n
  <2>3. ctx \in [Processes -> 0 .. n]
    BY DEF VkTypeInv
  <2> QED BY <2>1, <2>2, <2>3
<1>2. new \in VkMints(n) /\ new.pc = "delete" /\ new.old = ctx[r[1]]
  BY <1>1, VkBlank
<1>3. req[r] \in VkRequests(n)
  BY DEF VkTypeInv
<1>4. asked \in VkRequests(n) /\ asked.pc = pc
  BY <1>3 DEF VkRequests
<1>5. /\ req' = [req EXCEPT ![r] = asked]
      /\ mint' = IF mint[r[1]].pc # "none" THEN mint ELSE [mint EXCEPT ![r[1]] = new]
  BY DEF Vk!JoinMint
<1>6. req \in [Requests -> VkRequests(n)] /\ mint \in [Processes -> VkMints(n)]
  BY DEF VkTypeInv
<1> HIDE DEF n, new, asked
<1>7. req' \in [Requests -> VkRequests(n)] /\ req'[r].pc = pc /\ \A q \in Requests : q # r => req'[q] = req[q]
  BY <1>4, <1>5, <1>6
<1>8. CASE mint[r[1]].pc # "none"
  BY <1>5, <1>6, <1>7, <1>8 DEF n
<1>9. CASE mint[r[1]].pc = "none"
  <2>1. mint' = [mint EXCEPT ![r[1]] = new]
    BY <1>5, <1>9
  <2>2. /\ mint' \in [Processes -> VkMints(n)] /\ mint'[r[1]] = new
        /\ \A p \in Processes : p # r[1] => mint'[p] = mint[p]
    BY <2>1, <1>1, <1>2, <1>6
  <2> QED BY <2>2, <1>2, <1>7, <1>9 DEF n
<1> QED BY <1>8, <1>9

\* What a lost minting leaves.
LEMMA FailedTypes ==
    ASSUME VkTypes, VkTypeInv, NEW p \in Processes, Vk!MintFailed(p)
    PROVE  /\ mint' \in [Processes -> VkMints(Len(tokens))] /\ req' \in [Requests -> VkRequests(Len(tokens))]
           /\ mint'[p].pc = "none" /\ \A q \in Processes : q # p => mint'[q] = mint[q]
           /\ \A r \in Requests : req'[r] = req[r] \/ (req'[r].pc = "error" /\ r[1] = p)
<1> DEFINE n == Len(tokens)
<1>1. req \in [Requests -> VkRequests(n)] /\ mint \in [Processes -> VkMints(n)] /\ n \in Nat
  BY DEF VkTypeInv
<1>2. Vk!NoMint \in VkMints(n) /\ Vk!NoMint.pc = "none"
  BY <1>1, VkBlank
<1>3. mint' = [mint EXCEPT ![p] = Vk!NoMint]
      /\ req' = [r \in Requests |-> IF r \in Vk!Waiting(p) THEN [req[r] EXCEPT !.pc = "error"] ELSE req[r]]
  BY DEF Vk!MintFailed
<1> HIDE DEF n
<1>4. mint' \in [Processes -> VkMints(n)] /\ mint'[p].pc = "none"
      /\ \A q \in Processes : q # p => mint'[q] = mint[q]
  BY <1>1, <1>2, <1>3
<1>5. ASSUME NEW r \in Requests
      PROVE  req'[r] \in VkRequests(n) /\ (req'[r] = req[r] \/ (req'[r].pc = "error" /\ r[1] = p))
  <2> DEFINE over == [req[r] EXCEPT !.pc = "error"]
  <2>1. req[r] \in VkRequests(n)
    BY <1>1
  <2>2. over \in VkRequests(n) /\ over.pc = "error"
    BY <2>1 DEF VkRequests
  <2>3. req'[r] = IF r \in Vk!Waiting(p) THEN over ELSE req[r]
    BY <1>3
  <2>4. r \in Vk!Waiting(p) => r[1] = p
    BY DEF Vk!Waiting
  <2> QED BY <2>1, <2>2, <2>3, <2>4
<1>6. req' = [r \in Requests |-> req'[r]]
  BY <1>3
<1>7. req' \in [Requests -> VkRequests(n)]
  BY <1>5, <1>6
<1> QED BY <1>4, <1>5, <1>7 DEF n

\* The type survives when only requests and mintings move, as to the length.
LEMMA TypeStays ==
    ASSUME VkTypeInv, tokens' \in Seq(VkTokenRecs), TokensLive, tokenClock' \in Nat, tokenRow' \in 0 .. Len(tokens),
           \A t \in 1 .. Len(tokens') : tokens'[t].born <= tokenClock',
           ctx' \in [Processes -> 0 .. Len(tokens)], cache' \in [Processes -> VkCaches(Len(tokens))],
           mint' \in [Processes -> VkMints(Len(tokens'))], req' \in [Requests -> VkRequests(Len(tokens))]
    PROVE  VkTypeInv'
<1> DEFINE n == Len(tokens)
           m == Len(tokens')
<1>1. n \in Nat /\ m \in Nat /\ n <= m
  BY DEF VkTypeInv, TokensLive
<1> HIDE DEF n, m
<1>2. 0 .. n \subseteq 0 .. m
  BY <1>1
<1>3. VkCaches(n) \subseteq VkCaches(m) /\ VkRequests(n) \subseteq VkRequests(m)
  BY <1>2 DEF VkCaches, VkRequests
<1>4. /\ tokenRow' \in 0 .. m /\ ctx' \in [Processes -> 0 .. m]
      /\ cache' \in [Processes -> VkCaches(m)] /\ req' \in [Requests -> VkRequests(m)]
  BY <1>2, <1>3 DEF n
<1> QED BY <1>4 DEF VkTypeInv, m

LEMMA VkBegins ==
    ASSUME VkTypes, VkTypeInv, NEW r \in Requests, Vk!Begin(r)
    PROVE  /\ VkTypeInv' /\ TokensLive
           /\ req'[r].pc = "get" /\ \A q \in Requests : q # r => req'[q] = req[q]
           /\ \A p \in Processes : /\ mint'[p].pc = mint[p].pc /\ mint'[p].old = mint[p].old
                                   /\ mint'[p].token = mint[p].token
                                   /\ ctx'[p] = ctx[p] \/ ctx'[p] = tokenRow
<1> DEFINE n == Len(tokens)
           p == r[1]
           new == [Vk!Idle EXCEPT !.pc = "get"]
<1>1. p \in Processes /\ n \in Nat /\ tokenRow \in 0 .. n
      /\ req \in [Requests -> VkRequests(n)] /\ mint \in [Processes -> VkMints(n)] /\ ctx \in [Processes -> 0 .. n]
  BY DEF VkTypes, VkTypeInv
<1>2. new \in VkRequests(n) /\ new.pc = "get"
  BY <1>1, VkBlank
<1>3. req' = [req EXCEPT ![r] = new] /\ UNCHANGED <<tokenClock, tokens, tokenRow, cache>>
      /\ \/ UNCHANGED <<ctx, mint>>
         \/ /\ ctx' = [ctx EXCEPT ![p] = tokenRow]
            /\ mint' = [mint EXCEPT ![p].replaced = @ \/ mint[p].pc # "none"]
  BY DEF Vk!Begin
<1> HIDE DEF p, new
<1>4. req' \in [Requests -> VkRequests(n)] /\ req'[r].pc = "get" /\ \A q \in Requests : q # r => req'[q] = req[q]
  BY <1>1, <1>2, <1>3
<1>5. ctx' \in [Processes -> 0 .. n] /\ \A q \in Processes : ctx'[q] = ctx[q] \/ ctx'[q] = tokenRow
  BY <1>1, <1>3
<1>6. mint' \in [Processes -> VkMints(n)]
      /\ \A q \in Processes : mint'[q].pc = mint[q].pc /\ mint'[q].old = mint[q].old /\ mint'[q].token = mint[q].token
  <2>1. CASE mint' = mint
    BY <2>1, <1>1
  <2>2. CASE mint' = [mint EXCEPT ![p].replaced = @ \/ mint[p].pc # "none"]
    <3> DEFINE over == [mint[p] EXCEPT !.replaced = @ \/ mint[p].pc # "none"]
    <3>1. mint[p] \in VkMints(n)
      BY <1>1
    <3>2. /\ over \in VkMints(n) /\ over.pc = mint[p].pc /\ over.old = mint[p].old /\ over.token = mint[p].token
      BY <3>1 DEF VkMints
    <3>3. mint' = [mint EXCEPT ![p] = over]
      BY <2>2
    <3> HIDE DEF over
    <3> QED BY <1>1, <3>2, <3>3
  <2> QED BY <2>1, <2>2, <1>3
<1>7. TokensLive
  BY <1>3 DEF TokensLive, VkTypeInv
<1>8. VkTypeInv'
  BY <1>3, <1>4, <1>5, <1>6, <1>7, TypeStays DEF VkTypeInv
<1> QED BY <1>4, <1>5, <1>6, <1>7, <1>8

\* A request that has a token goes on with it.
LEMMA HoldsTypes ==
    ASSUME VkTypeInv, NEW r \in Requests, NEW t \in 0 .. Len(tokens), Vk!Holds(r, t)
    PROVE  /\ req' \in [Requests -> VkRequests(Len(tokens))]
           /\ req'[r].pc = "send" /\ req'[r].token = t /\ \A q \in Requests : q # r => req'[q] = req[q]
<1> DEFINE n == Len(tokens)
           held == [req[r] EXCEPT !.pc = "send", !.token = t]
<1>1. req \in [Requests -> VkRequests(n)]
  BY DEF VkTypeInv
<1>2. held \in VkRequests(n) /\ held.pc = "send" /\ held.token = t
  BY <1>1 DEF VkRequests
<1>3. req' = [req EXCEPT ![r] = held]
  BY DEF Vk!Holds
<1> HIDE DEF held
<1> QED BY <1>1, <1>2, <1>3

\* The three ways to a token: from memory, from the credentials, or by a minting.
LEMMA VkGets ==
    ASSUME VkTypes, VkTypeInv, NEW r \in Requests, Vk!GetToken(r)
    PROVE  LET p == r[1]
           IN  /\ VkTypeInv' /\ TokensLive /\ tokenClock' = tokenClock /\ tokens' = tokens
               /\ tokenRow' = tokenRow /\ ctx' = ctx /\ req[r].pc = "get"
               /\ \A q \in Requests : q # r => req'[q] = req[q]
               /\ \A q \in Processes : q # p => mint'[q] = mint[q] /\ cache'[q] = cache[q]
               /\ \/ /\ cache' = cache /\ mint' = mint /\ cache[p].token # 0
                     /\ req'[r].pc = "send" /\ req'[r].token = cache[p].token
                  \/ /\ cache[p].token = 0 \/ tokenClock >= cache[p].refreshAt
                     /\ ctx[p] # 0 /\ cache'[p].token = ctx[p] /\ mint' = mint
                     /\ req'[r].pc = "send" /\ req'[r].token = ctx[p]
                  \/ /\ cache' = cache
                     /\ ctx[p] = 0 \/ tokenClock - tokens[ctx[p]].born >= Ttl - Margin
                     /\ req'[r].pc = "waits"
                     /\ \/ mint[p].pc # "none" /\ mint' = mint
                        \/ mint[p].pc = "none" /\ mint'[p].pc = "delete" /\ mint'[p].old = ctx[p]
<1> DEFINE n == Len(tokens)
           p == r[1]
           inMemory == cache[p].token # 0 /\ tokenClock < cache[p].refreshAt
           fresh == ctx[p] # 0 /\ Vk!ExpiresAt(ctx[p]) - tokenClock > Margin
           kept == [token |-> ctx[p], mintedAt |-> -Remint, refreshAt |-> Vk!ExpiresAt(ctx[p]) - Margin]
<1>1. p \in Processes
  BY DEF VkTypes
<1>2. n \in Nat
  BY DEF VkTypeInv
<1>3. cache[p] \in VkCaches(n) /\ ctx[p] \in 0 .. n /\ tokenClock \in Nat
  BY <1>1 DEF VkTypeInv
<1>4. /\ req[r].pc = "get" /\ UNCHANGED <<tokenClock, tokens, tokenRow, ctx>>
      /\ \/ inMemory /\ Vk!Holds(r, cache[p].token) /\ cache' = cache /\ mint' = mint
         \/ ~inMemory /\ fresh /\ cache' = [cache EXCEPT ![p] = kept] /\ Vk!Holds(r, ctx[p]) /\ mint' = mint
         \/ ~inMemory /\ ~fresh /\ Vk!JoinMint(r, "waits") /\ cache' = cache
  BY DEF Vk!GetToken, Vk!NoToken
<1>5. TokensLive
  BY <1>4 DEF TokensLive, VkTypeInv
<1>6. cache[p].token \in 0 .. n
  BY <1>3 DEF VkCaches
<1>7. ASSUME cache' \in [Processes -> VkCaches(n)], mint' \in [Processes -> VkMints(n)],
             req' \in [Requests -> VkRequests(n)]
      PROVE  VkTypeInv'
  BY <1>4, <1>5, <1>7, TypeStays DEF VkTypeInv
<1>8. cache \in [Processes -> VkCaches(n)] /\ mint \in [Processes -> VkMints(n)]
  BY DEF VkTypeInv
<1> HIDE DEF n, p, inMemory, fresh, kept
<1>9. CASE inMemory /\ Vk!Holds(r, cache[p].token) /\ cache' = cache /\ mint' = mint
  <2>1. /\ req' \in [Requests -> VkRequests(n)]
        /\ req'[r].pc = "send" /\ req'[r].token = cache[p].token /\ \A q \in Requests : q # r => req'[q] = req[q]
    BY <1>6, <1>9, HoldsTypes DEF n
  <2>2. VkTypeInv'
    BY <2>1, <1>7, <1>8, <1>9
  <2>3. cache[p].token # 0
    BY <1>9 DEF inMemory
  <2> QED BY <1>4, <1>5, <1>9, <2>1, <2>2, <2>3 DEF p
<1>10. CASE ~inMemory /\ fresh /\ cache' = [cache EXCEPT ![p] = kept] /\ Vk!Holds(r, ctx[p]) /\ mint' = mint
  <2>1. /\ req' \in [Requests -> VkRequests(n)]
        /\ req'[r].pc = "send" /\ req'[r].token = ctx[p] /\ \A q \in Requests : q # r => req'[q] = req[q]
    BY <1>3, <1>10, HoldsTypes DEF n
  <2>2. ctx[p] # 0 /\ (cache[p].token = 0 \/ tokenClock >= cache[p].refreshAt)
    BY <1>3, <1>10 DEF inMemory, fresh, VkCaches
  <2>3. kept \in VkCaches(n) /\ kept.token = ctx[p]
    <3>1. ctx[p] \in 1 .. n
      BY <1>2, <1>3, <2>2
    <3>2. tokens[ctx[p]] \in VkTokenRecs
      BY <3>1 DEF VkTypeInv, n
    <3>3. Vk!ExpiresAt(ctx[p]) - Margin \in Int /\ -Remint \in Int
      BY <3>2 DEF Vk!ExpiresAt, VkTokenRecs, VkTypes
    <3> QED BY <1>3, <3>3 DEF kept, VkCaches
  <2>4. /\ cache' \in [Processes -> VkCaches(n)] /\ cache'[p].token = ctx[p]
        /\ \A q \in Processes : q # p => cache'[q] = cache[q]
    BY <1>1, <1>8, <1>10, <2>3
  <2>5. VkTypeInv'
    BY <2>1, <2>4, <1>7, <1>8, <1>10
  <2>6. mint' = mint
    BY <1>10
  <2> QED BY <1>4, <1>5, <2>1, <2>2, <2>4, <2>5, <2>6 DEF p
<1>11. CASE ~inMemory /\ ~fresh /\ Vk!JoinMint(r, "waits") /\ cache' = cache
  <2>1. /\ mint' \in [Processes -> VkMints(n)] /\ req' \in [Requests -> VkRequests(n)]
        /\ req'[r].pc = "waits" /\ \A q \in Requests : q # r => req'[q] = req[q]
        /\ \A q \in Processes : q # p => mint'[q] = mint[q]
        /\ \/ mint[p].pc # "none" /\ mint' = mint
           \/ mint[p].pc = "none" /\ mint'[p].pc = "delete" /\ mint'[p].old = ctx[p]
    BY <1>11, JoinTypes DEF n, p
  <2>2. ctx[p] = 0 \/ tokenClock - tokens[ctx[p]].born >= Ttl - Margin
    <3>1. CASE ctx[p] = 0
      BY <3>1
    <3>2. CASE ctx[p] # 0
      <4>1. ctx[p] \in 1 .. n
        BY <1>2, <1>3, <3>2
      <4>2. tokens[ctx[p]] \in VkTokenRecs
        BY <4>1 DEF VkTypeInv, n
      <4>3. tokens[ctx[p]].born \in Nat
        BY <4>2 DEF VkTokenRecs
      <4> ~fresh
        BY <1>11
      <4>4. ~(tokens[ctx[p]].born + Ttl - tokenClock > Margin)
        BY <1>3, <3>2, <4>3, ~fresh DEF fresh, Vk!ExpiresAt, VkTypes
      <4> QED BY <4>3, <4>4, <1>3 DEF VkTypes
    <3> QED BY <3>1, <3>2
  <2>3. cache' = cache
    BY <1>11
  <2>4. VkTypeInv'
    BY <2>1, <2>3, <1>7, <1>8
  <2> QED BY <1>4, <1>5, <2>1, <2>2, <2>3, <2>4 DEF p
<1> QED BY <1>4, <1>9, <1>10, <1>11 DEF inMemory, fresh

\* The promises about p survive if what it may delete stays safe, and it has minted none.
LEMMA OwnFrom ==
    ASSUME VkTypeInv, VkTypeInv', TokensLive, NEW p \in Processes, VkOwn(p), tokenRow' = tokenRow,
           ctx'[p] \in {ctx[p], tokenRow},
           \A t \in 0 .. Len(tokens) : t \in {tokenRow, ctx'[p]} /\ SafeWith(p, t) => SafeWith(p, t)',
           mint'[p].pc = "save" => \A t \in 0 .. Len(tokens) : SafeWith(p, t) => SafeWith(p, t)',
           mint'[p].pc = "delete" => Harmless(p, mint[p].old)',
           mint'[p].pc \in {"store", "save"} => mint'[p].pc = mint[p].pc /\ mint'[p].token = mint[p].token,
           mint'[p].pc = "store" => \A t \in 1 .. Len(tokens') : t > Len(tokens) => tokens'[t].by # p
    PROVE  VkOwn(p)'
<1> DEFINE n == Len(tokens)
           k == mint[p].token
<1>1. n \in Nat
  BY MintedCount
<1>2. k \in 0 .. n
  BY DEF VkTypeInv, VkMints
<1>3. SafeWith(p, tokenRow)' /\ SafeWith(p, ctx[p])'
  <2> DEFINE row == tokenRow
             c == ctx'[p]
  <2>1. row \in 0 .. n /\ SafeWith(p, row)
    BY DEF VkTypeInv, VkOwn
  <2>2. c \in 0 .. n /\ SafeWith(p, c)
    BY DEF VkTypeInv, VkOwn
  <2>3. ASSUME NEW t \in 0 .. n, t \in {row, c}, SafeWith(p, t) PROVE SafeWith(p, t)'
    BY <2>3
  <2>4. SafeWith(p, tokenRow)'
    BY <2>1, <2>3 DEF SafeWith, Harmless, Remembered, KnowsOnly, Vk!Live, Vk!ExpiresAt
  <2>5. SafeWith(p, ctx[p])'
    BY <2>2, <2>3 DEF SafeWith, Harmless, Remembered, KnowsOnly, Vk!Live, Vk!ExpiresAt
  <2> QED BY <2>4, <2>5
<1>4. mint'[p].pc \in {"store", "save"} => mint'[p].token # 0 /\ tokens'[mint'[p].token].by = p
  <2> HAVE mint'[p].pc \in {"store", "save"}
  <2>1. k # 0 /\ tokens[k].by = p /\ mint'[p].token = k
    BY DEF VkOwn
  <2>2. k \in 1 .. n
    BY <1>1, <1>2, <2>1
  <2> QED BY <2>1, <2>2 DEF TokensLive
<1>5. ASSUME mint'[p].pc = "store", NEW t \in 1 .. Len(tokens'), tokens'[t].by = p
      PROVE  tokens'[t].born <= tokens'[mint'[p].token].born
  <2>1. Len(tokens') \in Nat
    BY DEF VkTypeInv
  <2>2. t \in 1 .. n
    BY <1>1, <1>5, <2>1
  <2>3. tokens'[t].by = tokens[t].by /\ tokens'[t].born = tokens[t].born
    BY <2>2 DEF TokensLive
  <2>4. mint[p].pc = "store" /\ mint'[p].token = k
    BY <1>5
  <2>5. tokens[t].born <= tokens[k].born /\ k # 0
    BY <2>2, <2>3, <2>4, <1>5 DEF VkOwn
  <2>6. k \in 1 .. n
    BY <1>1, <1>2, <2>5
  <2>7. tokens'[k].born = tokens[k].born
    BY <2>6 DEF TokensLive
  <2> HIDE DEF k
  <2> QED BY <2>3, <2>4, <2>5, <2>7
<1>6. mint'[p].pc = "save" => SafeWith(p, mint[p].token)'
  <2> HAVE mint'[p].pc = "save"
  <2>1. mint[p].pc = "save" /\ mint'[p].token = k
    OBVIOUS
  <2>2. SafeWith(p, k)
    BY <2>1 DEF VkOwn
  <2>3. SafeWith(p, k)'
    BY <1>2, <2>2
  <2> QED BY <2>1, <2>3 DEF SafeWith, Harmless, Remembered, KnowsOnly, Vk!Live, Vk!ExpiresAt
<1> QED BY <1>3, <1>4, <1>5, <1>6 DEF VkOwn

\* A process that does nothing of its own, or none of the steps below.
Idles(p) ==
    /\ Calm(p) /\ tokenRow' = tokenRow
    /\ mint'[p].pc = "delete" => mint[p].pc = "delete" /\ mint'[p].old = mint[p].old
    /\ mint'[p].pc \in {"store", "save"} => mint'[p].pc = mint[p].pc /\ mint'[p].token = mint[p].token
    /\ mint'[p].pc = "store" => \A t \in 1 .. Len(tokens') : t > Len(tokens) => tokens'[t].by # p

LEMMA OwnStays ==
    ASSUME VkTypes, VkTypeInv, VkTypeInv', TokensLive, NEW p \in Processes, VkOwn(p), Idles(p)
    PROVE  VkOwn(p)'
<1>1. Calm(p) /\ tokenRow' = tokenRow
  BY DEF Idles
<1>2. ctx'[p] = ctx[p] /\ ctx[p] \in 0 .. Len(tokens) /\ tokenRow \in 0 .. Len(tokens)
  BY <1>1 DEF Calm, VkTypeInv
<1>3. \A t \in 0 .. Len(tokens) : SafeWith(p, t) => SafeWith(p, t)'
  BY <1>1, SafeStays
<1>4. mint'[p].pc = "delete" => Harmless(p, mint[p].old)'
  <2> HAVE mint'[p].pc = "delete"
  <2>1. mint[p].pc = "delete" /\ mint'[p].old = mint[p].old
    BY DEF Idles
  <2>2. mint[p].old \in 0 .. Len(tokens)
    BY DEF VkTypeInv, VkMints
  <2>3. Harmless(p, mint[p].old)
    BY <2>1 DEF VkOwn
  <2>4. ASSUME NEW o \in 0 .. Len(tokens), Harmless(p, o) PROVE Harmless(p, o)'
    BY <2>4, HarmlessStays
  <2> DEFINE o == mint[p].old
  <2>5. Harmless(p, o)' /\ mint'[p].old = o
    BY <2>1, <2>2, <2>3, <2>4
  <2> QED BY <2>5 DEF Harmless, Vk!Live, Vk!ExpiresAt
<1> QED BY <1>1, <1>2, <1>3, <1>4, OwnFrom DEF Idles

\* Of the tokens that ended in a step, p ended none of its own that was young.
LEMMA SparedStays ==
    ASSUME VkTypes, VkTypeInv, VkTypeInv', TokensLive, Spared,
           \A t \in 1 .. Len(tokens') : \/ t <= Len(tokens) /\ tokens'[t] = tokens[t]
                                        \/ tokens'[t].end \notin Processes
                                        \/ tokens'[t].end = tokens'[t].by =>
                                             tokens'[t].died - tokens'[t].born >= Remint
    PROVE  Spared'
<1> SUFFICES ASSUME NEW t \in 1 .. Len(tokens'), tokens'[t].end = tokens'[t].by
             PROVE  tokens'[t].died - tokens'[t].born >= Remint
  BY DEF Spared
<1>1. tokens'[t] \in VkTokenRecs
  BY DEF VkTypeInv
<1>2. tokens'[t].end \in Processes
  BY <1>1 DEF VkTokenRecs, VkTypes
<1>3. CASE t <= Len(tokens) /\ tokens'[t] = tokens[t]
  <2>1. t \in 1 .. Len(tokens)
    BY <1>3, MintedCount
  <2> QED BY <2>1, <1>3 DEF Spared
<1> QED BY <1>2, <1>3

\* Other processes than the one that steps.
LEMMA OthersStay ==
    ASSUME VkTypes, VkTypeInv, VkTypeInv', TokensLive, NEW p, NEW q \in Processes, q # p, VkOwn(q),
           tokenRow' = tokenRow, ctx'[q] = ctx[q], cache'[q] = cache[q], mint'[q] = mint[q],
           \A r \in Requests : r[1] # p => req'[r] = req[r],
           \A t \in 1 .. Len(tokens') : t > Len(tokens) => tokens'[t].by # q
    PROVE  VkOwn(q)'
<1>1. Calm(q)
  BY DEF Calm
<1>2. Idles(q)
  BY <1>1 DEF Idles
<1> QED BY <1>2, OwnStays

\* A request begins: with the credentials that are stored, what p may delete is as safe.
LEMMA BeginStep ==
    ASSUME VkTypes, VkInv, NEW r \in Requests, Vk!Begin(r)
    PROVE  VkInv'
<1> DEFINE p == r[1]
<1>1. /\ VkTypeInv' /\ TokensLive
      /\ req'[r].pc = "get" /\ \A q \in Requests : q # r => req'[q] = req[q]
      /\ \A q \in Processes : /\ mint'[q].pc = mint[q].pc /\ mint'[q].old = mint[q].old
                              /\ mint'[q].token = mint[q].token
                              /\ ctx'[q] = ctx[q] \/ ctx'[q] = tokenRow
  BY VkBegins DEF VkInv
<1>2. tokens' = tokens /\ tokenRow' = tokenRow /\ cache' = cache /\ tokenClock' = tokenClock
  BY DEF Vk!Begin
<1>3. ASSUME NEW q \in Processes PROVE VkOwn(q)'
  <2>1. VkTypeInv /\ VkOwn(q)
    BY DEF VkInv
  <2>2. \A t \in 0 .. Len(tokens) : (Harmless(q, t) => Harmless(q, t)') /\ (Remembered(q, t) => Remembered(q, t)')
    BY <1>2 DEF Harmless, Remembered, Vk!Live, Vk!ExpiresAt
  <2>3. ASSUME NEW t \in 0 .. Len(tokens), t \in {tokenRow, ctx'[q]}, KnowsOnly(q, t) PROVE KnowsOnly(q, t)'
    <3>1. ctx'[q] = t
      BY <1>1, <2>3 DEF KnowsOnly
    <3> QED BY <1>1, <1>2, <2>3, <3>1 DEF KnowsOnly
  <2>4. mint'[q].pc = mint[q].pc /\ mint'[q].old = mint[q].old /\ mint'[q].token = mint[q].token
    BY <1>1
  <2>5. \A t \in 0 .. Len(tokens) : t \in {tokenRow, ctx'[q]} /\ SafeWith(q, t) => SafeWith(q, t)'
    BY <2>2, <2>3, <2>4 DEF SafeWith
  <2>6. mint'[q].pc = "save" => \A t \in 0 .. Len(tokens) : SafeWith(q, t) => SafeWith(q, t)'
    BY <2>2, <2>4 DEF SafeWith
  <2>7. mint'[q].pc = "delete" => Harmless(q, mint[q].old)'
    BY <1>2, <2>1, <2>4 DEF VkOwn, Harmless, Vk!Live, Vk!ExpiresAt
  <2>8. ctx'[q] \in {ctx[q], tokenRow}
    BY <1>1
  <2>9. \A t \in 1 .. Len(tokens') : t > Len(tokens) => tokens'[t].by # q
    BY <1>2, <2>1, MintedCount
  <2> QED BY <1>1, <1>2, <2>1, <2>4, <2>5, <2>6, <2>7, <2>8, <2>9, OwnFrom
<1>4. Spared'
  BY <1>2 DEF VkInv, Spared
<1>5. \A q \in Requests : req'[q].pc = "send" => req'[q].token # 0
  BY <1>1 DEF VkInv
<1> QED BY <1>1, <1>3, <1>4, <1>5 DEF VkInv

\* A token is taken: p comes to know one token alone, or what it knew is old by now.
LEMMA GetStep ==
    ASSUME VkTypes, VkInv, NEW r \in Requests, Vk!GetToken(r)
    PROVE  VkInv'
<1> DEFINE p == r[1]
           n == Len(tokens)
           FromMemory == /\ cache' = cache /\ mint' = mint /\ cache[p].token # 0
                         /\ req'[r].pc = "send" /\ req'[r].token = cache[p].token
           FromStored == /\ cache[p].token = 0 \/ tokenClock >= cache[p].refreshAt
                         /\ ctx[p] # 0 /\ cache'[p].token = ctx[p] /\ mint' = mint
                         /\ req'[r].pc = "send" /\ req'[r].token = ctx[p]
           Mints == /\ cache' = cache
                    /\ ctx[p] = 0 \/ tokenClock - tokens[ctx[p]].born >= Ttl - Margin
                    /\ req'[r].pc = "waits"
                    /\ \/ mint[p].pc # "none" /\ mint' = mint
                       \/ mint[p].pc = "none" /\ mint'[p].pc = "delete" /\ mint'[p].old = ctx[p]
<1>1. VkTypeInv /\ Spared
  BY DEF VkInv
<1>2. /\ VkTypeInv' /\ TokensLive /\ tokenClock' = tokenClock /\ tokens' = tokens
      /\ tokenRow' = tokenRow /\ ctx' = ctx /\ req[r].pc = "get"
      /\ \A q \in Requests : q # r => req'[q] = req[q]
      /\ \A q \in Processes : q # p => mint'[q] = mint[q] /\ cache'[q] = cache[q]
      /\ FromMemory \/ FromStored \/ Mints
  BY <1>1, VkGets
<1>3. p \in Processes
  BY DEF VkTypes
<1>4. n \in Nat
  BY <1>1, MintedCount
<1> HIDE DEF p, n
<1>5. VkOwn(p) /\ ctx[p] \in 0 .. n /\ tokenRow \in 0 .. n
  BY <1>1, <1>3 DEF VkInv, VkTypeInv, n
<1>6. \A t \in 0 .. n : Harmless(p, t) => Harmless(p, t)'
  BY <1>2 DEF Harmless, Vk!Live, Vk!ExpiresAt
<1>7. ASSUME NEW t \in 0 .. n, SafeWith(p, t) PROVE SafeWith(p, t)'
  <2>1. CASE Harmless(p, t)
    BY <1>6, <2>1 DEF SafeWith
  <2>2. CASE Remembered(p, t) /\ cache'[p] = cache[p]
    BY <1>2, <2>2 DEF SafeWith, Remembered
  <2>3. CASE Remembered(p, t) /\ FromStored /\ t # 0
    <3>1. tokens[t].born \in Nat /\ cache[p].refreshAt \in Int /\ tokenClock \in Nat
      <4>1. t \in 1 .. n
        BY <1>4, <2>3
      <4>2. tokens[t] \in VkTokenRecs
        BY <4>1, <1>1 DEF VkTypeInv, n
      <4>3. cache[p] \in VkCaches(n)
        BY <1>1, <1>3 DEF VkTypeInv, n
      <4> QED BY <4>2, <4>3, <1>1 DEF VkTokenRecs, VkCaches, VkTypeInv
    <3>2. tokenClock >= cache[p].refreshAt /\ cache[p].refreshAt >= tokens[t].born + Remint
      BY <2>3 DEF Remembered, FromStored
    <3>3. tokenClock - tokens[t].born >= Remint
      BY <3>1, <3>2 DEF VkTypes
    <3> QED BY <1>6, <3>3 DEF SafeWith, Harmless
  <2>4. CASE mint[p].pc # "save" /\ KnowsOnly(p, t)
    <3>1. mint'[p].pc # "save"
      BY <1>2, <2>4 DEF FromMemory, FromStored, Mints
    <3>2. ctx'[p] = t /\ cache'[p].token \in {0, t}
      BY <1>2, <2>4 DEF KnowsOnly, FromMemory, FromStored, Mints
    <3>3. req'[r].pc # "force" /\ (req'[r].pc = "send" => req'[r].token = t)
      BY <1>2, <2>4 DEF KnowsOnly, FromMemory, FromStored, Mints
    <3>4. KnowsOnly(p, t)'
      BY <1>2, <2>4, <3>2, <3>3 DEF KnowsOnly
    <3> QED BY <3>1, <3>4 DEF SafeWith
  <2>5. CASE t = 0
    BY <2>5 DEF SafeWith, Harmless
  <2>6. cache'[p] = cache[p] \/ FromStored
    BY <1>2 DEF FromMemory, Mints
  <2> QED BY <1>7, <2>1, <2>2, <2>3, <2>4, <2>5, <2>6 DEF SafeWith
<1>8. mint'[p].pc = "delete" => Harmless(p, mint[p].old)'
  <2> HAVE mint'[p].pc = "delete"
  <2>1. CASE mint' = mint
    <3>1. mint[p].old \in 0 .. n
      BY <1>1, <1>3 DEF VkTypeInv, VkMints, n
    <3>2. Harmless(p, mint[p].old)
      BY <1>5, <2>1 DEF VkOwn
    <3> QED BY <1>2, <2>1, <3>2 DEF Harmless, Vk!Live, Vk!ExpiresAt
  <2>2. CASE Mints /\ mint'[p].old = ctx[p]
    <3> DEFINE o == ctx[p]
    <3>1. o = 0 \/ tokenClock - tokens[o].born >= Ttl - Margin
      BY <2>2 DEF Mints
    <3>2. ASSUME o # 0 PROVE tokenClock - tokens[o].born >= Remint
      <4>1. o \in 1 .. n
        BY <1>4, <1>5, <3>2
      <4>2. tokens[o] \in VkTokenRecs /\ tokenClock \in Nat
        BY <4>1, <1>1 DEF VkTypeInv, n
      <4>3. tokens[o].born \in Nat
        BY <4>2 DEF VkTokenRecs
      <4> QED BY <3>1, <3>2, <4>2, <4>3 DEF VkTypes
    <3>3. tokenClock' = tokenClock /\ tokens' = tokens /\ mint'[p].old = o
      BY <1>2, <2>2
    <3> HIDE DEF o
    <3> QED BY <3>2, <3>3 DEF Harmless
  <2> QED BY <1>2, <2>1, <2>2 DEF FromMemory, FromStored, Mints
<1>9. mint'[p].pc \in {"store", "save"} => mint' = mint
  BY <1>2 DEF FromMemory, FromStored, Mints
<1>10. \A q \in Processes, t \in 1 .. Len(tokens') : t > Len(tokens) => tokens'[t].by # q
  BY <1>2, <1>4 DEF n
<1>11. VkOwn(p)'
  BY <1>1, <1>2, <1>3, <1>5, <1>7, <1>8, <1>9, <1>10, OwnFrom DEF n
<1>12. ASSUME NEW q \in Processes, q # p PROVE VkOwn(q)'
  <2>1. \A s \in Requests : s[1] # p => req'[s] = req[s]
    BY <1>2 DEF p
  <2>2. VkOwn(q) /\ ctx'[q] = ctx[q] /\ cache'[q] = cache[q] /\ mint'[q] = mint[q]
    BY <1>2, <1>12 DEF VkInv
  <2> QED BY <1>1, <1>2, <1>10, <1>12, <2>1, <2>2, OthersStay
<1>13. Spared'
  BY <1>1, <1>2 DEF Spared
<1>14. \A q \in Requests : req'[q].pc = "send" => req'[q].token # 0
  BY <1>2 DEF VkInv, FromMemory, FromStored, Mints
<1> QED BY <1>2, <1>11, <1>12, <1>13, <1>14 DEF VkInv

\* A request is refused its token: whatever it had, that token is gone.
LEMMA SendStep ==
    ASSUME VkTypes, VkInv, NEW r \in Requests, Vk!Send(r)
    PROVE  VkInv'
<1> DEFINE p == r[1]
           n == Len(tokens)
           sent == [req[r] EXCEPT !.pc = IF Vk!Live(req[r].token) THEN "done"
                                         ELSE IF req[r].again THEN "auth" ELSE "force"]
<1>1. VkTypeInv /\ Spared /\ n \in Nat
  BY MintedCount DEF VkInv
<1>2. p \in Processes
  BY DEF VkTypes
<1>3. /\ req[r].pc = "send" /\ req' = [req EXCEPT ![r] = sent]
      /\ tokenClock' = tokenClock /\ tokens' = tokens /\ tokenRow' = tokenRow
      /\ ctx' = ctx /\ cache' = cache /\ mint' = mint
  BY DEF Vk!Send
<1>same. tokenClock' = tokenClock /\ tokens' = tokens /\ tokenRow' = tokenRow
  BY <1>3
<1>4. req \in [Requests -> VkRequests(n)]
  BY <1>1 DEF VkTypeInv
<1>5. /\ sent \in VkRequests(n) /\ sent.pc \in {"done", "auth", "force"}
      /\ sent.pc = "force" => ~Vk!Live(req[r].token)
  BY <1>4 DEF VkRequests
<1> HIDE DEF p, n, sent
<1>6. /\ req' \in [Requests -> VkRequests(n)] /\ req'[r].pc \in {"done", "auth", "force"}
      /\ req'[r].pc = "force" => ~Vk!Live(req[r].token)
      /\ \A q \in Requests : q # r => req'[q] = req[q]
  BY <1>3, <1>4, <1>5
<1>7. TokensLive /\ VkTypeInv'
  <2>1. TokensLive
    BY <1>1, <1>3 DEF TokensLive, VkTypeInv
  <2> QED BY <1>1, <1>3, <1>6, <2>1, TypeStays DEF VkTypeInv, n
<1>8. ASSUME NEW t \in 0 .. n, SafeWith(p, t) PROVE SafeWith(p, t)'
  <2>1. (Harmless(p, t) => Harmless(p, t)') /\ (Remembered(p, t) => Remembered(p, t)')
    BY <1>3 DEF Harmless, Remembered, Vk!Live, Vk!ExpiresAt
  <2>2. CASE mint[p].pc # "save" /\ KnowsOnly(p, t) /\ req'[r].pc # "force"
    <3>1. KnowsOnly(p, t)'
      BY <1>3, <1>6, <2>2 DEF KnowsOnly
    <3> QED BY <1>3, <2>2, <3>1 DEF SafeWith
  <2>3. CASE KnowsOnly(p, t) /\ req'[r].pc = "force"
    <3>1. req[r].token = t
      BY <1>3, <2>3 DEF KnowsOnly, p
    <3>2. Harmless(p, t)
      BY <1>6, <2>3, <3>1 DEF Harmless
    <3> QED BY <2>1, <3>2 DEF SafeWith
  <2> QED BY <1>8, <2>1, <2>2, <2>3 DEF SafeWith
<1>9. VkOwn(p) /\ tokenRow' = tokenRow /\ ctx'[p] = ctx[p] /\ mint'[p] = mint[p]
  BY <1>2, <1>3 DEF VkInv
<1>10. mint'[p].pc = "delete" => Harmless(p, mint[p].old)'
  BY <1>3, <1>9 DEF VkOwn, Harmless, Vk!Live, Vk!ExpiresAt
<1>11. \A q \in Processes, t \in 1 .. Len(tokens') : t > Len(tokens) => tokens'[t].by # q
  BY <1>1, <1>3 DEF n
<1>12. VkOwn(p)'
  BY <1>1, <1>2, <1>7, <1>8, <1>9, <1>10, <1>11, OwnFrom DEF n
<1>13. ASSUME NEW q \in Processes, q # p PROVE VkOwn(q)'
  <2>1. \A s \in Requests : s[1] # p => req'[s] = req[s]
    BY <1>6 DEF p
  <2>2. VkOwn(q) /\ ctx'[q] = ctx[q] /\ cache'[q] = cache[q] /\ mint'[q] = mint[q]
    BY <1>3, <1>13 DEF VkInv
  <2>3. \A t \in 1 .. Len(tokens') : t > Len(tokens) => tokens'[t].by # q
    BY <1>11
  <2> QED BY <1>1, <1>same, <1>7, <1>13, <2>1, <2>2, <2>3, OthersStay
<1>14. Spared'
  BY <1>1, <1>3 DEF Spared
<1>15. \A q \in Requests : req'[q].pc = "send" => req'[q].token # 0
  BY <1>6 DEF VkInv
<1> QED BY <1>7, <1>12, <1>13, <1>14, <1>15 DEF VkInv

\* A refusal: a minting is asked for only when what p remembers is older than Remint.
LEMMA ForceStep ==
    ASSUME VkTypes, VkInv, NEW r \in Requests, Vk!ForceRefresh(r)
    PROVE  VkInv'
<1> DEFINE p == r[1]
           n == Len(tokens)
           young == cache[p].token # 0 /\ tokenClock - cache[p].mintedAt < Remint
           tried == [req[r] EXCEPT !.pc = "get", !.again = TRUE]
<1>1. VkTypeInv /\ Spared /\ n \in Nat
  BY MintedCount DEF VkInv
<1>2. p \in Processes
  BY DEF VkTypes
<1>3. /\ req[r].pc = "force"
      /\ tokenClock' = tokenClock /\ tokens' = tokens /\ tokenRow' = tokenRow /\ ctx' = ctx
      /\ \/ young /\ req' = [req EXCEPT ![r] = tried] /\ UNCHANGED <<cache, mint>>
         \/ ~young /\ cache' = [cache EXCEPT ![p] = Vk!NoCache] /\ Vk!JoinMint(r, "waits again")
  BY DEF Vk!ForceRefresh, Vk!NoToken
<1>same. tokenClock' = tokenClock /\ tokens' = tokens /\ tokenRow' = tokenRow /\ ctx' = ctx
  BY <1>3
<1>4. req \in [Requests -> VkRequests(n)] /\ cache \in [Processes -> VkCaches(n)]
      /\ mint \in [Processes -> VkMints(n)] /\ ctx[p] \in 0 .. n
  BY <1>1, <1>2 DEF VkTypeInv
<1>5. tried \in VkRequests(n) /\ tried.pc = "get"
  BY <1>4 DEF VkRequests
<1> HIDE DEF p, n, tried, young
<1>6. /\ req' \in [Requests -> VkRequests(n)] /\ cache' \in [Processes -> VkCaches(n)]
      /\ mint' \in [Processes -> VkMints(n)]
      /\ \A q \in Requests : q # r => req'[q] = req[q]
      /\ \A q \in Processes : q # p => mint'[q] = mint[q] /\ cache'[q] = cache[q]
      /\ \/ req'[r].pc = "get" /\ cache' = cache /\ mint' = mint
         \/ /\ ~young /\ req'[r].pc = "waits again"
            /\ \/ mint[p].pc # "none" /\ mint' = mint
               \/ mint[p].pc = "none" /\ mint'[p].pc = "delete" /\ mint'[p].old = ctx[p]
  <2>1. CASE req' = [req EXCEPT ![r] = tried] /\ UNCHANGED <<cache, mint>>
    BY <1>4, <1>5, <2>1
  <2>2. CASE ~young /\ cache' = [cache EXCEPT ![p] = Vk!NoCache] /\ Vk!JoinMint(r, "waits again")
    <3>1. Vk!NoCache \in VkCaches(n)
      BY <1>1, VkBlank
    <3>2. cache' \in [Processes -> VkCaches(n)] /\ \A q \in Processes : q # p => cache'[q] = cache[q]
      BY <1>2, <1>4, <2>2, <3>1
    <3>3. /\ mint' \in [Processes -> VkMints(n)] /\ req' \in [Requests -> VkRequests(n)]
          /\ req'[r].pc = "waits again" /\ \A q \in Requests : q # r => req'[q] = req[q]
          /\ \A q \in Processes : q # p => mint'[q] = mint[q]
          /\ \/ mint[p].pc # "none" /\ mint' = mint
             \/ mint[p].pc = "none" /\ mint'[p].pc = "delete" /\ mint'[p].old = ctx[p]
      BY <1>1, <2>2, JoinTypes DEF p, n
    <3> QED BY <2>2, <3>2, <3>3
  <2> QED BY <1>3, <2>1, <2>2
<1>7. TokensLive /\ VkTypeInv'
  <2>1. TokensLive
    BY <1>1, <1>same DEF TokensLive, VkTypeInv
  <2> QED BY <1>1, <1>3, <1>6, <2>1, TypeStays DEF VkTypeInv, n
<1>8. \A t \in 0 .. n : Harmless(p, t) => Harmless(p, t)'
  BY <1>3 DEF Harmless, Vk!Live, Vk!ExpiresAt
\* A request of p was refused, so that p knows of a minting, and it is old if p mints again.
<1>9. ASSUME NEW t \in 0 .. n, SafeWith(p, t)
      PROVE  SafeWith(p, t)' /\ (~young => Harmless(p, t))
  <2>1. ~KnowsOnly(p, t)
    BY <1>3 DEF KnowsOnly, p
  <2>2. CASE Remembered(p, t) /\ t # 0
    <3>1. tokens[t].born \in Nat /\ cache[p].mintedAt \in Int /\ tokenClock \in Nat
      <4>1. t \in 1 .. n
        BY <1>1, <2>2
      <4>2. tokens[t] \in VkTokenRecs
        BY <4>1, <1>1 DEF VkTypeInv, n
      <4>3. cache[p] \in VkCaches(n)
        BY <1>2, <1>4
      <4> QED BY <4>2, <4>3, <1>1 DEF VkTokenRecs, VkCaches, VkTypeInv
    <3>2. ASSUME ~young PROVE Harmless(p, t)
      <4>1. tokenClock - cache[p].mintedAt >= Remint /\ cache[p].mintedAt >= tokens[t].born
        BY <3>1, <3>2, <2>2 DEF young, Remembered, VkTypes
      <4> QED BY <3>1, <4>1 DEF Harmless, VkTypes
    <3>3. cache'[p] = cache[p] \/ ~young
      BY <1>6
    <3>4. CASE cache'[p] = cache[p]
      BY <1>3, <2>2, <3>2, <3>4 DEF SafeWith, Remembered
    <3> QED BY <1>8, <3>2, <3>3, <3>4 DEF SafeWith
  <2>3. CASE Harmless(p, t)
    BY <1>8, <2>3 DEF SafeWith
  <2>4. CASE t = 0
    BY <2>4 DEF SafeWith, Harmless
  <2> QED BY <1>9, <2>1, <2>2, <2>3, <2>4 DEF SafeWith
<1>10. VkOwn(p) /\ tokenRow' = tokenRow /\ ctx'[p] = ctx[p] /\ SafeWith(p, ctx[p])
  BY <1>2, <1>3 DEF VkInv, VkOwn
<1>11. mint'[p].pc = "delete" => Harmless(p, mint[p].old)'
  <2> HAVE mint'[p].pc = "delete"
  <2>1. CASE mint' = mint
    BY <1>3, <1>10, <2>1 DEF VkOwn, Harmless, Vk!Live, Vk!ExpiresAt
  <2>2. CASE ~young /\ mint'[p].old = ctx[p]
    <3>1. Harmless(p, ctx[p])
      BY <1>4, <1>9, <1>10, <2>2
    <3> QED BY <1>3, <2>2, <3>1 DEF Harmless, Vk!Live, Vk!ExpiresAt
  <2> QED BY <1>6, <2>1, <2>2
<1>12. mint'[p].pc \in {"store", "save"} => mint' = mint
  BY <1>6
<1>13. \A q \in Processes, t \in 1 .. Len(tokens') : t > Len(tokens) => tokens'[t].by # q
  BY <1>1, <1>same DEF n
<1>14. VkOwn(p)'
  BY <1>1, <1>2, <1>7, <1>9, <1>10, <1>11, <1>12, <1>13, OwnFrom DEF n
<1>15. ASSUME NEW q \in Processes, q # p PROVE VkOwn(q)'
  <2>1. \A s \in Requests : s[1] # p => req'[s] = req[s]
    BY <1>6 DEF p
  <2>2. VkOwn(q) /\ ctx'[q] = ctx[q] /\ cache'[q] = cache[q] /\ mint'[q] = mint[q]
    BY <1>3, <1>6, <1>15 DEF VkInv
  <2> QED BY <1>1, <1>3, <1>7, <1>13, <1>15, <2>1, <2>2, OthersStay
<1>16. Spared'
  BY <1>1, <1>3 DEF Spared
<1>17. \A q \in Requests : req'[q].pc = "send" => req'[q].token # 0
  BY <1>6 DEF VkInv
<1> QED BY <1>7, <1>14, <1>15, <1>16, <1>17 DEF VkInv

\* Tokens that end, as the rest of the model sees them.
LEMMA EndedLive ==
    ASSUME VkTypes, VkTypeInv, NEW ts, NEW how \in Processes \cup {"limit", "outside"},
           tokens' = Vk!Ended(ts, how), tokenClock' = tokenClock
    PROVE  /\ TokensLive /\ tokens' \in Seq(VkTokenRecs) /\ Len(tokens') = Len(tokens)
           /\ \A t \in 1 .. Len(tokens') : tokens'[t].born <= tokenClock'
           /\ \A t \in 1 .. Len(tokens') :
                \/ t <= Len(tokens) /\ tokens'[t] = tokens[t]
                \/ t \in ts /\ Vk!Live(t) /\ tokens'[t].end = how /\ tokens'[t].died = tokenClock
                   /\ tokens'[t].by = tokens[t].by /\ tokens'[t].born = tokens[t].born
<1> DEFINE n == Len(tokens)
<1>1. n \in Nat /\ tokenClock \in Nat
  BY MintedCount DEF VkTypeInv
<1>2. /\ tokens' \in Seq(VkTokenRecs) /\ Len(tokens') = n
      /\ \A t \in 1 .. n : /\ tokens'[t].by = tokens[t].by /\ tokens'[t].born = tokens[t].born
                           /\ \/ tokens'[t] = tokens[t]
                              \/ t \in ts /\ Vk!Live(t) /\ tokens'[t].end = how /\ tokens'[t].died = tokenClock
  BY EndedOK
<1>3. how # "live"
  BY DEF VkTypes
<1>4. TokensLive
  BY <1>1, <1>2, <1>3 DEF TokensLive
<1>5. \A t \in 1 .. n : tokens'[t].born <= tokenClock'
  BY <1>2 DEF VkTypeInv
<1>6. \A t \in 1 .. n : t <= n
  BY <1>1
<1> QED BY <1>2, <1>4, <1>5, <1>6

\* A token that is minted, as the rest of the model sees it.
LEMMA MintedLive ==
    ASSUME VkTypes, VkTypeInv, NEW p \in Processes, tokens' = Vk!Minted(p), tokenClock' = tokenClock
    PROVE  /\ TokensLive /\ tokens' \in Seq(VkTokenRecs) /\ Len(tokens') = Len(tokens) + 1
           /\ \A t \in 1 .. Len(tokens') : tokens'[t].born <= tokenClock'
           /\ \A t \in 1 .. Len(tokens') : \/ t <= Len(tokens) /\ tokens'[t] = tokens[t]
                                           \/ /\ t = Len(tokens) + 1 /\ tokens'[t].by = p
                                              /\ tokens'[t].born = tokenClock /\ tokens'[t].end \notin Processes
<1> DEFINE n == Len(tokens)
           new == [by |-> p, born |-> tokenClock, end |-> "live", died |-> 0]
<1>1. n \in Nat
  BY MintedCount
<1>2. /\ tokens' \in Seq(VkTokenRecs) /\ Len(tokens') = n + 1 /\ tokens'[n + 1] = new
      /\ \A t \in 1 .. n : tokens'[t] = tokens[t]
  BY MintedOK
<1>3. new.by = p /\ new.born = tokenClock /\ new.end \notin Processes
  BY DEF VkTypes
<1> HIDE DEF n, new
<1>4. \A t \in 1 .. n + 1 : (t \in 1 .. n /\ t <= n) \/ t = n + 1
  BY <1>1
<1>5. ASSUME NEW t \in 1 .. Len(tokens')
      PROVE  \/ t <= n /\ t \in 1 .. n /\ tokens'[t] = tokens[t]
             \/ /\ t = n + 1 /\ tokens'[t].by = p
                /\ tokens'[t].born = tokenClock /\ tokens'[t].end \notin Processes
  BY <1>2, <1>3, <1>4
<1>6. tokenClock \in Nat /\ \A t \in 1 .. n : tokens[t].born <= tokenClock
  BY DEF VkTypeInv, n
<1>7. TokensLive
  BY <1>1, <1>2, <1>6 DEF TokensLive, n
<1>8. \A t \in 1 .. Len(tokens') : tokens'[t].born <= tokenClock'
  BY <1>5, <1>6
<1> QED BY <1>2, <1>5, <1>7, <1>8 DEF n

\* Steps in which no process comes to know anything.
LEMMA QuietStep ==
    ASSUME VkTypes, VkInv, TokensLive, tokens' \in Seq(VkTokenRecs), tokenClock' \in Nat,
           \A t \in 1 .. Len(tokens') : tokens'[t].born <= tokenClock',
           tokenRow' = tokenRow, ctx' = ctx, cache' = cache,
           mint' \in [Processes -> VkMints(Len(tokens))], req' \in [Requests -> VkRequests(Len(tokens))],
           \A p \in Processes : Idles(p),
           \A t \in 1 .. Len(tokens') : \/ t <= Len(tokens) /\ tokens'[t] = tokens[t]
                                        \/ tokens'[t].end \notin Processes
                                        \/ tokens'[t].end = tokens'[t].by =>
                                             tokens'[t].died - tokens'[t].born >= Remint,
           \A r \in Requests : req'[r].pc = "send" => req'[r] = req[r]
    PROVE  VkInv'
<1>1. VkTypeInv /\ Spared /\ Len(tokens) \in Nat
  BY MintedCount DEF VkInv
<1>2. Len(tokens') \in Nat /\ Len(tokens) <= Len(tokens')
  BY DEF TokensLive
<1>3. VkMints(Len(tokens)) \subseteq VkMints(Len(tokens'))
  <2> DEFINE n == Len(tokens)
             m == Len(tokens')
  <2>1. n \in Nat /\ m \in Nat /\ n <= m
    BY <1>1, <1>2
  <2> HIDE DEF n, m
  <2>2. 0 .. n \subseteq 0 .. m
    BY <2>1
  <2>3. VkMints(n) \subseteq VkMints(m)
    BY <2>2 DEF VkMints
  <2> QED BY <2>3 DEF n, m
<1>4. mint' \in [Processes -> VkMints(Len(tokens'))]
  BY <1>3
<1>5. VkTypeInv'
  BY <1>1, <1>4, TypeStays DEF VkTypeInv
<1>6. \A p \in Processes : VkOwn(p)'
  BY <1>1, <1>5, OwnStays DEF VkInv
<1>7. Spared'
  BY <1>1, <1>5, SparedStays
<1>8. \A r \in Requests : req'[r].pc = "send" => req'[r].token # 0
  BY DEF VkInv
<1> QED BY <1>5, <1>6, <1>7, <1>8 DEF VkInv

\* What the minting of p does to the others, and to p, when only its place moves.
LEMMA MintGoesTypes ==
    ASSUME VkTypeInv, NEW p \in Processes, NEW pc \in {"delete", "ask", "release", "ask again", "save"},
           Vk!MintGoes(p, pc)
    PROVE  /\ mint' \in [Processes -> VkMints(Len(tokens))] /\ mint'[p].pc = pc
           /\ mint'[p].token = mint[p].token
           /\ \A q \in Processes : q # p => mint'[q] = mint[q]
<1> DEFINE n == Len(tokens)
           over == [mint[p] EXCEPT !.pc = pc]
<1>1. mint \in [Processes -> VkMints(n)]
  BY DEF VkTypeInv
<1>2. over \in VkMints(n) /\ over.pc = pc /\ over.token = mint[p].token
  BY <1>1 DEF VkMints
<1>3. mint' = [mint EXCEPT ![p] = over]
  BY DEF Vk!MintGoes
<1> HIDE DEF over
<1> QED BY <1>1, <1>2, <1>3

\* The known token is deleted: it was harmless for p to do it.
LEMMA DeleteStep ==
    ASSUME VkTypes, VkInv, NEW p \in Processes, Vk!DeleteKnown(p)
    PROVE  VkInv'
<1> DEFINE o == mint[p].old
<1>1. VkTypeInv /\ Len(tokens) \in Nat
  BY MintedCount DEF VkInv
<1>2. /\ mint[p].pc = "delete" /\ Vk!MintGoes(p, "ask") /\ tokenClock' = tokenClock
      /\ tokenRow' = tokenRow /\ ctx' = ctx /\ cache' = cache /\ req' = req
      /\ tokens' = Vk!Ended({o}, p) \/ tokens' = tokens
  BY DEF Vk!DeleteKnown, Vk!MintAt
<1>3. Harmless(p, o)
  BY <1>2 DEF VkInv, VkOwn
<1>4. /\ mint' \in [Processes -> VkMints(Len(tokens))] /\ mint'[p].pc = "ask"
      /\ \A q \in Processes : q # p => mint'[q] = mint[q]
  BY <1>1, <1>2, MintGoesTypes
<1>5. tokenClock \in Nat /\ tokens \in Seq(VkTokenRecs) /\ req \in [Requests -> VkRequests(Len(tokens))]
      /\ \A t \in 1 .. Len(tokens) : tokens[t].born <= tokenClock
  BY <1>1 DEF VkTypeInv
<1>6. /\ TokensLive /\ tokens' \in Seq(VkTokenRecs) /\ Len(tokens') = Len(tokens)
      /\ \A t \in 1 .. Len(tokens') : tokens'[t].born <= tokenClock'
      /\ \A t \in 1 .. Len(tokens') : \/ t <= Len(tokens) /\ tokens'[t] = tokens[t]
                                      \/ tokens'[t].end \notin Processes
                                      \/ tokens'[t].end = tokens'[t].by =>
                                           tokens'[t].died - tokens'[t].born >= Remint
  <2>1. CASE tokens' = Vk!Ended({o}, p)
    <3>1. /\ TokensLive /\ tokens' \in Seq(VkTokenRecs) /\ Len(tokens') = Len(tokens)
          /\ \A t \in 1 .. Len(tokens') : tokens'[t].born <= tokenClock'
          /\ \A t \in 1 .. Len(tokens') :
               \/ t <= Len(tokens) /\ tokens'[t] = tokens[t]
               \/ t \in {o} /\ Vk!Live(t) /\ tokens'[t].end = p /\ tokens'[t].died = tokenClock
                  /\ tokens'[t].by = tokens[t].by /\ tokens'[t].born = tokens[t].born
      BY <1>1, <1>2, <2>1, EndedLive
    <3>2. ASSUME NEW t \in 1 .. Len(tokens'), t = o, Vk!Live(t), tokens'[t].end = p, tokens'[t].died = tokenClock,
                 tokens'[t].by = tokens[t].by, tokens'[t].born = tokens[t].born,
                 tokens'[t].end = tokens'[t].by
          PROVE  tokens'[t].died - tokens'[t].born >= Remint
      <4>1. t # 0
        OBVIOUS
      <4> QED BY <4>1, <1>3, <3>2 DEF Harmless
    <3>3. \A t \in 1 .. Len(tokens') :
               \/ t <= Len(tokens) /\ tokens'[t] = tokens[t]
               \/ tokens'[t].end = tokens'[t].by => tokens'[t].died - tokens'[t].born >= Remint
      BY <3>1, <3>2
    <3> QED BY <3>1, <3>3
  <2>2. CASE tokens' = tokens
    BY <1>1, <1>2, <1>5, <2>2 DEF TokensLive
  <2> QED BY <1>2, <2>1, <2>2
<1>7. ASSUME NEW q \in Processes PROVE Idles(q)
  <2>1. Calm(q)
    BY <1>2, <1>4 DEF Calm
  <2>2. \A t \in 1 .. Len(tokens') : ~(t > Len(tokens))
    BY <1>1, <1>6
  <2> QED BY <1>2, <1>4, <2>1, <2>2 DEF Idles
<1> QED BY <1>2, <1>4, <1>5, <1>6, <1>7, QuietStep

\* At the limit the minting asks for a release, or is lost.
LEMMA LimitStep ==
    ASSUME VkTypes, VkInv, NEW p \in Processes, Vk!AtTheLimit(p)
    PROVE  VkInv'
<1>1. VkTypeInv /\ Len(tokens) \in Nat
  BY MintedCount DEF VkInv
<1>2. /\ tokenClock' = tokenClock /\ tokens' = tokens /\ tokenRow' = tokenRow /\ ctx' = ctx /\ cache' = cache
      /\ (Vk!MintGoes(p, "release") /\ req' = req) \/ Vk!MintFailed(p)
  BY DEF Vk!AtTheLimit
<1>3. req \in [Requests -> VkRequests(Len(tokens))]
  BY <1>1 DEF VkTypeInv
<1>4. /\ mint' \in [Processes -> VkMints(Len(tokens))] /\ mint'[p].pc \in {"release", "none"}
      /\ req' \in [Requests -> VkRequests(Len(tokens))]
      /\ \A q \in Processes : q # p => mint'[q] = mint[q]
      /\ \A r \in Requests : req'[r] = req[r] \/ req'[r].pc = "error"
  <2>1. CASE Vk!MintGoes(p, "release") /\ req' = req
    BY <1>1, <1>3, <2>1, MintGoesTypes
  <2>2. CASE Vk!MintFailed(p)
    BY <1>1, <2>2, FailedTypes
  <2> QED BY <1>2, <2>1, <2>2
<1>5. tokenClock \in Nat /\ tokens \in Seq(VkTokenRecs) /\ TokensLive
      /\ \A t \in 1 .. Len(tokens) : tokens[t].born <= tokenClock
  BY <1>1, <1>2 DEF VkTypeInv, TokensLive
<1>6. ASSUME NEW q \in Processes PROVE Idles(q)
  <2>1. Calm(q)
    BY <1>2, <1>4 DEF Calm
  <2>2. \A t \in 1 .. Len(tokens') : t <= Len(tokens) /\ ~(t > Len(tokens))
    BY <1>1, <1>2
  <2> QED BY <1>2, <1>4, <2>1, <2>2 DEF Idles
<1>7. \A t \in 1 .. Len(tokens') : t <= Len(tokens) /\ tokens'[t] = tokens[t]
  BY <1>1, <1>2
<1>8. \A r \in Requests : req'[r].pc = "send" => req'[r] = req[r]
  BY <1>4
<1> QED BY <1>2, <1>4, <1>5, <1>6, <1>7, <1>8, QuietStep

\* All of the user's tokens end at the limit: that is not the process's own deletion.
LEMMA ReleaseStep ==
    ASSUME VkTypes, VkInv, NEW p \in Processes, Vk!Release(p)
    PROVE  VkInv'
<1>1. VkTypeInv /\ Len(tokens) \in Nat
  BY MintedCount DEF VkInv
<1>2. /\ tokenClock' = tokenClock /\ tokenRow' = tokenRow /\ ctx' = ctx /\ cache' = cache /\ req' = req
      /\ Vk!MintGoes(p, "ask again")
  BY DEF Vk!Release
<1>3. tokenClock \in Nat /\ tokens \in Seq(VkTokenRecs) /\ req \in [Requests -> VkRequests(Len(tokens))]
      /\ \A t \in 1 .. Len(tokens) : tokens[t].born <= tokenClock
  BY <1>1 DEF VkTypeInv
<1>4. /\ mint' \in [Processes -> VkMints(Len(tokens))] /\ mint'[p].pc = "ask again"
      /\ \A q \in Processes : q # p => mint'[q] = mint[q]
  BY <1>1, <1>2, MintGoesTypes DEF Vk!Release
<1>5. /\ TokensLive /\ tokens' \in Seq(VkTokenRecs) /\ Len(tokens') = Len(tokens)
      /\ \A t \in 1 .. Len(tokens') : tokens'[t].born <= tokenClock'
      /\ \A t \in 1 .. Len(tokens') : \/ t <= Len(tokens) /\ tokens'[t] = tokens[t]
                                      \/ tokens'[t].end \notin Processes
  <2>1. CASE tokens' = Vk!Ended(Vk!LiveTokens, "limit")
    <3> PICK ts : tokens' = Vk!Ended(ts, "limit")
      BY <2>1
    <3>1. VkTypeInv /\ tokens' = Vk!Ended(ts, "limit") /\ tokenClock' = tokenClock
      BY <1>1, <1>2
    <3>2. /\ TokensLive /\ tokens' \in Seq(VkTokenRecs) /\ Len(tokens') = Len(tokens)
          /\ \A t \in 1 .. Len(tokens') : tokens'[t].born <= tokenClock'
          /\ \A t \in 1 .. Len(tokens') :
               \/ t <= Len(tokens) /\ tokens'[t] = tokens[t]
               \/ t \in ts /\ Vk!Live(t) /\ tokens'[t].end = "limit" /\ tokens'[t].died = tokenClock
                  /\ tokens'[t].by = tokens[t].by /\ tokens'[t].born = tokens[t].born
      BY <3>1, EndedLive
    <3>3. "limit" \notin Processes
      BY DEF VkTypes
    <3> QED BY <3>2, <3>3
  <2>2. CASE tokens' = tokens
    <3>1. TokensLive
      <4>1. Len(tokens) \in Nat /\ tokenClock \in Nat /\ tokenClock' = tokenClock
        BY <1>1, <1>2, <1>3
      <4> QED BY <4>1, <2>2 DEF TokensLive
    <3>2. \A t \in 1 .. Len(tokens') : t <= Len(tokens) /\ tokens'[t] = tokens[t]
      BY <1>1, <2>2
    <3> QED BY <1>2, <1>3, <2>2, <3>1, <3>2
  <2>3. tokens' = Vk!Ended(Vk!LiveTokens, "limit") \/ tokens' = tokens
    BY DEF Vk!Release
  <2> QED BY <2>1, <2>2, <2>3
<1>6. ASSUME NEW q \in Processes PROVE Idles(q)
  <2>1. Calm(q)
    BY <1>2, <1>4 DEF Calm
  <2>2. \A t \in 1 .. Len(tokens') : ~(t > Len(tokens))
    BY <1>1, <1>5
  <2> QED BY <1>2, <1>4, <2>1, <2>2 DEF Idles
<1> QED BY <1>2, <1>3, <1>4, <1>5, <1>6, QuietStep

\* The request for a token fails, or its answer is lost with a token minted.
LEMMA AskFailsStep ==
    ASSUME VkTypes, VkInv, NEW p \in Processes, Vk!AskFails(p)
    PROVE  VkInv'
<1>1. VkTypeInv /\ Len(tokens) \in Nat
  BY MintedCount DEF VkInv
<1>2. /\ tokenClock' = tokenClock /\ tokenRow' = tokenRow /\ ctx' = ctx /\ cache' = cache
      /\ Vk!MintFailed(p) /\ (tokens' = tokens \/ tokens' = Vk!Minted(p))
  BY DEF Vk!AskFails
<1>3. tokenClock \in Nat /\ tokens \in Seq(VkTokenRecs)
      /\ \A t \in 1 .. Len(tokens) : tokens[t].born <= tokenClock
  BY <1>1 DEF VkTypeInv
<1>4. /\ mint' \in [Processes -> VkMints(Len(tokens))] /\ mint'[p].pc = "none"
      /\ req' \in [Requests -> VkRequests(Len(tokens))]
      /\ \A q \in Processes : q # p => mint'[q] = mint[q]
      /\ \A r \in Requests : req'[r] = req[r] \/ req'[r].pc = "error"
  BY <1>1, <1>2, FailedTypes
<1>5. /\ TokensLive /\ tokens' \in Seq(VkTokenRecs)
      /\ \A t \in 1 .. Len(tokens') : tokens'[t].born <= tokenClock'
      /\ \A t \in 1 .. Len(tokens') : \/ t <= Len(tokens) /\ tokens'[t] = tokens[t]
                                      \/ t > Len(tokens) /\ tokens'[t].by = p /\ tokens'[t].end \notin Processes
  <2>1. CASE tokens' = Vk!Minted(p)
    <3>1. /\ TokensLive /\ tokens' \in Seq(VkTokenRecs) /\ Len(tokens') = Len(tokens) + 1
          /\ \A t \in 1 .. Len(tokens') : tokens'[t].born <= tokenClock'
          /\ \A t \in 1 .. Len(tokens') : \/ t <= Len(tokens) /\ tokens'[t] = tokens[t]
                                          \/ /\ t = Len(tokens) + 1 /\ tokens'[t].by = p
                                             /\ tokens'[t].born = tokenClock /\ tokens'[t].end \notin Processes
      BY <1>1, <1>2, <2>1, MintedLive
    <3>2. Len(tokens) + 1 > Len(tokens)
      BY <1>1
    <3> QED BY <3>1, <3>2
  <2>2. CASE tokens' = tokens
    BY <1>1, <1>2, <1>3, <2>2 DEF TokensLive
  <2> QED BY <1>2, <2>1, <2>2
<1>6. ASSUME NEW q \in Processes PROVE Idles(q)
  <2>1. Calm(q)
    BY <1>2, <1>4 DEF Calm
  <2>2. \A t \in 1 .. Len(tokens') : t > Len(tokens) => tokens'[t].by = p
    BY <1>1, <1>5
  <2> QED BY <1>2, <1>4, <2>1, <2>2 DEF Idles
<1>7. \A r \in Requests : req'[r].pc = "send" => req'[r] = req[r]
  BY <1>4
<1> QED BY <1>2, <1>3, <1>4, <1>5, <1>6, <1>7, QuietStep

\* Somebody revokes a token, or time passes.
LEMMA OutsideStep ==
    ASSUME VkTypes, VkInv, Vk!RevokedOutside \/ Vk!Tick
    PROVE  VkInv'
<1>1. VkTypeInv /\ Len(tokens) \in Nat
  BY MintedCount DEF VkInv
<1>2. tokenClock \in Nat /\ tokens \in Seq(VkTokenRecs) /\ req \in [Requests -> VkRequests(Len(tokens))]
      /\ mint \in [Processes -> VkMints(Len(tokens))]
      /\ \A t \in 1 .. Len(tokens) : tokens[t].born <= tokenClock
  BY <1>1 DEF VkTypeInv
<1>3. tokenRow' = tokenRow /\ ctx' = ctx /\ cache' = cache /\ mint' = mint /\ req' = req
  BY DEF Vk!RevokedOutside, Vk!Tick
<1>4. /\ TokensLive /\ tokens' \in Seq(VkTokenRecs) /\ Len(tokens') = Len(tokens) /\ tokenClock' \in Nat
      /\ \A t \in 1 .. Len(tokens') : tokens'[t].born <= tokenClock'
      /\ \A t \in 1 .. Len(tokens') : \/ t <= Len(tokens) /\ tokens'[t] = tokens[t]
                                      \/ tokens'[t].end \notin Processes
  <2>1. CASE Vk!RevokedOutside
    <3>1. \E ts : tokens' = Vk!Ended(ts, "outside")
      BY <2>1 DEF Vk!RevokedOutside
    <3>2. tokenClock' = tokenClock
      BY <2>1 DEF Vk!RevokedOutside
    <3> PICK ts : tokens' = Vk!Ended(ts, "outside")
      BY <3>1
    <3>3. /\ TokensLive /\ tokens' \in Seq(VkTokenRecs) /\ Len(tokens') = Len(tokens)
          /\ \A t \in 1 .. Len(tokens') : tokens'[t].born <= tokenClock'
          /\ \A t \in 1 .. Len(tokens') : \/ t <= Len(tokens) /\ tokens'[t] = tokens[t]
                                          \/ tokens'[t].end = "outside"
      BY <1>1, <3>1, <3>2, EndedLive
    <3>4. "outside" \notin Processes
      BY DEF VkTypes
    <3> QED BY <1>2, <3>2, <3>3, <3>4
  <2>2. CASE Vk!Tick
    <3>1. tokens' = tokens /\ tokenClock' = tokenClock + 1
      BY <2>2 DEF Vk!Tick
    <3>2. tokenClock' \in Nat /\ tokenClock <= tokenClock'
      BY <1>2, <3>1
    <3>3. \A t \in 1 .. Len(tokens) : tokens[t].born \in Nat /\ tokens[t].born <= tokenClock'
      <4> SUFFICES ASSUME NEW t \in 1 .. Len(tokens)
                   PROVE  tokens[t].born \in Nat /\ tokens[t].born <= tokenClock'
        OBVIOUS
      <4>1. tokens[t] \in VkTokenRecs /\ tokens[t].born <= tokenClock
        BY <1>2
      <4>2. tokens[t].born \in Nat
        BY <4>1 DEF VkTokenRecs
      <4> QED BY <1>2, <3>2, <4>1, <4>2
    <3> QED BY <1>1, <1>2, <3>1, <3>2, <3>3 DEF TokensLive
  <2> QED BY <2>1, <2>2
<1>5. ASSUME NEW q \in Processes PROVE Idles(q)
  <2>1. Calm(q)
    BY <1>3 DEF Calm
  <2>2. \A t \in 1 .. Len(tokens') : ~(t > Len(tokens))
    BY <1>1, <1>4
  <2> QED BY <1>3, <2>1, <2>2 DEF Idles
<1> QED BY <1>2, <1>3, <1>4, <1>5, QuietStep

\* A token is minted: the youngest there is.
LEMMA AskStep ==
    ASSUME VkTypes, VkInv, NEW p \in Processes, Vk!Ask(p)
    PROVE  VkInv'
<1> DEFINE n == Len(tokens)
           over == [mint[p] EXCEPT !.pc = "store", !.token = n + 1]
<1>1. VkTypeInv /\ Spared /\ n \in Nat
  BY MintedCount DEF VkInv
<1>2. /\ tokenClock' = tokenClock /\ tokenRow' = tokenRow /\ ctx' = ctx /\ cache' = cache /\ req' = req
      /\ tokens' = Vk!Minted(p) /\ mint' = [mint EXCEPT ![p] = over]
  BY DEF Vk!Ask
<1>3. mint \in [Processes -> VkMints(n)] /\ req \in [Requests -> VkRequests(n)] /\ tokenClock \in Nat
  BY <1>1 DEF VkTypeInv
<1>4. /\ TokensLive /\ tokens' \in Seq(VkTokenRecs) /\ Len(tokens') = n + 1
      /\ \A t \in 1 .. Len(tokens') : tokens'[t].born <= tokenClock'
      /\ \A t \in 1 .. Len(tokens') : \/ t <= n /\ tokens'[t] = tokens[t]
                                      \/ /\ t = n + 1 /\ tokens'[t].by = p
                                         /\ tokens'[t].born = tokenClock /\ tokens'[t].end \notin Processes
  BY <1>1, <1>2, MintedLive
<1> HIDE DEF n
<1>5. /\ mint' \in [Processes -> VkMints(n + 1)] /\ mint'[p].pc = "store" /\ mint'[p].token = n + 1
      /\ \A q \in Processes : q # p => mint'[q] = mint[q]
  <2>1. 0 .. n \subseteq 0 .. n + 1 /\ n + 1 \in 0 .. n + 1
    BY <1>1
  <2>2. VkMints(n) \subseteq VkMints(n + 1)
    BY <2>1 DEF VkMints
  <2>3. mint[p] \in VkMints(n + 1) /\ mint \in [Processes -> VkMints(n + 1)]
    BY <1>3, <2>2
  <2>4. over \in VkMints(n + 1) /\ over.pc = "store" /\ over.token = n + 1
    BY <2>1, <2>3 DEF VkMints
  <2> HIDE DEF over
  <2> QED BY <1>2, <2>3, <2>4
<1>6. VkTypeInv'
  BY <1>1, <1>2, <1>3, <1>4, <1>5, TypeStays DEF VkTypeInv, n
<1>7. VkOwn(p)'
  <2>1. VkOwn(p) /\ tokenRow \in 0 .. n /\ ctx[p] \in 0 .. n
    BY <1>1 DEF VkInv, VkTypeInv, n
  <2>2. Calm(p)
    BY <1>2, <1>5 DEF Calm
  <2>3. \A t \in 0 .. n : SafeWith(p, t) => SafeWith(p, t)'
    BY <1>1, <1>4, <1>6, <2>2, SafeStays DEF n
  <2>4. SafeWith(p, tokenRow)' /\ SafeWith(p, ctx[p])'
    BY <1>2, <2>1, <2>3 DEF VkOwn, SafeWith, Harmless, Remembered, KnowsOnly, Vk!Live, Vk!ExpiresAt
  <2>5. n + 1 # 0 /\ n + 1 \in 1 .. n + 1 /\ ~(n + 1 <= n)
    BY <1>1
  <2>6. tokens'[n + 1].by = p /\ tokens'[n + 1].born = tokenClock
    BY <1>4, <2>5
  <2>7. \A t \in 1 .. Len(tokens') : tokens'[t].born <= tokens'[n + 1].born
    BY <1>2, <1>4, <2>6
  <2> QED BY <1>5, <2>4, <2>5, <2>6, <2>7 DEF VkOwn
<1>8. ASSUME NEW q \in Processes, q # p PROVE VkOwn(q)'
  <2>1. \A t \in 1 .. Len(tokens') : t > n => tokens'[t].by # q
    <3> SUFFICES ASSUME NEW t \in 1 .. Len(tokens'), t > n PROVE tokens'[t].by # q
      OBVIOUS
    <3>1. ~(t <= n)
      BY <1>1, <1>4
    <3> QED BY <1>4, <1>8, <3>1
  <2>2. VkOwn(q) /\ ctx'[q] = ctx[q] /\ cache'[q] = cache[q] /\ mint'[q] = mint[q]
    BY <1>2, <1>5, <1>8 DEF VkInv
  <2> QED BY <1>1, <1>2, <1>4, <1>6, <1>8, <2>1, <2>2, OthersStay DEF n
<1>9. Spared'
  BY <1>1, <1>4, <1>6, SparedStays DEF n
<1>10. \A r \in Requests : req'[r].pc = "send" => req'[r].token # 0
  BY <1>2 DEF VkInv
<1> QED BY <1>6, <1>7, <1>8, <1>9, <1>10 DEF VkInv

\* The minting is remembered: all that p ever minted is no younger.
LEMMA StoreStep ==
    ASSUME VkTypes, VkInv, NEW p \in Processes, Vk!Store(p)
    PROVE  VkInv'
<1> DEFINE n == Len(tokens)
           k == mint[p].token
           kept == [token |-> k, mintedAt |-> tokenClock, refreshAt |-> Vk!ExpiresAt(k) - Vk!RefreshMargin]
<1>1. VkTypeInv /\ Spared /\ n \in Nat
  BY MintedCount DEF VkInv
<1>2. /\ tokenClock' = tokenClock /\ tokens' = tokens /\ tokenRow' = tokenRow /\ req' = req
      /\ mint[p].pc = "store" /\ cache' = [cache EXCEPT ![p] = kept] /\ Vk!MintGoes(p, "save")
      /\ ctx' = ctx \/ ctx' = [ctx EXCEPT ![p] = k]
  BY DEF Vk!Store, Vk!MintAt
<1>3. /\ mint \in [Processes -> VkMints(n)] /\ req \in [Requests -> VkRequests(n)] /\ tokenClock \in Nat
      /\ tokenRow \in 0 .. n /\ ctx \in [Processes -> 0 .. n] /\ cache \in [Processes -> VkCaches(n)]
      /\ \A t \in 1 .. n : tokens[t] \in VkTokenRecs /\ tokens[t].born <= tokenClock
  BY <1>1 DEF VkTypeInv
<1>4. k \in 1 .. n /\ tokens[k].by = p
      /\ \A t \in 1 .. n : tokens[t].by = p => tokens[t].born <= tokens[k].born
  <2>1. k \in 0 .. n
    BY <1>3 DEF VkMints
  <2>2. k # 0
    BY <1>2 DEF VkInv, VkOwn
  <2>3. k \in 1 .. n
    BY <1>1, <2>1, <2>2
  <2> QED BY <1>2, <2>3 DEF VkInv, VkOwn
<1>5. tokens[k].born \in Nat /\ tokens[k].born <= tokenClock
  BY <1>3, <1>4 DEF VkTokenRecs
<1>6. Vk!RefreshMargin \in Int /\ Ttl - Vk!RefreshMargin >= Remint
  <2>1. Ttl \div 2 \in Int
    BY DEF VkTypes
  <2> QED BY <2>1 DEF Vk!RefreshMargin, Vk!Lower, VkTypes
<1>7. /\ kept \in VkCaches(n) /\ kept.token = k /\ kept.mintedAt = tokenClock
      /\ kept.refreshAt >= tokens[k].born + Remint
  <2> DEFINE at == Vk!ExpiresAt(k) - Vk!RefreshMargin
  <2>1. at = tokens[k].born + Ttl - Vk!RefreshMargin
    BY <1>5, <1>6 DEF Vk!ExpiresAt, VkTypes
  <2>2. at \in Int /\ at >= tokens[k].born + Remint
    BY <1>5, <1>6, <2>1 DEF VkTypes
  <2>3. k \in 0 .. n
    BY <1>4
  <2> HIDE DEF at, k, n
  <2> QED BY <1>3, <2>2, <2>3 DEF VkCaches, at
<1> HIDE DEF n, k, kept
<1>8. /\ cache' \in [Processes -> VkCaches(n)] /\ cache'[p] = kept
      /\ \A q \in Processes : q # p => cache'[q] = cache[q]
  BY <1>2, <1>3, <1>7
<1>9. /\ ctx' \in [Processes -> 0 .. n] /\ \A q \in Processes : q # p => ctx'[q] = ctx[q]
  <2>1. k \in 0 .. n
    BY <1>1, <1>4
  <2>2. CASE ctx' = ctx
    BY <1>3, <2>2
  <2>3. CASE ctx' = [ctx EXCEPT ![p] = k]
    BY <1>3, <2>1, <2>3
  <2> QED BY <1>2, <2>2, <2>3
<1>10. /\ mint' \in [Processes -> VkMints(n)] /\ mint'[p].pc = "save" /\ mint'[p].token = k
       /\ \A q \in Processes : q # p => mint'[q] = mint[q]
  BY <1>1, <1>2, MintGoesTypes DEF n, k
<1>11. TokensLive
  <2>1. Len(tokens) \in Nat /\ tokenClock \in Nat /\ tokenClock' = tokenClock /\ tokens' = tokens
    BY <1>1, <1>2, <1>3 DEF n
  <2> QED BY <2>1 DEF TokensLive
<1>12. VkTypeInv'
  BY <1>1, <1>2, <1>3, <1>8, <1>9, <1>10, <1>11, TypeStays DEF VkTypeInv, n
<1>13. ASSUME NEW t \in 0 .. n PROVE SafeWith(p, t)'
  <2>1. CASE t = 0
    BY <2>1 DEF SafeWith, Harmless
  <2>2. CASE t # 0 /\ tokens[t].by # p
    BY <1>2, <2>2 DEF SafeWith, Harmless
  <2>3. CASE t # 0 /\ tokens[t].by = p
    <3>1. t \in 1 .. n
      BY <1>1, <2>3
    <3>2. tokens[t].born \in Nat /\ tokens[t].born <= tokens[k].born
      BY <1>3, <1>4, <2>3, <3>1 DEF VkTokenRecs
    <3>3. kept.refreshAt \in Int
      BY <1>7 DEF VkCaches
    <3>4. kept.mintedAt >= tokens[t].born /\ kept.refreshAt >= tokens[t].born + Remint
      BY <1>3, <1>5, <1>7, <3>2, <3>3 DEF VkTypes
    <3>5. kept.token # 0
      BY <1>1, <1>4, <1>7
    <3>6. tokens' = tokens /\ cache'[p] = kept
      BY <1>2, <1>8
    <3>7. Remembered(p, t)'
      BY <3>4, <3>5, <3>6 DEF Remembered
    <3> QED BY <3>7 DEF SafeWith
  <2> QED BY <2>1, <2>2, <2>3
<1>14. VkOwn(p)'
  <2>1. tokenRow \in 0 .. n /\ ctx'[p] \in 0 .. n /\ k \in 0 .. n
    BY <1>1, <1>3, <1>4, <1>9
  <2> DEFINE c == ctx'[p]
  <2>2. SafeWith(p, tokenRow)'
    BY <1>2, <1>13, <2>1 DEF SafeWith, Harmless, Remembered, KnowsOnly, Vk!Live, Vk!ExpiresAt
  <2>3. SafeWith(p, ctx[p])'
    BY <1>13, <2>1 DEF SafeWith, Harmless, Remembered, KnowsOnly, Vk!Live, Vk!ExpiresAt
  <2>4. SafeWith(p, mint[p].token)'
    BY <1>10, <1>13, <2>1 DEF SafeWith, Harmless, Remembered, KnowsOnly, Vk!Live, Vk!ExpiresAt
  <2>5. k # 0 /\ tokens'[k].by = p
    BY <1>1, <1>2, <1>4
  <2> QED BY <1>10, <2>2, <2>3, <2>4, <2>5 DEF VkOwn
<1>15. ASSUME NEW q \in Processes, q # p PROVE VkOwn(q)'
  <2>1. \A t \in 1 .. Len(tokens') : t > Len(tokens) => tokens'[t].by # q
    BY <1>1, <1>2 DEF n
  <2>2. VkOwn(q) /\ ctx'[q] = ctx[q] /\ cache'[q] = cache[q] /\ mint'[q] = mint[q]
    BY <1>8, <1>9, <1>10, <1>15 DEF VkInv
  <2> QED BY <1>1, <1>2, <1>11, <1>12, <1>15, <2>1, <2>2, OthersStay
<1>16. Spared'
  BY <1>1, <1>2 DEF Spared
<1>17. \A r \in Requests : req'[r].pc = "send" => req'[r].token # 0
  BY <1>2 DEF VkInv
<1> QED BY <1>12, <1>14, <1>15, <1>16, <1>17 DEF VkInv

\* The minting is over: what p stored for all is its own, and no other deletes it as young.
LEMMA SaveStep ==
    ASSUME VkTypes, VkInv, NEW p \in Processes, Vk!Save(p)
    PROVE  VkInv'
<1> DEFINE n == Len(tokens)
           k == mint[p].token
<1>1. VkTypeInv /\ Spared /\ n \in Nat
  BY MintedCount DEF VkInv
<1>2. /\ tokenClock' = tokenClock /\ tokens' = tokens /\ ctx' = ctx /\ cache' = cache
      /\ mint[p].pc = "save" /\ (tokenRow' = k \/ tokenRow' = tokenRow)
      /\ mint' = [mint EXCEPT ![p] = Vk!NoMint]
      /\ req' = [r \in Requests |->
                   IF r \notin Vk!Waiting(p) THEN req[r]
                   ELSE IF req[r].pc = "waits" THEN [req[r] EXCEPT !.pc = "send", !.token = k]
                   ELSE [req[r] EXCEPT !.pc = "get", !.again = TRUE]]
  BY DEF Vk!Save, Vk!MintAt
<1>3. /\ mint \in [Processes -> VkMints(n)] /\ req \in [Requests -> VkRequests(n)] /\ tokenClock \in Nat
      /\ tokenRow \in 0 .. n /\ ctx \in [Processes -> 0 .. n] /\ tokens \in Seq(VkTokenRecs)
      /\ \A t \in 1 .. n : tokens[t].born <= tokenClock
  BY <1>1 DEF VkTypeInv
<1>4. VkOwn(p) /\ k \in 0 .. n /\ k # 0 /\ tokens[k].by = p /\ SafeWith(p, k)
  BY <1>2, <1>3 DEF VkInv, VkOwn, VkMints
<1>5. Vk!NoMint \in VkMints(n) /\ Vk!NoMint.pc = "none"
  BY <1>1, VkBlank
<1> HIDE DEF n, k
<1>6. /\ mint' \in [Processes -> VkMints(n)] /\ mint'[p].pc = "none"
      /\ \A q \in Processes : q # p => mint'[q] = mint[q]
  BY <1>2, <1>3, <1>5
<1>7. ASSUME NEW r \in Requests
      PROVE  /\ req'[r] \in VkRequests(n) /\ (r[1] # p => req'[r] = req[r])
             /\ req'[r] = req[r] \/ req'[r].pc = "get" \/ (req'[r].pc = "send" /\ req'[r].token = k)
  <2> DEFINE goes == [req[r] EXCEPT !.pc = "send", !.token = k]
             asks == [req[r] EXCEPT !.pc = "get", !.again = TRUE]
  <2>1. req[r] \in VkRequests(n)
    BY <1>3
  <2>2. goes \in VkRequests(n) /\ goes.pc = "send" /\ goes.token = k /\ asks \in VkRequests(n) /\ asks.pc = "get"
    BY <1>4, <2>1 DEF VkRequests
  <2>3. req'[r] = IF r \notin Vk!Waiting(p) THEN req[r] ELSE IF req[r].pc = "waits" THEN goes ELSE asks
    BY <1>2
  <2>4. r \in Vk!Waiting(p) => r[1] = p
    BY DEF Vk!Waiting
  <2> HIDE DEF goes, asks
  <2> QED BY <2>1, <2>2, <2>3, <2>4
<1>8. req' \in [Requests -> VkRequests(n)]
  <2>1. req' = [r \in Requests |-> req'[r]]
    BY <1>2
  <2> QED BY <1>7, <2>1
<1>9. TokensLive
  <2>1. Len(tokens) \in Nat /\ tokenClock \in Nat /\ tokenClock' = tokenClock /\ tokens' = tokens
    BY <1>1, <1>2, <1>3 DEF n
  <2> QED BY <2>1 DEF TokensLive
<1>10. VkTypeInv'
  <2>1. tokenRow' \in 0 .. n
    BY <1>2, <1>3, <1>4
  <2> QED BY <1>1, <1>2, <1>3, <1>6, <1>8, <1>9, <2>1, TypeStays DEF VkTypeInv, n
<1>11. VkOwn(p)'
  <2>1. \A t \in 0 .. n : (Harmless(p, t) => Harmless(p, t)') /\ (Remembered(p, t) => Remembered(p, t)')
    BY <1>2 DEF Harmless, Remembered, Vk!Live, Vk!ExpiresAt
  <2>2. ASSUME NEW t \in 0 .. n, SafeWith(p, t) PROVE SafeWith(p, t)'
    BY <1>2, <2>1, <2>2 DEF SafeWith
  <2>3. SafeWith(p, tokenRow)'
    <3>1. CASE tokenRow' = k
      <4> QED BY <1>4, <2>2, <3>1 DEF SafeWith, Harmless, Remembered, KnowsOnly, Vk!Live, Vk!ExpiresAt
    <3>2. CASE tokenRow' = tokenRow
      <4>1. SafeWith(p, tokenRow)
        BY <1>4 DEF VkOwn
      <4> QED BY <1>3, <2>2, <3>2, <4>1 DEF SafeWith, Harmless, Remembered, KnowsOnly, Vk!Live, Vk!ExpiresAt
    <3> QED BY <1>2, <3>1, <3>2
  <2>4. SafeWith(p, ctx[p])'
    <3>1. ctx[p] \in 0 .. n /\ SafeWith(p, ctx[p])
      BY <1>3, <1>4 DEF VkOwn
    <3> QED BY <1>2, <2>2, <3>1 DEF SafeWith, Harmless, Remembered, KnowsOnly, Vk!Live, Vk!ExpiresAt
  <2> QED BY <1>6, <2>3, <2>4 DEF VkOwn
<1>12. ASSUME NEW q \in Processes, q # p PROVE VkOwn(q)'
  <2>1. VkOwn(q) /\ mint'[q] = mint[q]
    BY <1>6, <1>12 DEF VkInv
  <2>2. Calm(q)
    BY <1>2, <1>7, <1>12, <2>1 DEF Calm
  <2>3. \A t \in 0 .. n : SafeWith(q, t) => SafeWith(q, t)'
    BY <1>1, <1>9, <1>10, <2>2, SafeStays DEF n
  <2>4. SafeWith(q, ctx[q])'
    <3>1. ctx[q] \in 0 .. n /\ SafeWith(q, ctx[q])
      BY <1>3, <2>1 DEF VkOwn
    <3> QED BY <1>2, <2>3, <3>1 DEF SafeWith, Harmless, Remembered, KnowsOnly, Vk!Live, Vk!ExpiresAt
  <2>5. SafeWith(q, tokenRow)'
    <3>1. CASE tokenRow' = k
      BY <1>2, <1>4, <1>12, <3>1 DEF SafeWith, Harmless
    <3>2. CASE tokenRow' = tokenRow
      <4>1. SafeWith(q, tokenRow)
        BY <2>1 DEF VkOwn
      <4> QED BY <1>3, <2>3, <3>2, <4>1 DEF SafeWith, Harmless, Remembered, KnowsOnly, Vk!Live, Vk!ExpiresAt
    <3> QED BY <1>2, <3>1, <3>2
  <2>6. mint'[q].pc = "delete" => Harmless(q, mint[q].old)'
    BY <1>2, <2>1 DEF VkOwn, Harmless, Vk!Live, Vk!ExpiresAt
  <2>7. mint'[q].pc = "save" => SafeWith(q, mint[q].token)'
    <3>1. mint[q].token \in 0 .. n
      BY <1>3, <1>12 DEF VkMints
    <3>2. mint'[q].pc = "save" => SafeWith(q, mint[q].token)
      BY <2>1 DEF VkOwn
    <3> QED BY <2>1, <2>3, <3>1, <3>2 DEF SafeWith, Harmless, Remembered, KnowsOnly, Vk!Live, Vk!ExpiresAt
  <2>8. /\ mint'[q].pc \in {"store", "save"} => mint'[q].token # 0 /\ tokens'[mint'[q].token].by = q
        /\ mint'[q].pc = "store" =>
             \A t \in 1 .. Len(tokens') : tokens'[t].by = q => tokens'[t].born <= tokens'[mint'[q].token].born
    BY <1>2, <2>1 DEF VkOwn
  <2> QED BY <2>4, <2>5, <2>6, <2>7, <2>8 DEF VkOwn
<1>13. Spared'
  BY <1>1, <1>2 DEF Spared
<1>14. \A r \in Requests : req'[r].pc = "send" => req'[r].token # 0
  BY <1>4, <1>7 DEF VkInv
<1> QED BY <1>10, <1>11, <1>12, <1>13, <1>14 DEF VkInv

\* A process that is started anew knows one token: the one that is stored.
LEMMA RestartStep ==
    ASSUME VkTypes, VkInv, NEW p \in Processes, Vk!Restart(p)
    PROVE  VkInv'
<1> DEFINE n == Len(tokens)
<1>1. VkTypeInv /\ Spared /\ n \in Nat
  BY MintedCount DEF VkInv
<1>2. /\ tokenClock' = tokenClock /\ tokens' = tokens /\ tokenRow' = tokenRow
      /\ ctx' = [ctx EXCEPT ![p] = tokenRow]
      /\ cache' = [cache EXCEPT ![p] = Vk!NoCache]
      /\ mint' = [mint EXCEPT ![p] = Vk!NoMint]
      /\ req' = [r \in Requests |-> IF r[1] = p THEN Vk!Idle ELSE req[r]]
  BY DEF Vk!Restart
<1>3. /\ mint \in [Processes -> VkMints(n)] /\ req \in [Requests -> VkRequests(n)] /\ tokenClock \in Nat
      /\ tokenRow \in 0 .. n /\ ctx \in [Processes -> 0 .. n] /\ cache \in [Processes -> VkCaches(n)]
      /\ tokens \in Seq(VkTokenRecs) /\ \A t \in 1 .. n : tokens[t].born <= tokenClock
  BY <1>1 DEF VkTypeInv
<1>4. /\ Vk!NoMint \in VkMints(n) /\ Vk!NoMint.pc = "none" /\ Vk!NoCache \in VkCaches(n) /\ Vk!NoCache.token = 0
      /\ Vk!Idle \in VkRequests(n) /\ Vk!Idle.pc = "idle"
  BY <1>1, VkBlank
<1> HIDE DEF n
<1>5. /\ mint' \in [Processes -> VkMints(n)] /\ mint'[p].pc = "none"
      /\ cache' \in [Processes -> VkCaches(n)] /\ cache'[p].token = 0
      /\ ctx' \in [Processes -> 0 .. n] /\ ctx'[p] = tokenRow
      /\ \A q \in Processes : q # p => mint'[q] = mint[q] /\ cache'[q] = cache[q] /\ ctx'[q] = ctx[q]
  BY <1>2, <1>3, <1>4
<1>6. /\ req' \in [Requests -> VkRequests(n)]
      /\ \A r \in Requests : (r[1] = p => req'[r].pc = "idle") /\ (r[1] # p => req'[r] = req[r])
  BY <1>2, <1>3, <1>4
<1>7. TokensLive
  <2>1. Len(tokens) \in Nat /\ tokenClock \in Nat /\ tokenClock' = tokenClock /\ tokens' = tokens
    BY <1>1, <1>2, <1>3 DEF n
  <2> QED BY <2>1 DEF TokensLive
<1>8. VkTypeInv'
  BY <1>1, <1>2, <1>3, <1>5, <1>6, <1>7, TypeStays DEF VkTypeInv, n
<1>9. VkOwn(p)'
  <2>1. KnowsOnly(p, tokenRow)'
    BY <1>2, <1>5, <1>6 DEF KnowsOnly
  <2>2. SafeWith(p, tokenRow)'
    BY <1>5, <2>1 DEF SafeWith
  <2>3. SafeWith(p, ctx[p])'
    BY <1>2, <1>5, <2>2 DEF SafeWith, Harmless, Remembered, KnowsOnly, Vk!Live, Vk!ExpiresAt
  <2> QED BY <1>5, <2>2, <2>3 DEF VkOwn
<1>10. ASSUME NEW q \in Processes, q # p PROVE VkOwn(q)'
  <2>1. \A t \in 1 .. Len(tokens') : t > Len(tokens) => tokens'[t].by # q
    BY <1>1, <1>2 DEF n
  <2>2. VkOwn(q) /\ ctx'[q] = ctx[q] /\ cache'[q] = cache[q] /\ mint'[q] = mint[q]
    BY <1>5, <1>10 DEF VkInv
  <2> QED BY <1>1, <1>2, <1>6, <1>7, <1>8, <1>10, <2>1, <2>2, OthersStay
<1>11. Spared'
  BY <1>1, <1>2 DEF Spared
<1>12. \A r \in Requests : req'[r].pc = "send" => req'[r].token # 0
  BY <1>6 DEF VkInv
<1> QED BY <1>8, <1>9, <1>10, <1>11, <1>12 DEF VkInv

\* At first the one token there is was minted by no process that is running.
LEMMA VkBegun ==
    ASSUME VkTypes, Vk!Init
    PROVE  VkInv
<1> DEFINE first == [by |-> "before", born |-> 0, end |-> "live", died |-> 0]
<1>1. /\ tokenClock = 0 /\ tokens = <<first>> /\ tokenRow = 1 /\ ctx = [p \in Processes |-> tokenRow]
      /\ cache = [p \in Processes |-> Vk!NoCache] /\ mint = [p \in Processes |-> Vk!NoMint]
      /\ req = [r \in Requests |-> Vk!Idle]
  BY DEF Vk!Init
<1>2. first \in VkTokenRecs /\ first.by = "before" /\ first.born = 0 /\ first.end = "live"
  BY DEF VkTokenRecs
<1> HIDE DEF first
<1>3. tokens \in Seq(VkTokenRecs) /\ Len(tokens) = 1 /\ tokens[1] = first
  BY <1>1, <1>2
<1>4. /\ Vk!NoMint \in VkMints(1) /\ Vk!NoMint.pc = "none" /\ Vk!NoCache \in VkCaches(1) /\ Vk!NoCache.token = 0
      /\ Vk!Idle \in VkRequests(1) /\ Vk!Idle.pc = "idle"
  BY VkBlank
<1>5. \A t \in 1 .. Len(tokens) : t = 1
  BY <1>3
<1>6. VkTypeInv
  <2>1. 1 \in 0 .. 1
    OBVIOUS
  <2>2. \A t \in 1 .. Len(tokens) : tokens[t].born <= tokenClock
    BY <1>1, <1>2, <1>3, <1>5
  <2> QED BY <1>1, <1>3, <1>4, <2>1, <2>2 DEF VkTypeInv
<1>7. Spared
  BY <1>2, <1>3, <1>5 DEF Spared
<1>8. ASSUME NEW p \in Processes PROVE VkOwn(p)
  <2>1. p # "before"
    BY DEF VkTypes
  <2>2. Harmless(p, 1)
    BY <1>2, <1>3, <2>1 DEF Harmless
  <2>3. mint[p].pc = "none" /\ ctx[p] = 1
    BY <1>1, <1>4
  <2> QED BY <1>1, <2>2, <2>3 DEF VkOwn, SafeWith
<1> QED BY <1>1, <1>4, <1>6, <1>7, <1>8 DEF VkInv

LEMMA VkStep ==
    ASSUME VkTypes, VkInv, [Vk!Next]_(Vk!vkVars)
    PROVE  VkInv'
<1>1. CASE UNCHANGED Vk!vkVars
  BY <1>1 DEF Vk!vkVars, VkInv, VkTypeInv, Spared, VkOwn, SafeWith, Harmless, Remembered, KnowsOnly,
              Vk!Live, Vk!ExpiresAt
<1>2. CASE Vk!Next
  <2>1. ASSUME NEW r \in Requests, Vk!Begin(r) \/ Vk!GetToken(r) \/ Vk!Send(r) \/ Vk!ForceRefresh(r)
        PROVE  VkInv'
    BY <2>1, BeginStep, GetStep, SendStep, ForceStep
  <2>2. ASSUME NEW p \in Processes,
               \/ Vk!DeleteKnown(p) \/ Vk!Ask(p) \/ Vk!AtTheLimit(p) \/ Vk!Release(p)
               \/ Vk!AskFails(p) \/ Vk!Store(p) \/ Vk!Save(p) \/ Vk!Restart(p)
        PROVE  VkInv'
    BY <2>2, DeleteStep, AskStep, LimitStep, ReleaseStep, AskFailsStep, StoreStep, SaveStep, RestartStep
  <2> QED BY <1>2, <2>1, <2>2, OutsideStep DEF Vk!Next
<1> QED BY <1>1, <1>2

\* A request that was refused for good had a token, and its process spared the young ones.
LEMMA VkMeans ==
    ASSUME VkTypes, VkInv
    PROVE  Vk!OwnRefreshIsHarmless
<1> SUFFICES ASSUME NEW r \in Requests, req[r].pc = "auth", req[r].token # 0,
                    tokens[req[r].token].end = r[1], tokens[req[r].token].by = r[1]
             PROVE  tokens[req[r].token].died - tokens[req[r].token].born >= Remint
  BY DEF Vk!OwnRefreshIsHarmless, Vk!NoToken
<1>1. req[r] \in VkRequests(Len(tokens)) /\ Len(tokens) \in Nat
  BY MintedCount DEF VkInv, VkTypeInv
<1>2. req[r].token \in 1 .. Len(tokens)
  <2>1. req[r].token \in 0 .. Len(tokens)
    BY <1>1 DEF VkRequests
  <2> QED BY <1>1, <2>1
<1> QED BY <1>2 DEF VkInv, Spared

\* auth.ts: whatever order requests, mintings, restarts, revocations and lost answers
\* come in, a process deletes no token of its own that is younger than Remint.
LEMMA OwnTokensAreSpared ==
    ASSUME VkTypes
    PROVE  ServicesSpec => []Vk!OwnRefreshIsHarmless
<1>1. Vk!Init => VkInv
  BY VkBegun
<1>2. VkInv /\ [Vk!Next]_(Vk!vkVars) => VkInv'
  BY VkStep
<1>3. VkInv => Vk!OwnRefreshIsHarmless
  BY VkMeans
<1> QED BY <1>1, <1>2, <1>3, SideBySide, PTL DEF Vk!Spec

-----------------------------------------------------------------------------
(* Credentials: commands and renewals over one row.                         *)

CredTypes == \E names : Inputs \subseteq [form : {"line", "object", "broken"}, fields : SUBSET names,
                                         empty : BOOLEAN, login : Cred!Logins]

Names == Cred!Logins \cup {"none", "nobody"}
Payloads == [access : Nat, refresh : BOOLEAN, end : {"never", "later", "due"}, login : Names]

CredTypeInv ==
    /\ credentials \in Payloads /\ issued \in Nat
    /\ cmd \in [pc : {"idle", "save", "exchange"}, new : Payloads, base : Payloads]
    /\ pass \in [Passes -> [pc : {"idle", "read", "ask", "save"}, creds : Payloads]]

\* What may stand in the row for good.
Usable(c) == c.access # 0 /\ \E g \in given : g.login = c.login /\ (g.refresh => c.refresh)

CredInv ==
    /\ credentials # Cred!NoRow => Usable(credentials)
    /\ \A p \in Passes : pass[p].pc \in {"ask", "save"} => Usable(pass[p].creds)
    /\ cmd.pc = "save" => cmd.new.access # 0

CodeInv == /\ code = "spent" => exchanged
           /\ cmd.pc = "exchange" => exchanged

LEMMA NoRowOK == Cred!NoRow \in Payloads /\ Cred!NoRow.end = "never"
<1>1. Cred!NoRow = [access |-> 0, refresh |-> FALSE, end |-> "never", login |-> "nobody"]
  BY DEF Cred!NoRow
<1>2. "nobody" \in Names
  BY DEF Names
<1>3. [access |-> 0, refresh |-> FALSE, end |-> "never", login |-> "nobody"] \in Payloads
  BY <1>2 DEF Payloads
<1>4. [access |-> 0, refresh |-> FALSE, end |-> "never", login |-> "nobody"].end = "never"
  OBVIOUS
<1> QED BY <1>1, <1>3, <1>4

LEMMA NoCmdOK ==
    /\ Cred!NoCmd \in [pc : {"idle", "save", "exchange"}, new : Payloads, base : Payloads]
    /\ Cred!NoCmd.pc = "idle"
  BY NoRowOK DEF Cred!NoCmd

LEMMA NoPassOK ==
    /\ Cred!NoPass \in [pc : {"idle", "read", "ask", "save"}, creds : Payloads]
    /\ Cred!NoPass.pc = "idle"
  BY NoRowOK DEF Cred!NoPass

\* A payload the command makes of what was piped in, and one of Yandex's answer.
LEMMA PayloadOK ==
    ASSUME CredTypes, NEW input \in Inputs, Cred!Accepts(input), NEW n \in Nat \ {0}
    PROVE  Cred!Payload(input, n) \in Payloads /\ Cred!Payload(input, n).access # 0
<1>1. PICK names : input \in [form : {"line", "object", "broken"}, fields : SUBSET names,
                             empty : BOOLEAN, login : Cred!Logins]
  BY DEF CredTypes
<1>2. Cred!Parsed(input).login \in Names /\ "accessToken" \in Cred!Parsed(input).fields
  <2>1. "accessToken" \in Cred!Parsed(input).fields
    BY DEF Cred!Accepts
  <2>2. input.login \in Names /\ "none" \in Names
    BY <1>1 DEF Names
  <2>3. [input EXCEPT !.fields = {"accessToken"}, !.login = "none"].login = "none"
    BY <1>1
  <2> QED BY <2>1, <2>2, <2>3 DEF Cred!Parsed
<1> QED BY <1>2 DEF Cred!Payload, Payloads

LEMMA RenewedOK ==
    ASSUME NEW base \in Payloads, NEW renewed \in BOOLEAN, NEW n \in Nat \ {0}
    PROVE  /\ Cred!ToCredentials(n, renewed, base) \in Payloads
           /\ Cred!ToCredentials(n, renewed, base).access # 0
           /\ Usable(base) => Usable(Cred!ToCredentials(n, renewed, base))
  BY DEF Cred!ToCredentials, Payloads, Usable

LEMMA CredInit == Cred!Init => CredTypeInv /\ CredInv /\ CodeInv
<1> SUFFICES ASSUME Cred!Init PROVE CredTypeInv /\ CredInv /\ CodeInv
  OBVIOUS
<1>1. /\ credentials = Cred!NoRow /\ code = "fresh" /\ cmd = Cred!NoCmd
      /\ pass = [p \in Passes |-> Cred!NoPass] /\ issued = 0
  BY DEF Cred!Init
<1>2. CredTypeInv
  BY <1>1, NoRowOK, NoCmdOK, NoPassOK DEF CredTypeInv
<1>3. CredInv /\ CodeInv
  BY <1>1, NoCmdOK, NoPassOK DEF CredInv, CodeInv
<1> QED BY <1>2, <1>3

\* A command that ends leaves only the row and the code to look at.
LEMMA CmdEnds ==
    ASSUME CredTypeInv, CredInv, CodeInv, cmd' = Cred!NoCmd,
           UNCHANGED <<pass, given>>, issued' = issued, exchanged => exchanged',
           credentials' \in Payloads, credentials' # Cred!NoRow => Usable(credentials'),
           code' = code \/ exchanged'
    PROVE  CredTypeInv' /\ CredInv' /\ CodeInv'
<1>1. CredTypeInv'
  BY NoCmdOK DEF CredTypeInv
<1>2. CredInv'
  BY NoCmdOK DEF CredInv, Usable
<1>3. CodeInv'
  BY NoCmdOK DEF CodeInv
<1> QED BY <1>1, <1>2, <1>3

\* A command that is begun, with what it will store.
LEMMA CmdGoes ==
    ASSUME CredTypeInv, CredInv, CodeInv,
           cmd' \in [pc : {"idle", "save", "exchange"}, new : Payloads, base : Payloads],
           cmd'.pc = "save" => cmd'.new.access # 0, cmd'.pc = "exchange" => exchanged',
           UNCHANGED <<credentials, pass, given>>, issued' \in Nat, exchanged => exchanged',
           code' = code \/ exchanged'
    PROVE  CredTypeInv' /\ CredInv' /\ CodeInv'
<1>1. CredTypeInv'
  BY DEF CredTypeInv
<1>2. CredInv'
  BY DEF CredInv, Usable
<1>3. CodeInv'
  BY DEF CodeInv
<1> QED BY <1>1, <1>2, <1>3

\* A renewal goes on, or stops.
LEMMA PassGoesOn ==
    ASSUME CredTypeInv, CredInv, CodeInv, NEW p \in Passes,
           NEW new \in [pc : {"idle", "read", "ask", "save"}, creds : Payloads],
           pass' = [pass EXCEPT ![p] = new], new.pc \in {"ask", "save"} => Usable(new.creds),
           UNCHANGED <<code, cmd, given, exchanged>>, issued' \in Nat,
           credentials' \in Payloads, credentials' # Cred!NoRow => Usable(credentials')
    PROVE  CredTypeInv' /\ CredInv' /\ CodeInv'
<1>1. pass'[p] = new /\ \A q \in Passes \ {p} : pass'[q] = pass[q]
  BY DEF CredTypeInv
<1>2. CredTypeInv'
  BY DEF CredTypeInv
<1>3. \A c : Usable(c) <=> c.access # 0 /\ \E g \in given' : g.login = c.login /\ (g.refresh => c.refresh)
  BY DEF Usable
<1>4. CredInv'
  BY <1>1 DEF CredInv, Usable
<1>5. CodeInv'
  BY DEF CodeInv
<1> QED BY <1>2, <1>4, <1>5

LEMMA CredStep ==
    ASSUME CredTypes, CredTypeInv, CredInv, CodeInv, [Cred!Next]_(Cred!credVars)
    PROVE  CredTypeInv' /\ CredInv' /\ CodeInv'
<1>0. /\ credentials \in Payloads /\ issued \in Nat /\ issued + 1 \in Nat \ {0}
      /\ cmd \in [pc : {"idle", "save", "exchange"}, new : Payloads, base : Payloads]
      /\ pass \in [Passes -> [pc : {"idle", "read", "ask", "save"}, creds : Payloads]]
      /\ credentials # Cred!NoRow => Usable(credentials)
  BY DEF CredTypeInv, CredInv
<1>1. CASE Cred!LooksOnly
  BY <1>0, <1>1, CmdEnds DEF Cred!LooksOnly, Cred!Ends, Cred!Untouched
<1>2. CASE Cred!Revoke
  BY <1>2, CmdEnds, NoRowOK DEF Cred!Revoke, Cred!Ends
<1>3. CASE Cred!Save
  <2>1. /\ cmd.pc = "save" /\ cmd' = Cred!NoCmd /\ UNCHANGED <<code, pass, issued, exchanged>>
        /\ \/ credentials' = cmd.new /\ given' = given \cup {[login |-> cmd.new.login, refresh |-> cmd.new.refresh]}
           \/ UNCHANGED <<credentials, given>>
    BY <1>3 DEF Cred!Save, Cred!Ends
  <2>2. CASE UNCHANGED <<credentials, given>>
    BY <1>0, <2>1, <2>2, CmdEnds
  <2>3. CASE credentials' = cmd.new /\ given' = given \cup {[login |-> cmd.new.login, refresh |-> cmd.new.refresh]}
    <3>1. cmd.new \in Payloads /\ cmd.new.access # 0
      BY <1>0, <2>1 DEF CredInv
    <3>2. [login |-> cmd.new.login, refresh |-> cmd.new.refresh] \in given'
      BY <2>3
    <3>3. Usable(credentials)'
      BY <2>3, <3>1, <3>2 DEF Usable
    <3>4. \A c \in Payloads : Usable(c) => c.access # 0 /\ \E g \in given' : g.login = c.login /\ (g.refresh => c.refresh)
      BY <2>3 DEF Usable
    <3>5. \A q \in Passes : pass[q].pc \in {"ask", "save"} => pass[q].creds \in Payloads /\ Usable(pass[q].creds)
      BY <1>0 DEF CredInv
    <3>6. \A q \in Passes : pass'[q].pc \in {"ask", "save"} => Usable(pass[q].creds)'
      BY <2>1, <3>4, <3>5 DEF Usable
    <3>7. CredInv'
      BY <2>1, <3>3, <3>6, NoCmdOK DEF CredInv
    <3>8. CredTypeInv'
      BY <1>0, <2>1, <2>3, <3>1, NoCmdOK DEF CredTypeInv
    <3>9. CodeInv'
      BY <2>1, NoCmdOK DEF CodeInv
    <3> QED BY <3>7, <3>8, <3>9
  <2> QED BY <2>1, <2>2, <2>3
<1>4. CASE Cred!ComesDue
  <2>1. credentials.end = "later" /\ credentials' = [credentials EXCEPT !.end = "due"] /\ UNCHANGED <<code, cmd, pass, issued, given, exchanged>>
    BY <1>4 DEF Cred!ComesDue
  <2>2. credentials # Cred!NoRow
    BY <2>1, NoRowOK
  <2>3. credentials' \in Payloads /\ credentials'.access = credentials.access /\ credentials'.login = credentials.login /\ credentials'.refresh = credentials.refresh
    BY <1>0, <2>1 DEF Payloads
  <2>4. Usable(credentials)'
    BY <1>0, <2>1, <2>2, <2>3 DEF Usable
  <2>5. CredInv'
    BY <2>1, <2>4 DEF CredInv, Usable
  <2>6. CredTypeInv' /\ CodeInv'
    BY <1>0, <2>1, <2>3 DEF CredTypeInv, CodeInv
  <2> QED BY <2>5, <2>6
<1>5. ASSUME NEW input \in Inputs, NEW apply \in BOOLEAN, Cred!Set(input, apply)
      PROVE  CredTypeInv' /\ CredInv' /\ CodeInv'
  <2>1. UNCHANGED <<credentials, code, pass, given, exchanged>>
    BY <1>5 DEF Cred!Set
  <2>2. CASE Cred!Accepts(input) /\ apply
    <3>1. cmd' = [Cred!NoCmd EXCEPT !.pc = "save", !.new = Cred!Payload(input, issued + 1)] /\ issued' = issued + 1
      BY <1>5, <2>2 DEF Cred!Set
    <3>2. Cred!Payload(input, issued + 1) \in Payloads /\ Cred!Payload(input, issued + 1).access # 0
      BY <1>0, <2>2, PayloadOK
    <3>3. /\ cmd' \in [pc : {"idle", "save", "exchange"}, new : Payloads, base : Payloads]
          /\ cmd'.pc = "save" /\ cmd'.new = Cred!Payload(input, issued + 1)
      BY <3>1, <3>2, NoCmdOK
    <3> QED BY <1>0, <2>1, <3>1, <3>2, <3>3, CmdGoes
  <2>3. CASE ~(Cred!Accepts(input) /\ apply)
    <3>1. cmd' = Cred!NoCmd /\ issued' = issued
      BY <1>5, <2>3 DEF Cred!Set, Cred!Ends
    <3> QED BY <1>0, <2>1, <3>1, CmdEnds
  <2> QED BY <2>2, <2>3
<1>6. ASSUME NEW login \in Cred!Logins, NEW apply \in BOOLEAN, Cred!Exchange(login, apply)
      PROVE  CredTypeInv' /\ CredInv' /\ CodeInv'
  <2>1. /\ exchanged' = (exchanged \/ apply) /\ UNCHANGED <<credentials, code, pass, issued, given>>
        /\ cmd' = IF apply THEN [Cred!NoCmd EXCEPT !.pc = "exchange", !.base = [Cred!NoRow EXCEPT !.login = login]]
                  ELSE Cred!NoCmd
    BY <1>6 DEF Cred!Exchange, Cred!Untouched
  <2>2. [Cred!NoRow EXCEPT !.login = login] \in Payloads
    BY NoRowOK DEF Payloads, Names
  <2>3. LET c == [Cred!NoCmd EXCEPT !.pc = "exchange", !.base = [Cred!NoRow EXCEPT !.login = login]]
        IN  c \in [pc : {"idle", "save", "exchange"}, new : Payloads, base : Payloads] /\ c.pc = "exchange"
    BY <2>2, NoCmdOK
  <2>4. /\ cmd' \in [pc : {"idle", "save", "exchange"}, new : Payloads, base : Payloads]
        /\ cmd'.pc # "save" /\ (cmd'.pc = "exchange" => exchanged') /\ (exchanged => exchanged')
    BY <2>1, <2>3, NoCmdOK
  <2> QED BY <1>0, <2>1, <2>4, CmdGoes
<1>7. ASSUME NEW renewed \in BOOLEAN, Cred!ExchangeCode(renewed)
      PROVE  CredTypeInv' /\ CredInv' /\ CodeInv'
  <2>1. /\ cmd.pc = "exchange" /\ exchanged /\ cmd.base \in Payloads
        /\ UNCHANGED <<credentials, pass, given, exchanged>>
        /\ \/ cmd' = Cred!NoCmd /\ UNCHANGED issued
           \/ /\ issued' = issued + 1
              /\ cmd' = [Cred!NoCmd EXCEPT !.pc = "save", !.new = Cred!ToCredentials(issued + 1, renewed, cmd.base)]
    BY <1>0, <1>7 DEF Cred!ExchangeCode, Cred!Ends, CodeInv
  <2>2. CASE cmd' = Cred!NoCmd /\ UNCHANGED issued
    BY <1>0, <2>1, <2>2, CmdEnds
  <2>3. CASE /\ issued' = issued + 1
             /\ cmd' = [Cred!NoCmd EXCEPT !.pc = "save", !.new = Cred!ToCredentials(issued + 1, renewed, cmd.base)]
    <3>1. /\ Cred!ToCredentials(issued + 1, renewed, cmd.base) \in Payloads
          /\ Cred!ToCredentials(issued + 1, renewed, cmd.base).access # 0
      BY <1>0, <2>1, RenewedOK
    <3>2. /\ cmd' \in [pc : {"idle", "save", "exchange"}, new : Payloads, base : Payloads]
          /\ cmd'.pc = "save" /\ cmd'.new.access # 0
      BY <2>3, <3>1, NoCmdOK
    <3> QED BY <1>0, <2>1, <2>3, <3>2, CmdGoes
  <2> QED BY <2>1, <2>2, <2>3
<1>8. ASSUME NEW p \in Passes, Cred!ListCredentials(p) \/ Cred!ReadCredential(p)
      PROVE  CredTypeInv' /\ CredInv' /\ CodeInv'
  <2>1. UNCHANGED <<credentials, code, cmd, issued, given, exchanged>>
    BY <1>8 DEF Cred!ListCredentials, Cred!ReadCredential
  <2>2. PICK new : /\ new \in [pc : {"idle", "read", "ask", "save"}, creds : Payloads]
                   /\ pass' = [pass EXCEPT ![p] = new] /\ (new.pc \in {"ask", "save"} => Usable(new.creds))
    <3>1. CASE Cred!ListCredentials(p)
      <4>1. pass' = [pass EXCEPT ![p] = [pass[p] EXCEPT !.pc = "read"]]
        BY <3>1 DEF Cred!ListCredentials, Cred!PassGoes
      <4>2. /\ [pass[p] EXCEPT !.pc = "read"] \in [pc : {"idle", "read", "ask", "save"}, creds : Payloads]
            /\ [pass[p] EXCEPT !.pc = "read"].pc = "read"
        BY <1>0
      <4> QED BY <4>1, <4>2
    <3>2. CASE Cred!ReadCredential(p)
      <4>1. \/ pass' = [pass EXCEPT ![p] = Cred!NoPass]
            \/ credentials # Cred!NoRow /\ pass' = [pass EXCEPT ![p] = [pc |-> "ask", creds |-> credentials]]
        BY <3>2 DEF Cred!ReadCredential, Cred!Stored
      <4>2. CASE pass' = [pass EXCEPT ![p] = Cred!NoPass]
        BY <4>2, NoPassOK
      <4>3. CASE credentials # Cred!NoRow /\ pass' = [pass EXCEPT ![p] = [pc |-> "ask", creds |-> credentials]]
        <5>1. [pc |-> "ask", creds |-> credentials] \in [pc : {"idle", "read", "ask", "save"}, creds : Payloads]
          BY <1>0
        <5>2. Usable(credentials)
          BY <1>0, <4>3
        <5> QED BY <4>3, <5>1, <5>2
      <4> QED BY <4>1, <4>2, <4>3
    <3> QED BY <1>8, <3>1, <3>2
  <2> QED BY <1>0, <2>1, <2>2, PassGoesOn DEF Usable
<1>9. ASSUME NEW p \in Passes, NEW renewed \in BOOLEAN, Cred!RefreshAccess(p, renewed)
      PROVE  CredTypeInv' /\ CredInv' /\ CodeInv'
  <2>1. /\ pass[p].pc = "ask" /\ UNCHANGED <<credentials, code, cmd, given, exchanged>>
        /\ \/ /\ issued' = issued + 1
              /\ pass' = [pass EXCEPT ![p] = [pc |-> "save", creds |-> Cred!ToCredentials(issued + 1, renewed, pass[p].creds)]]
           \/ pass' = [pass EXCEPT ![p] = Cred!NoPass] /\ UNCHANGED issued
    BY <1>9 DEF Cred!RefreshAccess
  <2>2. pass[p].creds \in Payloads /\ Usable(pass[p].creds)
    BY <1>0, <2>1 DEF CredInv
  <2>3. CASE pass' = [pass EXCEPT ![p] = Cred!NoPass] /\ UNCHANGED issued
    BY <1>0, <2>1, <2>3, NoPassOK, PassGoesOn DEF Usable
  <2>4. CASE /\ issued' = issued + 1
             /\ pass' = [pass EXCEPT ![p] = [pc |-> "save", creds |-> Cred!ToCredentials(issued + 1, renewed, pass[p].creds)]]
    <3> DEFINE new == [pc |-> "save", creds |-> Cred!ToCredentials(issued + 1, renewed, pass[p].creds)]
    <3>1. /\ Cred!ToCredentials(issued + 1, renewed, pass[p].creds) \in Payloads
          /\ Usable(Cred!ToCredentials(issued + 1, renewed, pass[p].creds))
      BY <1>0, <2>2, RenewedOK
    <3>2. new \in [pc : {"idle", "read", "ask", "save"}, creds : Payloads] /\ Usable(new.creds)
      BY <3>1
    <3> QED BY <1>0, <2>1, <2>4, <3>2, PassGoesOn DEF Usable
  <2> QED BY <2>1, <2>3, <2>4
<1>10. ASSUME NEW p \in Passes, Cred!StoreRenewed(p)
       PROVE  CredTypeInv' /\ CredInv' /\ CodeInv'
  <2>1. /\ pass[p].pc = "save" /\ UNCHANGED <<code, cmd, issued, given, exchanged>>
        /\ credentials' = pass[p].creds \/ credentials' = credentials
        /\ pass' = [pass EXCEPT ![p] = Cred!NoPass]
    BY <1>10 DEF Cred!StoreRenewed
  <2>2. pass[p].creds \in Payloads /\ Usable(pass[p].creds)
    BY <1>0, <2>1 DEF CredInv
  <2>3. credentials' \in Payloads /\ (credentials' # Cred!NoRow => Usable(credentials)')
    BY <1>0, <2>1, <2>2 DEF Usable
  <2> QED BY <1>0, <2>1, <2>3, NoPassOK, PassGoesOn DEF Usable
<1>11. CASE UNCHANGED Cred!credVars
  BY <1>11 DEF Cred!credVars, CredTypeInv, CredInv, CodeInv, Usable
<1> QED BY <1>1, <1>2, <1>3, <1>4, <1>5, <1>6, <1>7, <1>8, <1>9, <1>10, <1>11 DEF Cred!Next

\* CredentialRepository.ts, tokens.ts and the operator's command: whatever order any
\* number of commands and renewals write in, what is stored is readable, of a cabinet an
\* operator stored and renewable if he stored it so; and the code was used by a confirmed
\* exchange alone.
LEMMA StoredStaysUsable ==
    ASSUME CredTypes
    PROVE  ServicesSpec => [](Cred!StoredIsUsable /\ Cred!CodeIsKept)
<1> DEFINE Inv == CredTypeInv /\ CredInv /\ CodeInv
<1>1. Cred!Init => Inv
  BY CredInit
<1>2. Inv /\ [Cred!Next]_(Cred!credVars) => Inv'
  BY CredStep
<1>3. Inv => Cred!StoredIsUsable /\ Cred!CodeIsKept
  BY DEF CredInv, CodeInv, Usable, Cred!StoredIsUsable, Cred!CodeIsKept, Cred!Stored
<1> QED BY <1>1, <1>2, <1>3, SideBySide, PTL DEF Cred!Spec

\* For any number of processes, requests, tokens and faults, and of commands and renewals.
THEOREM TokensStayUsable ==
    ASSUME VkTypes, CredTypes
    PROVE  ServicesSpec => []TokensLast
<1>1. ServicesSpec => []Vk!OwnRefreshIsHarmless
  BY OwnTokensAreSpared
<1>2. ServicesSpec => [](Cred!StoredIsUsable /\ Cred!CodeIsKept)
  BY StoredStaysUsable
<1> QED BY <1>1, <1>2, PTL DEF TokensLast

-----------------------------------------------------------------------------
(* Llm: what a call cost is on its row.                                     *)

LlmTypes == ModelAttempts \in Nat /\ RepairAttempts \in Nat

LlmRuns == [pc : {"idle", "budget", "call", "record"}, prompt : Prompts \cup {"none"}, tries : Int, repairs : Int,
            usage : Nat, paid : Nat, cost : Nat, ok : BOOLEAN, cached : BOOLEAN, useCache : BOOLEAN]
LlmRows == [ok : BOOLEAN, cached : BOOLEAN, cost : Nat, paid : Nat]

\* What a run or a row says of a success is what was paid for it.
Told(run) == run.ok => run.cost = run.paid /\ (run.cached <=> run.paid = 0)
RunTold(run) == /\ run.pc \in {"idle", "budget"} => run.paid = 0
                /\ run.pc = "record" => Told(run)

LlmInv ==
    /\ modelRuns \in [Runs -> LlmRuns] /\ aiRuns \in Seq(LlmRows)
    /\ \A i \in Runs : RunTold(modelRuns[i])
    /\ \A k \in 1 .. Len(aiRuns) : Told(aiRuns[k])

LEMMA LlmInit == Ai!Init => LlmInv
<1>1. Ai!Idle \in LlmRuns /\ RunTold(Ai!Idle)
  BY DEF Ai!Idle, LlmRuns, RunTold
<1>2. Ai!Init => modelRuns = [i \in Runs |-> Ai!Idle] /\ aiRuns = <<>>
  BY DEF Ai!Init
<1>3. <<>> \in Seq(LlmRows) /\ Len(<<>>) = 0
  OBVIOUS
<1> QED BY <1>1, <1>2, <1>3 DEF LlmInv

\* A run goes on, with nothing entered.
LEMMA RunTurns ==
    ASSUME LlmInv, NEW i \in Runs, NEW run \in LlmRuns, RunTold(run),
           modelRuns' = [modelRuns EXCEPT ![i] = run], UNCHANGED aiRuns
    PROVE  LlmInv'
  BY DEF LlmInv, RunTold, Told

LEMMA SucceedsOK ==
    ASSUME NEW run \in LlmRuns, NEW cost \in Nat, NEW cached \in BOOLEAN,
           cost = run.paid, cached <=> run.paid = 0
    PROVE  Ai!Succeeds(run, cost, cached) \in LlmRuns /\ RunTold(Ai!Succeeds(run, cost, cached))
<1> DEFINE new == [run EXCEPT !.pc = "record", !.ok = TRUE, !.cost = cost, !.cached = cached]
<1>1. new \in LlmRuns /\ new.pc = "record" /\ new.cost = cost /\ new.paid = run.paid
  BY DEF LlmRuns
<1>2. new.cached = cached
  BY DEF LlmRuns
<1> QED BY <1>1, <1>2 DEF Ai!Succeeds, RunTold, Told

\* The same of an answer that was kept.
LEMMA FreeOK ==
    ASSUME NEW run \in LlmRuns, run.paid = 0
    PROVE  Ai!Succeeds(run, 0, TRUE) \in LlmRuns /\ RunTold(Ai!Succeeds(run, 0, TRUE))
<1> DEFINE new == [run EXCEPT !.pc = "record", !.ok = TRUE, !.cost = 0, !.cached = TRUE]
<1>1. new \in LlmRuns /\ new.pc = "record" /\ new.cost = 0 /\ new.paid = 0
  BY DEF LlmRuns
<1>2. new.cached
  BY DEF LlmRuns
<1> QED BY <1>1, <1>2 DEF Ai!Succeeds, RunTold, Told

LEMMA FailsOK ==
    ASSUME NEW run \in LlmRuns
    PROVE  Ai!Fails(run) \in LlmRuns /\ RunTold(Ai!Fails(run))
<1> DEFINE new == [run EXCEPT !.pc = "record", !.ok = FALSE, !.cost = run.usage]
<1>1. new \in LlmRuns /\ new.pc = "record"
  BY DEF LlmRuns
<1>2. ~new.ok
  BY DEF LlmRuns
<1> QED BY <1>1, <1>2 DEF Ai!Fails, RunTold, Told

LEMMA CallsOK ==
    ASSUME LlmTypes, NEW run \in LlmRuns
    PROVE  Ai!Calls(run) \in LlmRuns /\ RunTold(Ai!Calls(run))
<1>1. Ai!Calls(run) \in LlmRuns
  <2> DEFINE calls == [run EXCEPT !.pc = "call"]
             tries == [calls EXCEPT !.tries = ModelAttempts]
  <2>1. Ai!Calls(run) = [tries EXCEPT !.repairs = RepairAttempts]
    BY DEF Ai!Calls
  <2>2. calls \in LlmRuns
    BY DEF LlmRuns
  <2> HIDE DEF calls
  <2>3. tries \in LlmRuns
    BY <2>2 DEF LlmTypes, LlmRuns
  <2> HIDE DEF tries
  <2> QED BY <2>1, <2>3 DEF LlmTypes, LlmRuns
<1>2. Ai!Calls(run).pc = "call"
  BY DEF Ai!Calls, LlmRuns
<1> QED BY <1>1, <1>2 DEF RunTold

LEMMA PaidOK ==
    ASSUME NEW run \in LlmRuns
    PROVE  LET told == [run EXCEPT !.paid = @ + 1] IN told \in LlmRuns /\ told.paid = run.paid + 1 /\ told.pc = run.pc
  BY DEF LlmRuns

LEMMA LlmStep ==
    ASSUME LlmTypes, LlmInv, [Ai!Next]_(Ai!llmVars)
    PROVE  LlmInv'
<1>0. /\ \A i \in Runs : modelRuns[i] \in LlmRuns /\ RunTold(modelRuns[i])
      /\ aiRuns \in Seq(LlmRows)
  BY DEF LlmInv
<1>1. ASSUME NEW i \in Runs, NEW p \in Prompts, NEW useCache \in BOOLEAN, Ai!Start(i, p, useCache) PROVE LlmInv'
  <2> DEFINE run == [Ai!Idle EXCEPT !.pc = "budget", !.prompt = p, !.useCache = useCache]
  <2>1. modelRuns' = [modelRuns EXCEPT ![i] = run] /\ UNCHANGED aiRuns
    BY <1>1 DEF Ai!Start
  <2>2. Ai!Idle \in LlmRuns /\ Ai!Idle.paid = 0
    BY DEF Ai!Idle, LlmRuns
  <2>3. run \in LlmRuns /\ run.pc = "budget" /\ run.paid = 0
    BY <2>2 DEF LlmRuns
  <2> QED BY <2>1, <2>3, RunTurns DEF RunTold
<1>2. ASSUME NEW i \in Runs, Ai!CheckBudget(i) PROVE LlmInv'
  <2>1. PICK run \in {Ai!Fails(modelRuns[i]), Ai!Succeeds(modelRuns[i], 0, TRUE), Ai!Calls(modelRuns[i])} :
          modelRuns' = [modelRuns EXCEPT ![i] = run] /\ UNCHANGED aiRuns
    BY <1>2 DEF Ai!CheckBudget
  <2>2. modelRuns[i].paid = 0
    BY <1>0, <1>2 DEF Ai!CheckBudget, RunTold
  <2>3. Ai!Succeeds(modelRuns[i], 0, TRUE) \in LlmRuns /\ RunTold(Ai!Succeeds(modelRuns[i], 0, TRUE))
    BY <1>0, <2>2, FreeOK
  <2>4. run \in LlmRuns /\ RunTold(run)
    BY <1>0, <2>1, <2>3, FailsOK, CallsOK
  <2> QED BY <2>1, <2>4, RunTurns
<1>3. ASSUME NEW i \in Runs, NEW form, Ai!GoodAnswer(i, form) PROVE LlmInv'
  <2>1. modelRuns' = [modelRuns EXCEPT ![i] = Ai!Answered(modelRuns[i])] /\ UNCHANGED aiRuns
    BY <1>3 DEF Ai!GoodAnswer
  <2> DEFINE told == [modelRuns[i] EXCEPT !.paid = @ + 1]
  <2>2. told \in LlmRuns /\ told.paid = modelRuns[i].paid + 1 /\ modelRuns[i].paid \in Nat
    BY <1>0, PaidOK DEF LlmRuns
  <2>3. Ai!Answered(modelRuns[i]) = Ai!Succeeds(told, modelRuns[i].paid + 1, FALSE)
    BY DEF Ai!Answered
  <2>4. modelRuns[i].paid + 1 \in Nat /\ told.paid # 0
    BY <2>2
  <2>5. Ai!Succeeds(told, modelRuns[i].paid + 1, FALSE) \in LlmRuns /\ RunTold(Ai!Succeeds(told, modelRuns[i].paid + 1, FALSE))
    <3> HIDE DEF told
    <3>1. FALSE <=> told.paid = 0
      BY <2>4
    <3>2. modelRuns[i].paid + 1 = told.paid
      BY <2>2
    <3> QED BY <2>2, <2>4, <3>1, <3>2, SucceedsOK
  <2> QED BY <2>1, <2>3, <2>5, RunTurns
<1>4. ASSUME NEW i \in Runs, Ai!BadAnswer(i) PROVE LlmInv'
  <2> DEFINE told == [modelRuns[i] EXCEPT !.paid = @ + 1]
             again == [told EXCEPT !.repairs = @ - 1, !.tries = ModelAttempts]
  <2>1. /\ modelRuns[i].pc = "call" /\ UNCHANGED aiRuns
        /\ \/ modelRuns' = [modelRuns EXCEPT ![i] = Ai!Fails(told)]
           \/ modelRuns' = [modelRuns EXCEPT ![i] = again]
    BY <1>4 DEF Ai!BadAnswer
  <2>2. told \in LlmRuns /\ told.pc = "call"
    BY <1>0, <2>1, PaidOK
  <2>3. again \in LlmRuns /\ again.pc = "call"
    <3> DEFINE less == [told EXCEPT !.repairs = @ - 1]
    <3>1. again = [less EXCEPT !.tries = ModelAttempts]
      OBVIOUS
    <3> HIDE DEF told, again
    <3>2. less \in LlmRuns /\ less.pc = "call"
      BY <2>2 DEF LlmRuns
    <3> HIDE DEF less
    <3> QED BY <3>1, <3>2 DEF LlmTypes, LlmRuns
  <2>4. RunTold(again)
    BY <2>3 DEF RunTold
  <2>5. Ai!Fails(told) \in LlmRuns /\ RunTold(Ai!Fails(told))
    BY <2>2, FailsOK
  <2> HIDE DEF told, again
  <2>6. CASE modelRuns' = [modelRuns EXCEPT ![i] = Ai!Fails(told)]
    BY <2>1, <2>5, <2>6, RunTurns
  <2>7. CASE modelRuns' = [modelRuns EXCEPT ![i] = again]
    BY <2>1, <2>3, <2>4, <2>7, RunTurns
  <2> QED BY <2>1, <2>6, <2>7
<1>5. ASSUME NEW i \in Runs, NEW retryable \in BOOLEAN, Ai!NoAnswer(i, retryable) PROVE LlmInv'
  <2> DEFINE again == Ai!Retries(modelRuns[i])
  <2>1. /\ modelRuns[i].pc = "call" /\ UNCHANGED aiRuns
        /\ \/ modelRuns' = [modelRuns EXCEPT ![i] = Ai!Fails(modelRuns[i])]
           \/ modelRuns' = [modelRuns EXCEPT ![i] = again]
    <3> DEFINE next == IF retryable /\ modelRuns[i].tries > 1 THEN again ELSE Ai!Fails(modelRuns[i])
    <3>1. modelRuns' = [modelRuns EXCEPT ![i] = next]
      BY <1>5 DEF Ai!NoAnswer
    <3>2. next \in {again, Ai!Fails(modelRuns[i])}
      OBVIOUS
    <3>3. modelRuns[i].pc = "call" /\ UNCHANGED aiRuns
      BY <1>5 DEF Ai!NoAnswer
    <3> HIDE DEF next, again
    <3> QED BY <3>1, <3>2, <3>3
  <2>2. again \in LlmRuns /\ again.pc = "call"
    BY <1>0, <2>1 DEF Ai!Retries, LlmRuns
  <2>3. RunTold(again)
    BY <2>2 DEF RunTold
  <2> HIDE DEF again
  <2>4. CASE modelRuns' = [modelRuns EXCEPT ![i] = Ai!Fails(modelRuns[i])]
    BY <1>0, <2>1, <2>4, FailsOK, RunTurns
  <2>5. CASE modelRuns' = [modelRuns EXCEPT ![i] = again]
    BY <2>1, <2>2, <2>3, <2>5, RunTurns
  <2> QED BY <2>1, <2>4, <2>5
<1>6. ASSUME NEW i \in Runs, Ai!Record(i) PROVE LlmInv'
  <2> DEFINE new == [ok |-> modelRuns[i].ok, cached |-> modelRuns[i].cached, cost |-> modelRuns[i].cost, paid |-> modelRuns[i].paid]
  <2>1. /\ modelRuns[i].pc = "record" /\ modelRuns' = [modelRuns EXCEPT ![i] = Ai!Idle]
        /\ aiRuns' = Append(aiRuns, new) \/ aiRuns' = aiRuns
    BY <1>6 DEF Ai!Record
  <2>2. Ai!Idle \in LlmRuns /\ RunTold(Ai!Idle)
    BY DEF Ai!Idle, LlmRuns, RunTold
  <2>3. new \in LlmRows
    BY <1>0 DEF LlmRuns, LlmRows
  <2>4. Told(modelRuns[i])
    BY <1>0, <2>1 DEF RunTold
  <2>5. Told(new)
    BY <2>4 DEF Told
  <2> HIDE DEF new
  <2>6. CASE aiRuns' = aiRuns
    BY <2>1, <2>2, <2>6, RunTurns
  <2>7. CASE aiRuns' = Append(aiRuns, new)
    <3>1. aiRuns' \in Seq(LlmRows) /\ Len(aiRuns') = Len(aiRuns) + 1
      BY <1>0, <2>3, <2>7
    <3>2. \A k \in 1 .. Len(aiRuns') : aiRuns'[k] = IF k <= Len(aiRuns) THEN aiRuns[k] ELSE new
      BY <1>0, <2>3, <2>7
    <3>3. \A k \in 1 .. Len(aiRuns') : Told(aiRuns'[k])
      <4> SUFFICES ASSUME NEW k \in 1 .. Len(aiRuns') PROVE Told(aiRuns'[k])
        OBVIOUS
      <4>1. Len(aiRuns) \in Nat
        BY <1>0
      <4>2. CASE k <= Len(aiRuns)
        <5>1. k \in 1 .. Len(aiRuns)
          BY <4>1, <4>2, <3>1
        <5> QED BY <3>2, <4>2, <5>1 DEF LlmInv
      <4>3. CASE ~(k <= Len(aiRuns))
        BY <2>5, <3>2, <4>3
      <4> QED BY <4>2, <4>3
    <3>4. modelRuns' \in [Runs -> LlmRuns] /\ \A j \in Runs : RunTold(modelRuns'[j])
      BY <1>0, <2>1, <2>2 DEF LlmInv
    <3> QED BY <3>1, <3>3, <3>4 DEF LlmInv, RunTold, Told
  <2> QED BY <2>1, <2>6, <2>7
<1>7. ASSUME NEW p \in Prompts, Ai!Forget(p) PROVE LlmInv'
  BY <1>7 DEF Ai!Forget, LlmInv, RunTold, Told
<1>8. CASE UNCHANGED Ai!llmVars
  BY <1>8 DEF Ai!llmVars, LlmInv, RunTold, Told
<1> QED BY <1>1, <1>2, <1>3, <1>4, <1>5, <1>6, <1>7, <1>8 DEF Ai!Next

\* run.ts: with any number of calls under way, retried, repaired and refused, the row of a
\* success carries the cost of all the answers that were paid for, and is free only if it
\* came out of the cache.
LEMMA CostStaysTold ==
    ASSUME LlmTypes
    PROVE  ServicesSpec => []Ai!CostIsTold
<1>1. Ai!Init => LlmInv
  BY LlmInit
<1>2. LlmInv /\ [Ai!Next]_(Ai!llmVars) => LlmInv'
  BY LlmStep
<1>3. LlmInv => Ai!CostIsTold
  BY DEF LlmInv, Told, Ai!CostIsTold
<1> QED BY <1>1, <1>2, <1>3, SideBySide, PTL DEF Ai!Spec

\* getMonthlySpendUsd: the sums of the rows up to each of them.
SumsTo(f, rows, last) ==
    /\ f = [n \in 0 .. last |-> f[n]]
    /\ f[0] = 0
    /\ \A n \in 1 .. last : f[n] = f[n - 1] + rows[n].cost

LEMMA SumsExist ==
    ASSUME NEW rows, NEW last \in Nat
    PROVE  \E f : SumsTo(f, rows, last)
<1> DEFINE T == {n \in Nat : ~ \E f : SumsTo(f, rows, n)}
<1>1. SUFFICES ASSUME T # {} PROVE FALSE
  OBVIOUS
<1>2. PICK n \in T : \A m \in T : n <= m
  BY <1>1, LeastOf
<1>3. SumsTo([k \in 0 .. 0 |-> 0], rows, 0)
  BY DEF SumsTo
<1>4. n \in Nat /\ n # 0
  BY <1>2, <1>3
<1>5. n - 1 \in Nat /\ n - 1 \notin T
  BY <1>2, <1>4
<1>6. PICK f : SumsTo(f, rows, n - 1)
  BY <1>5
<1> DEFINE g == [k \in 0 .. n |-> IF k = n THEN f[n - 1] + rows[n].cost ELSE f[k]]
<1>7. SumsTo(g, rows, n)
  <2>1. g[0] = 0
    BY <1>4, <1>6 DEF SumsTo
  <2>2. ASSUME NEW k \in 1 .. n PROVE g[k] = g[k - 1] + rows[k].cost
    <3>1. g[k - 1] = f[k - 1]
      BY <1>4
    <3>2. CASE k = n
      BY <1>4, <3>1, <3>2
    <3>3. CASE k # n
      <4>1. k \in 1 .. n - 1 /\ g[k] = f[k]
        BY <1>4, <3>3
      <4> QED BY <1>6, <3>1, <4>1 DEF SumsTo
    <3> QED BY <3>2, <3>3
  <2> HIDE DEF g
  <2>3. g = [k \in 0 .. n |-> g[k]]
    BY DEF g
  <2> QED BY <2>1, <2>2, <2>3 DEF SumsTo
<1> QED BY <1>2, <1>7

LEMMA SumsAgree ==
    ASSUME NEW f, NEW g, NEW rows, NEW more, NEW last \in Nat, NEW end \in Nat, last <= end,
           SumsTo(f, rows, last), SumsTo(g, more, end), \A n \in 1 .. last : more[n] = rows[n]
    PROVE  f[last] = g[last]
<1> DEFINE T == {n \in 0 .. last : f[n] # g[n]}
<1>1. SUFFICES ASSUME T # {} PROVE FALSE
  OBVIOUS
<1>2. PICK n \in T : \A m \in T : n <= m
  <2>1. T \subseteq Nat
    OBVIOUS
  <2> HIDE DEF T
  <2> QED BY <1>1, <2>1, LeastOf
<1>3. n \in 1 .. last /\ n \in 1 .. end
  BY <1>2 DEF SumsTo
<1>4. n - 1 \in 0 .. last /\ f[n - 1] = g[n - 1]
  BY <1>2, <1>3
<1>5. f[n] = f[n - 1] + rows[n].cost /\ g[n] = g[n - 1] + more[n].cost
  BY <1>3 DEF SumsTo
<1> QED BY <1>2, <1>3, <1>4, <1>5

LEMMA SpentIsSum ==
    ASSUME NEW rows \in Seq(LlmRows), NEW f, SumsTo(f, rows, Len(rows))
    PROVE  Ai!Spent(rows) = f[Len(rows)]
<1> DEFINE Is(h) == h = [n \in 0 .. Len(rows) |-> IF n = 0 THEN 0 ELSE h[n - 1] + rows[n].cost]
           sum == CHOOSE h : Is(h)
<1>1. Len(rows) \in Nat
  OBVIOUS
<1>2. Is(f)
  BY <1>1 DEF SumsTo
<1>3. Is(sum)
  BY <1>2
<1> HIDE DEF sum
<1>4. SumsTo(sum, rows, Len(rows))
  <2>1. sum = [n \in 0 .. Len(rows) |-> sum[n]]
    BY <1>3
  <2>2. sum[0] = 0 /\ \A n \in 1 .. Len(rows) : sum[n] = sum[n - 1] + rows[n].cost
    BY <1>1, <1>3
  <2> QED BY <2>1, <2>2 DEF SumsTo
<1>5. f[Len(rows)] = sum[Len(rows)]
  BY <1>1, <1>4, SumsAgree
<1>6. Ai!Spent(rows) = sum[Len(rows)]
  BY DEF Ai!Spent, sum
<1> QED BY <1>5, <1>6

LEMMA SumsAreNat ==
    ASSUME NEW rows \in Seq(LlmRows), NEW f, SumsTo(f, rows, Len(rows))
    PROVE  \A n \in 0 .. Len(rows) : f[n] \in Nat
<1> DEFINE T == {n \in 0 .. Len(rows) : f[n] \notin Nat}
<1>1. SUFFICES ASSUME T # {} PROVE FALSE
  OBVIOUS
<1>2. PICK n \in T : \A m \in T : n <= m
  <2>1. T \subseteq Nat
    OBVIOUS
  <2> HIDE DEF T
  <2> QED BY <1>1, <2>1, LeastOf
<1>3. n \in 1 .. Len(rows)
  BY <1>2 DEF SumsTo
<1>4. n - 1 \in 0 .. Len(rows) /\ f[n - 1] \in Nat
  BY <1>2, <1>3
<1>5. f[n] = f[n - 1] + rows[n].cost
  BY <1>3 DEF SumsTo
<1>6. rows[n] \in LlmRows
  BY <1>3
<1> QED BY <1>2, <1>4, <1>5, <1>6 DEF LlmRows

\* One more row adds its cost.
LEMMA RowAdds ==
    ASSUME NEW rows \in Seq(LlmRows), NEW row \in LlmRows
    PROVE  /\ Ai!Spent(rows) \in Nat
           /\ Ai!Spent(Append(rows, row)) = Ai!Spent(rows) + row.cost
<1> DEFINE more == Append(rows, row)
           n == Len(rows)
<1>1. /\ n \in Nat /\ more \in Seq(LlmRows) /\ Len(more) = n + 1
      /\ \A k \in 1 .. n : more[k] = rows[k]
      /\ more[n + 1] = row
  OBVIOUS
<1> HIDE DEF more, n
<1>a. n + 1 \in Nat /\ n <= n + 1 /\ n + 1 \in 1 .. n + 1 /\ n + 1 - 1 = n
  BY <1>1
<1>b. n \in Nat
  BY <1>1
<1>2. PICK f : SumsTo(f, rows, n)
  BY <1>b, SumsExist
<1>3. PICK g : SumsTo(g, more, n + 1)
  BY <1>a, SumsExist
<1>4. f[n] = g[n]
  BY <1>1, <1>a, <1>2, <1>3, SumsAgree
<1>5. g[n + 1] = g[n] + row.cost
  BY <1>1, <1>a, <1>3 DEF SumsTo
<1>6. Ai!Spent(rows) = f[n] /\ Ai!Spent(more) = g[n + 1]
  BY <1>1, <1>2, <1>3, SpentIsSum DEF n
<1>7. f[n] \in Nat
  BY <1>1, <1>2, SumsAreNat DEF n
<1> QED BY <1>4, <1>5, <1>6, <1>7 DEF more

\* Some runs may be under way, and the budget is an amount.
MonthTypes == LlmTypes /\ IsFiniteSet(Runs) /\ Runs # {} /\ MonthlyLimit \in Nat

\* One call with all its repairs.
Full == RepairAttempts + 1

\* What a run has paid for it still can answer for, and it never enters more than a full
\* call.
Bounded(run) ==
    /\ run.usage = 0 /\ run.cost <= Full
    /\ run.pc = "call" => run.repairs \in Nat /\ run.paid + run.repairs = RepairAttempts
\* It was let in and may still cost something.
Takes(run) == run.pc = "call" \/ (run.pc = "record" /\ run.cost > 0)
Taking == {i \in Runs : Takes(modelRuns[i])}

MonthInv ==
    /\ \A i \in Runs : Bounded(modelRuns[i])
    /\ Ai!MonthlySpend + Full * Cardinality(Taking) <= MonthlyLimit - 1 + Full * Cardinality(Runs)

LEMMA TakingCounts ==
    ASSUME MonthTypes
    PROVE  \A T \in SUBSET Runs : IsFiniteSet(T) /\ Cardinality(T) \in Nat /\ Cardinality(T) <= Cardinality(Runs)
<1>1. ASSUME NEW T \in SUBSET Runs
      PROVE  IsFiniteSet(T) /\ Cardinality(T) \in Nat /\ Cardinality(T) <= Cardinality(Runs)
  BY FS_Subset, FS_CardinalityType DEF MonthTypes
<1> QED BY <1>1

LEMMA MonthInit ==
    ASSUME MonthTypes, Ai!Init
    PROVE  MonthInv
<1>1. modelRuns = [i \in Runs |-> Ai!Idle] /\ aiRuns = <<>>
  BY DEF Ai!Init
<1>2. Bounded(Ai!Idle) /\ ~Takes(Ai!Idle)
  BY DEF Ai!Idle, Bounded, Takes, Full, MonthTypes, LlmTypes
<1>3. Taking = {} /\ \A i \in Runs : Bounded(modelRuns[i])
  BY <1>1, <1>2 DEF Taking
<1>4. Ai!MonthlySpend = 0
  <2> DEFINE f == [n \in 0 .. 0 |-> 0]
  <2>1. aiRuns \in Seq(LlmRows) /\ Len(aiRuns) = 0
    BY <1>1
  <2>2. SumsTo(f, aiRuns, Len(aiRuns)) /\ f[Len(aiRuns)] = 0
    BY <2>1 DEF SumsTo
  <2> HIDE DEF f
  <2> QED BY <2>1, <2>2, SpentIsSum DEF Ai!MonthlySpend
<1>5. Cardinality(Runs) \in Nat /\ Cardinality(Runs) >= 1 /\ Cardinality(Taking) = 0
  BY <1>3, FS_EmptySet, FS_CardinalityType DEF MonthTypes
<1>6. Full * 1 <= Full * Cardinality(Runs) /\ Full \in Nat
  BY <1>5, MulLe DEF Full, MonthTypes, LlmTypes
<1>7. Full >= 1
  BY DEF Full, MonthTypes, LlmTypes
<1> QED BY <1>3, <1>4, <1>5, <1>6, <1>7 DEF MonthInv, MonthTypes

\* A run goes on: it may cost something only if it might before, or was let in just now.
LEMMA RunSpends ==
    ASSUME MonthTypes, LlmInv, MonthInv, NEW i \in Runs, NEW run, Bounded(run),
           modelRuns' = [modelRuns EXCEPT ![i] = run], UNCHANGED aiRuns,
           Takes(run) => Takes(modelRuns[i]) \/ Ai!MonthlySpend < MonthlyLimit
    PROVE  MonthInv'
<1>1. /\ modelRuns'[i] = run /\ \A j \in Runs \ {i} : modelRuns'[j] = modelRuns[j]
      /\ \A j \in Runs : Bounded(modelRuns'[j])
  BY DEF LlmInv, MonthInv
<1>2. Ai!MonthlySpend' = Ai!MonthlySpend /\ Ai!MonthlySpend \in Nat
  <2>1. PICK row : row \in LlmRows
    <3>1. [ok |-> TRUE, cached |-> TRUE, cost |-> 0, paid |-> 0] \in LlmRows
      BY DEF LlmRows
    <3> QED BY <3>1
  <2>2. Ai!Spent(aiRuns) \in Nat
    BY <2>1, RowAdds DEF LlmInv
  <2> QED BY <2>2 DEF Ai!MonthlySpend
<1>3. Full \in Nat
  BY DEF Full, MonthTypes, LlmTypes
<1>4. /\ Cardinality(Taking) \in Nat /\ Cardinality(Taking') \in Nat /\ IsFiniteSet(Taking)
      /\ Cardinality(Taking') <= Cardinality(Runs) /\ Cardinality(Runs) \in Nat
  BY TakingCounts DEF Taking
<1>5. CASE Takes(run) => Takes(modelRuns[i])
  <2>1. Taking' \subseteq Taking
    BY <1>1, <1>5 DEF Taking
  <2>2. Cardinality(Taking') <= Cardinality(Taking)
    BY <1>4, <2>1, FS_Subset
  <2>3. Full * Cardinality(Taking') <= Full * Cardinality(Taking)
    BY <1>3, <1>4, <2>2, MulLe
  <2>4. Full * Cardinality(Taking') \in Nat /\ Full * Cardinality(Taking) \in Nat /\ Full * Cardinality(Runs) \in Nat
    BY <1>3, <1>4, MulNat
  <2> QED BY <1>1, <1>2, <2>3, <2>4 DEF MonthInv, MonthTypes
<1>6. CASE Ai!MonthlySpend < MonthlyLimit
  <2>1. Full * Cardinality(Taking') <= Full * Cardinality(Runs)
    BY <1>3, <1>4, MulLe
  <2>2. Full * Cardinality(Taking') \in Nat /\ Full * Cardinality(Runs) \in Nat
    BY <1>3, <1>4, MulNat
  <2> QED BY <1>1, <1>2, <1>6, <2>1, <2>2 DEF MonthInv, MonthTypes
<1> QED BY <1>5, <1>6

LEMMA FailsBounded ==
    ASSUME MonthTypes, NEW run \in LlmRuns, run.usage = 0
    PROVE  Bounded(Ai!Fails(run)) /\ ~Takes(Ai!Fails(run))
<1>1. Ai!Fails(run).pc = "record" /\ Ai!Fails(run).cost = run.usage /\ Ai!Fails(run).usage = run.usage
  BY DEF Ai!Fails, LlmRuns
<1> QED BY <1>1 DEF Bounded, Takes, Full, MonthTypes, LlmTypes

LEMMA MonthStep ==
    ASSUME MonthTypes, LlmInv, MonthInv, [Ai!Next]_(Ai!llmVars)
    PROVE  MonthInv'
<1>0. /\ \A i \in Runs : modelRuns[i] \in LlmRuns /\ RunTold(modelRuns[i]) /\ Bounded(modelRuns[i])
      /\ aiRuns \in Seq(LlmRows)
  BY DEF LlmInv, MonthInv
<1>a. RepairAttempts \in Nat
  BY DEF MonthTypes, LlmTypes
<1>1. ASSUME NEW i \in Runs, NEW p \in Prompts, NEW useCache \in BOOLEAN, Ai!Start(i, p, useCache) PROVE MonthInv'
  <2> DEFINE run == [Ai!Idle EXCEPT !.pc = "budget", !.prompt = p, !.useCache = useCache]
  <2>1. modelRuns' = [modelRuns EXCEPT ![i] = run] /\ UNCHANGED aiRuns
    BY <1>1 DEF Ai!Start
  <2>2. run.pc = "budget" /\ run.usage = 0 /\ run.cost = 0
    BY DEF Ai!Idle
  <2> HIDE DEF run
  <2>3. Bounded(run) /\ ~Takes(run)
    BY <1>a, <2>2 DEF Bounded, Takes, Full
  <2> QED BY <2>1, <2>3, RunSpends
<1>2. ASSUME NEW i \in Runs, Ai!CheckBudget(i) PROVE MonthInv'
  <2> DEFINE old == modelRuns[i]
  <2>1. PICK run \in {Ai!Fails(old), Ai!Succeeds(old, 0, TRUE), Ai!Calls(old)} :
          /\ modelRuns' = [modelRuns EXCEPT ![i] = run] /\ UNCHANGED aiRuns
          /\ run = Ai!Fails(old) \/ Ai!MonthlySpend < MonthlyLimit
    <3> DEFINE run == IF Ai!MonthlySpend >= MonthlyLimit THEN Ai!Fails(old)
                      ELSE IF (IF old.useCache THEN llmCache[old.prompt] ELSE "none") = "clean"
                      THEN Ai!Succeeds(old, 0, TRUE) ELSE Ai!Calls(old)
    <3>1. modelRuns' = [modelRuns EXCEPT ![i] = run] /\ UNCHANGED aiRuns
      BY <1>2 DEF Ai!CheckBudget
    <3>2. Ai!MonthlySpend \in Nat /\ MonthlyLimit \in Nat
      <4>1. [ok |-> TRUE, cached |-> TRUE, cost |-> 0, paid |-> 0] \in LlmRows
        BY DEF LlmRows
      <4> QED BY <1>0, <4>1, RowAdds DEF Ai!MonthlySpend, MonthTypes
    <3>3. run \in {Ai!Fails(old), Ai!Succeeds(old, 0, TRUE), Ai!Calls(old)}
      OBVIOUS
    <3>4. run = Ai!Fails(old) \/ Ai!MonthlySpend < MonthlyLimit
      <4>1. CASE Ai!MonthlySpend >= MonthlyLimit
        BY <4>1
      <4>2. CASE ~(Ai!MonthlySpend >= MonthlyLimit)
        <5> HIDE DEF run
        <5> QED BY <3>2, <4>2
      <4> QED BY <4>1, <4>2
    <3> HIDE DEF run, old
    <3> QED BY <3>1, <3>3, <3>4
  <2>2. old \in LlmRuns /\ old.paid = 0 /\ old.usage = 0 /\ old.cost <= Full
    BY <1>0, <1>2 DEF Ai!CheckBudget, RunTold, Bounded
  <2> HIDE DEF old
  <2>3. Bounded(Ai!Fails(old)) /\ ~Takes(Ai!Fails(old))
    BY <2>2, FailsBounded
  <2>4. Bounded(Ai!Succeeds(old, 0, TRUE))
    <3> DEFINE new == Ai!Succeeds(old, 0, TRUE)
    <3>1. new.pc = "record" /\ new.cost = 0 /\ new.usage = old.usage
      BY <2>2 DEF Ai!Succeeds, LlmRuns
    <3> HIDE DEF new
    <3>2. Bounded(new)
      BY <1>a, <2>2, <3>1 DEF Bounded, Full
    <3> QED BY <3>2 DEF new
  <2>5. Bounded(Ai!Calls(old))
    <3>1. /\ Ai!Calls(old).repairs = RepairAttempts /\ Ai!Calls(old).paid = old.paid
          /\ Ai!Calls(old).usage = old.usage /\ Ai!Calls(old).cost = old.cost
      BY <2>2 DEF Ai!Calls, LlmRuns
    <3> QED BY <1>a, <2>2, <3>1 DEF Bounded
  <2>6. Bounded(run) /\ (Takes(run) => Ai!MonthlySpend < MonthlyLimit)
    BY <2>1, <2>3, <2>4, <2>5
  <2> QED BY <2>1, <2>6, RunSpends
<1>3. ASSUME NEW i \in Runs, NEW form, Ai!GoodAnswer(i, form) PROVE MonthInv'
  <2> DEFINE old == modelRuns[i]
             new == Ai!Answered(old)
  <2>1. modelRuns' = [modelRuns EXCEPT ![i] = new] /\ UNCHANGED aiRuns /\ old.pc = "call"
    BY <1>3 DEF Ai!GoodAnswer
  <2>2. old \in LlmRuns /\ Bounded(old)
    BY <1>0
  <2>3. new.pc = "record" /\ new.usage = old.usage /\ new.cost = old.paid + 1
    BY <2>2 DEF Ai!Answered, Ai!Succeeds, LlmRuns
  <2>4. old.paid \in Nat
    BY <2>2 DEF LlmRuns
  <2>5. Takes(old)
    BY <2>1 DEF Takes
  <2> HIDE DEF old, new
  <2>6. Bounded(new)
    BY <1>a, <2>1, <2>2, <2>3, <2>4 DEF Bounded, Full
  <2> QED BY <2>1, <2>5, <2>6, RunSpends DEF old
<1>4. ASSUME NEW i \in Runs, Ai!BadAnswer(i) PROVE MonthInv'
  <2> DEFINE old == modelRuns[i]
             told == [old EXCEPT !.paid = @ + 1]
             again == [told EXCEPT !.repairs = @ - 1, !.tries = ModelAttempts]
  <2>1. /\ old.pc = "call" /\ UNCHANGED aiRuns
        /\ \/ modelRuns' = [modelRuns EXCEPT ![i] = Ai!Fails(told)]
           \/ told.repairs # 0 /\ modelRuns' = [modelRuns EXCEPT ![i] = again]
    BY <1>4 DEF Ai!BadAnswer
  <2>2. old \in LlmRuns /\ Bounded(old) /\ Takes(old)
    BY <1>0, <2>1 DEF Takes
  <2>3. told \in LlmRuns /\ told.usage = 0 /\ told.repairs = old.repairs
    BY <2>2 DEF LlmRuns, Bounded
  <2>4. told.repairs # 0 => Bounded(again)
    <3>1. /\ again.pc = "call" /\ again.repairs = old.repairs - 1 /\ again.paid = old.paid + 1
          /\ again.usage = 0 /\ again.cost = old.cost
      BY <2>1, <2>2 DEF LlmRuns, Bounded
    <3>2. old.paid \in Nat /\ old.cost <= Full /\ old.repairs \in Nat /\ old.paid + old.repairs = RepairAttempts
      BY <2>1, <2>2 DEF LlmRuns, Bounded
    <3> HIDE DEF old, told, again
    <3> QED BY <1>a, <2>3, <3>1, <3>2 DEF Bounded
  <2> HIDE DEF told, again
  <2>5. CASE modelRuns' = [modelRuns EXCEPT ![i] = Ai!Fails(told)]
    <3>1. Bounded(Ai!Fails(told))
      BY <2>3, FailsBounded
    <3> QED BY <2>1, <2>2, <2>5, <3>1, RunSpends
  <2>6. CASE told.repairs # 0 /\ modelRuns' = [modelRuns EXCEPT ![i] = again]
    BY <2>1, <2>2, <2>4, <2>6, RunSpends
  <2> QED BY <2>1, <2>5, <2>6
<1>5. ASSUME NEW i \in Runs, NEW retryable \in BOOLEAN, Ai!NoAnswer(i, retryable) PROVE MonthInv'
  <2> DEFINE old == modelRuns[i]
             next == IF retryable /\ old.tries > 1 THEN Ai!Retries(old) ELSE Ai!Fails(old)
  <2>1. modelRuns' = [modelRuns EXCEPT ![i] = next] /\ old.pc = "call" /\ UNCHANGED aiRuns
    BY <1>5 DEF Ai!NoAnswer
  <2>2. next \in {Ai!Retries(old), Ai!Fails(old)}
    OBVIOUS
  <2>3. old \in LlmRuns /\ Bounded(old) /\ Takes(old)
    BY <1>0, <2>1 DEF Takes
  <2>4. /\ Ai!Retries(old).pc = old.pc /\ Ai!Retries(old).usage = old.usage /\ Ai!Retries(old).cost = old.cost
        /\ Ai!Retries(old).paid = old.paid /\ Ai!Retries(old).repairs = old.repairs
    BY <2>3 DEF Ai!Retries, LlmRuns
  <2> HIDE DEF next
  <2>5. Bounded(Ai!Retries(old))
    BY <2>3, <2>4 DEF Bounded
  <2>6. Bounded(Ai!Fails(old))
    BY <2>3, FailsBounded DEF Bounded
  <2> QED BY <2>1, <2>2, <2>3, <2>5, <2>6, RunSpends
<1>6. ASSUME NEW i \in Runs, Ai!Record(i) PROVE MonthInv'
  <2> DEFINE old == modelRuns[i]
             new == [ok |-> old.ok, cached |-> old.cached, cost |-> old.cost, paid |-> old.paid]
  <2>1. /\ old.pc = "record" /\ modelRuns' = [modelRuns EXCEPT ![i] = Ai!Idle]
        /\ aiRuns' = Append(aiRuns, new) \/ aiRuns' = aiRuns
    BY <1>6 DEF Ai!Record
  <2>2. Bounded(Ai!Idle) /\ ~Takes(Ai!Idle)
    BY <1>a DEF Ai!Idle, Bounded, Takes, Full
  <2>3. new \in LlmRows /\ new.cost = old.cost /\ old.cost \in Nat /\ old.cost <= Full
    BY <1>0 DEF LlmRuns, LlmRows, Bounded
  <2>4. CASE aiRuns' = aiRuns
    BY <2>1, <2>2, <2>4, RunSpends
  <2>5. CASE aiRuns' = Append(aiRuns, new)
    <3> HIDE DEF new
    <3>1. Ai!Spent(aiRuns) \in Nat /\ Ai!Spent(aiRuns') = Ai!Spent(aiRuns) + old.cost
      BY <1>0, <2>3, <2>5, RowAdds
    <3>2. /\ modelRuns'[i] = Ai!Idle /\ \A j \in Runs \ {i} : modelRuns'[j] = modelRuns[j]
          /\ \A j \in Runs : Bounded(modelRuns'[j])
      BY <2>1, <2>2 DEF LlmInv, MonthInv
    <3>3. Taking' = Taking \ {i}
      BY <2>2, <3>2 DEF Taking
    <3>4. IsFiniteSet(Taking) /\ Cardinality(Taking) \in Nat /\ Cardinality(Runs) \in Nat
      BY TakingCounts DEF Taking
    <3>5. /\ i \in Taking => Cardinality(Taking') = Cardinality(Taking) - 1
          /\ i \notin Taking => Cardinality(Taking') = Cardinality(Taking)
      BY <3>3, <3>4, FS_RemoveElement
    <3>6. i \notin Taking => old.cost = 0
      BY <2>1, <2>3 DEF Taking, Takes
    <3>7. Full \in Nat
      BY <1>a DEF Full
    <3>8. Full * (Cardinality(Taking) - 1) = Full * Cardinality(Taking) - Full
      BY <3>4, <3>7
    <3>9. Full * Cardinality(Taking) \in Nat /\ Full * Cardinality(Runs) \in Nat
      BY <3>4, <3>7, MulNat
    <3>10. Ai!Spent(aiRuns') + Full * Cardinality(Taking') <= Ai!Spent(aiRuns) + Full * Cardinality(Taking)
      <4>1. CASE i \in Taking
        BY <2>3, <3>1, <3>5, <3>7, <3>8, <3>9, <4>1
      <4>2. CASE i \notin Taking
        BY <3>1, <3>5, <3>6, <3>9, <4>2
      <4> QED BY <4>1, <4>2
    <3>11. Full * Cardinality(Taking') \in Int
      BY <3>4, <3>5, <3>7
    <3>12. Ai!Spent(aiRuns) + Full * Cardinality(Taking) <= MonthlyLimit - 1 + Full * Cardinality(Runs)
      BY DEF MonthInv, Ai!MonthlySpend
    <3>13. Ai!Spent(aiRuns') + Full * Cardinality(Taking') <= MonthlyLimit - 1 + Full * Cardinality(Runs)
      <4>1. \A a, b, c \in Int : a <= b /\ b <= c => a <= c
        OBVIOUS
      <4>2. /\ Ai!Spent(aiRuns') + Full * Cardinality(Taking') \in Int
            /\ Ai!Spent(aiRuns) + Full * Cardinality(Taking) \in Int
            /\ MonthlyLimit - 1 + Full * Cardinality(Runs) \in Int
        BY <2>3, <3>1, <3>9, <3>11 DEF MonthTypes
      <4> QED BY ONLY <3>10, <3>12, <4>1, <4>2
    <3> QED BY <3>2, <3>13 DEF MonthInv, Ai!MonthlySpend, Full
  <2> QED BY <2>1, <2>4, <2>5
<1>7. ASSUME NEW p \in Prompts, Ai!Forget(p) PROVE MonthInv'
  BY <1>7 DEF Ai!Forget, MonthInv, Taking, Ai!MonthlySpend
<1>8. CASE UNCHANGED Ai!llmVars
  BY <1>8 DEF Ai!llmVars, MonthInv, Taking, Ai!MonthlySpend
<1> QED BY <1>1, <1>2, <1>3, <1>4, <1>5, <1>6, <1>7, <1>8 DEF Ai!Next

\* The calls that may still cost something are counted in full.
LEMMA MonthMeans ==
    ASSUME MonthTypes, LlmInv, MonthInv
    PROVE  Ai!MonthHolds
<1>1. Ai!Cardinality(Runs) = Cardinality(Runs)
  BY DEF Ai!Cardinality, Cardinality
<1>2. Full \in Nat /\ Cardinality(Taking) \in Nat /\ Cardinality(Runs) \in Nat
  BY TakingCounts DEF Taking, Full, MonthTypes, LlmTypes
<1>3. Full * Cardinality(Taking) \in Nat /\ Full * Cardinality(Runs) = Cardinality(Runs) * (RepairAttempts + 1)
  BY <1>2, MulNat DEF Full, MonthTypes, LlmTypes
<1>4. Ai!MonthlySpend \in Nat
  <2>1. [ok |-> TRUE, cached |-> TRUE, cost |-> 0, paid |-> 0] \in LlmRows
    BY DEF LlmRows
  <2> QED BY <2>1, RowAdds DEF LlmInv, Ai!MonthlySpend
<1>5. Ai!MonthlySpend + Full * Cardinality(Taking) <= MonthlyLimit - 1 + Full * Cardinality(Runs)
  BY DEF MonthInv
<1> QED BY <1>1, <1>2, <1>3, <1>4, <1>5 DEF Ai!MonthHolds, MonthTypes

\* run.ts: however many calls are checked against the month before any of them is entered,
\* and however often each is repaired, the rows of the month pass the limit by no more than
\* what the runs that were let in could cost, and the row of a success tells all it was
\* charged.  A failed call is outside of both: its row says 0.
THEOREM SuccessesStayCharged ==
    ASSUME MonthTypes
    PROVE  ServicesSpec => []SuccessesAreCharged
<1> DEFINE Inv == LlmInv /\ MonthInv
<1>1. Ai!Init => Inv
  BY LlmInit, MonthInit DEF MonthTypes
<1>2. Inv /\ [Ai!Next]_(Ai!llmVars) => Inv'
  BY LlmStep, MonthStep DEF MonthTypes
<1>3. Inv => Ai!MonthHolds
  BY MonthMeans
<1>4. ServicesSpec => []Ai!MonthHolds
  BY <1>1, <1>2, <1>3, SideBySide, PTL DEF Ai!Spec
<1>5. ServicesSpec => []Ai!CostIsTold
  BY CostStaysTold DEF MonthTypes
<1> QED BY <1>4, <1>5, PTL DEF SuccessesAreCharged

-----------------------------------------------------------------------------
(* Onboarding: the interview under its optimistic lock, and the columns of  *)
(* Metrika.                                                                 *)

\* A row as the code reads it; what is asked and answered may be anything.
BriefRow(r) == \E D, T : r \in [status : Onb!Statuses, draft : D, turns : Seq(T), askedCount : Int,
                                halted : Onb!HaltReasons \cup {Onb!NoHalt}, version : Nat]
IsSequence(s) == \E S : s \in Seq(S)

\* What the turns say of the messages they stand for, words.
Mentions(turns, n) == \E i \in DOMAIN turns : turns[i].message = n
AreSaid(turns, words) == \A i \in DOMAIN turns : turns[i].by = "client" => turns[i].message \in DOMAIN words
Gives(message, url) ==
    \E k \in DOMAIN message.addresses : Onb!Names(message.addresses[k]) /\ Onb!Url(message.addresses[k]) = url
Named(turns, url, words) ==
    \E i \in DOMAIN turns : turns[i].by = "client" /\ Gives(words[turns[i].message], url)
NoneNamed(turns, words) ==
    \A i \in DOMAIN turns : turns[i].by = "client" => ~Onb!MentionsWebAddress(words[turns[i].message])

\* The address of the draft is a client's, and a halt for want of one is true.
RowHonest(r, words) ==
    /\ AreSaid(r.turns, words)
    /\ "landingUrl" \in DOMAIN r.draft => Named(r.turns, r.draft["landingUrl"], words)
    /\ r.halted = "no-landing" => NoneNamed(r.turns, words)

\* An old brief is an honest row.
OnbTypes == \A old \in OldBriefs : BriefRow(old.row) /\ IsSequence(old.said) /\ RowHonest(old.row, old.said)

\* What a handler may write back is honest and holds the message it answers; and, if nobody
\* wrote since it read the row, all that is in the row.
HoldsAll(h) ==
    LET r == interview[h].row
    IN  /\ BriefRow(r) /\ r.status # "NONE" /\ RowHonest(r, said)
        /\ r.version <= brief.version
        /\ r.version = brief.version => \A n : Mentions(brief.turns, n) => Mentions(r.turns, n)
        /\ interview[h].message = 0 \/ Mentions(r.turns, interview[h].message)

OnbInv ==
    /\ BriefRow(brief) /\ RowHonest(brief, said) /\ IsSequence(said)
    /\ interview = [h \in Handlers |-> interview[h]]
    /\ brief.status = "NONE" => heard = {} /\ \A h \in Handlers : interview[h].pc = "idle"
    /\ \A h \in Handlers : interview[h].pc = "offered" => interview[h].message \in DOMAIN said
    /\ \A h \in Handlers : interview[h].pc \in {"asking", "repeating"} => HoldsAll(h)
    /\ \A n \in heard : Mentions(brief.turns, n)

\* One more turn takes nothing away.
LEMMA AppendTurn ==
    ASSUME NEW S, NEW turns \in Seq(S), NEW turn, NEW words
    PROVE  /\ IsSequence(Append(turns, turn))
           /\ \A n : Mentions(turns, n) => Mentions(Append(turns, turn), n)
           /\ Mentions(Append(turns, turn), turn.message)
           /\ \A url : Named(turns, url, words) => Named(Append(turns, turn), url, words)
           /\ (turn.by = "client" => turn.message \in DOMAIN words) =>
                 (AreSaid(turns, words) => AreSaid(Append(turns, turn), words))
           /\ (turn.by = "client" => ~Onb!MentionsWebAddress(words[turn.message])) =>
                 (NoneNamed(turns, words) => NoneNamed(Append(turns, turn), words))
<1> DEFINE T == S \cup {turn}
           more == Append(turns, turn)
<1>1. turns \in Seq(T)
  OBVIOUS
<1>2. more \in Seq(T)
  BY <1>1
<1>3. /\ DOMAIN turns = 1 .. Len(turns) /\ Len(turns) \in Nat
      /\ DOMAIN more = 1 .. Len(turns) + 1
      /\ \A i \in 1 .. Len(turns) : more[i] = turns[i]
      /\ more[Len(turns) + 1] = turn
  BY <1>1
<1>4. /\ Len(turns) + 1 \in DOMAIN more /\ DOMAIN turns \subseteq DOMAIN more
      /\ \A i \in DOMAIN more : i \in DOMAIN turns \/ i = Len(turns) + 1
      /\ \A i \in DOMAIN turns : more[i] = turns[i]
  BY <1>3
<1> HIDE DEF T, more
<1>5. IsSequence(more)
  BY <1>2 DEF IsSequence
<1>6. (\A n : Mentions(turns, n) => Mentions(more, n)) /\ Mentions(more, turn.message)
  BY <1>3, <1>4 DEF Mentions
<1>7. \A url : Named(turns, url, words) => Named(more, url, words)
  BY <1>4 DEF Named
<1>8. ASSUME turn.by = "client" => turn.message \in DOMAIN words, AreSaid(turns, words) PROVE AreSaid(more, words)
  BY <1>3, <1>4, <1>8 DEF AreSaid
<1>9. ASSUME turn.by = "client" => ~Onb!MentionsWebAddress(words[turn.message]), NoneNamed(turns, words)
      PROVE  NoneNamed(more, words)
  BY <1>3, <1>4, <1>9 DEF NoneNamed
<1> QED BY <1>5, <1>6, <1>7, <1>8, <1>9 DEF more

\* One more message changes nothing that was said.
LEMMA SaidGrows ==
    ASSUME NEW S, NEW words \in Seq(S), NEW m, NEW r, RowHonest(r, words)
    PROVE  RowHonest(r, Append(words, m))
<1> DEFINE more == Append(words, m)
<1>1. words \in Seq(S \cup {m})
  OBVIOUS
<1>2. DOMAIN words \subseteq DOMAIN more /\ \A i \in DOMAIN words : more[i] = words[i]
  BY <1>1
<1> HIDE DEF more
<1>3. AreSaid(r.turns, words) /\ AreSaid(r.turns, more)
  BY <1>2 DEF RowHonest, AreSaid
<1>4. \A url : Named(r.turns, url, words) => Named(r.turns, url, more)
  BY <1>2, <1>3 DEF Named, AreSaid
<1>5. NoneNamed(r.turns, words) => NoneNamed(r.turns, more)
  BY <1>2, <1>3 DEF NoneNamed, AreSaid
<1> QED BY <1>3, <1>4, <1>5 DEF RowHonest, more

\* proveLandingUrl: what it lets through is in a message of the client.
LEMMA ProvenIsGiven ==
    ASSUME NEW url, NEW messages, NEW u \in Onb!Proven(url, messages)
    PROVE  \E i \in DOMAIN messages : Gives(messages[i], u)
<1> DEFINE places == UNION {{<<i, k>> : k \in DOMAIN messages[i].addresses} : i \in DOMAIN messages}
           At(p) == messages[p[1]].addresses[p[2]]
<1>1. ASSUME NEW p \in places PROVE p[1] \in DOMAIN messages /\ p[2] \in DOMAIN messages[p[1]].addresses
  OBVIOUS
<1>2. \E p \in places : Onb!Names(At(p)) /\ Onb!Url(At(p)) = u
  BY DEF Onb!Proven, Onb!Names
<1> HIDE DEF places
<1> QED BY <1>1, <1>2 DEF Gives

\* applyTurnUpdates: the address of the new draft is the old one, or one so proven.
LEMMA DraftAddress ==
    ASSUME NEW draft, NEW turn, NEW messages,
           "landingUrl" \in DOMAIN Onb!ApplyTurnUpdates(draft, turn, messages)
    PROVE  LET u == Onb!ApplyTurnUpdates(draft, turn, messages)["landingUrl"]
           IN  \/ "landingUrl" \in DOMAIN draft /\ u = draft["landingUrl"]
               \/ \E i \in DOMAIN messages : Gives(messages[i], u)
<1> DEFINE url == turn.updates["landingUrl"]
           new == Onb!ApplyTurnUpdates(draft, turn, messages)
           u == new["landingUrl"]
<1>1. \/ "landingUrl" \in DOMAIN draft /\ u = draft["landingUrl"]
      \/ Onb!Accepts(turn, "landingUrl", messages) /\ u = Onb!Taken(turn, "landingUrl", messages)
  BY DEF Onb!ApplyTurnUpdates
<1>2. /\ Onb!Accepts(turn, "landingUrl", messages) => Onb!Proven(url, messages) # {}
      /\ Onb!Taken(turn, "landingUrl", messages) = CHOOSE v \in Onb!Proven(url, messages) : TRUE
  <2>1. Onb!Accepts(turn, "landingUrl", messages) => Onb!Proven(url, messages) # {}
    BY DEF Onb!Accepts
  <2>2. Onb!Taken(turn, "landingUrl", messages) = CHOOSE v \in Onb!Proven(url, messages) : TRUE
    BY DEF Onb!Taken
  <2> QED BY <2>1, <2>2
<1>3. Onb!Proven(url, messages) # {} => (CHOOSE v \in Onb!Proven(url, messages) : TRUE) \in Onb!Proven(url, messages)
  OBVIOUS
<1> HIDE DEF url
<1>4. CASE "landingUrl" \in DOMAIN draft /\ u = draft["landingUrl"]
  BY <1>4
<1>5. CASE u \in Onb!Proven(url, messages)
  BY <1>5, ProvenIsGiven
<1> QED BY <1>1, <1>2, <1>3, <1>4, <1>5

\* The messages of the turns.
LEMMA MessagesOfTurns ==
    ASSUME NEW turns
    PROVE  /\ \A url : (\E i \in DOMAIN Onb!UserMessages(turns) : Gives(Onb!UserMessages(turns)[i], url))
                          <=> Named(turns, url, said)
           /\ (\A i \in DOMAIN Onb!UserMessages(turns) : ~Onb!MentionsWebAddress(Onb!UserMessages(turns)[i]))
                          <=> NoneNamed(turns, said)
<1>1. /\ DOMAIN Onb!UserMessages(turns) = {k \in DOMAIN turns : turns[k].by = "client"}
      /\ \A i \in DOMAIN turns : turns[i].by = "client" => Onb!UserMessages(turns)[i] = said[turns[i].message]
  BY DEF Onb!UserMessages
<1> QED BY <1>1 DEF Named, NoneNamed

LEMMA EmptyRowOK == BriefRow(Onb!EmptyRow) /\ \A words : RowHonest(Onb!EmptyRow, words)
<1>1. <<>> \in Seq({}) /\ DOMAIN <<>> = {} /\ "landingUrl" \notin DOMAIN Onb!NoDraft
  BY DEF Onb!NoDraft
<1>2. BriefRow(Onb!EmptyRow)
  <2>1. Onb!EmptyRow \in [status : Onb!Statuses, draft : {Onb!NoDraft}, turns : Seq({}), askedCount : Int,
                          halted : Onb!HaltReasons \cup {Onb!NoHalt}, version : Nat]
    BY <1>1 DEF Onb!EmptyRow, Onb!NoHalt, Onb!Statuses
  <2> QED BY <2>1 DEF BriefRow
<1>3. ASSUME NEW words PROVE RowHonest(Onb!EmptyRow, words)
  BY <1>1 DEF RowHonest, AreSaid, Onb!EmptyRow, Onb!NoHalt
<1> QED BY <1>2, <1>3

LEMMA OnbInit == ASSUME OnbTypes, Onb!Init PROVE OnbInv
<1>1. BriefRow(brief) /\ RowHonest(brief, said) /\ IsSequence(said)
  <2>1. IsSequence(<<>>)
    <3>1. <<>> \in Seq({})
      OBVIOUS
    <3> QED BY <3>1 DEF IsSequence
  <2>2. CASE brief = Onb!EmptyRow /\ said = <<>>
    BY <2>1, <2>2, EmptyRowOK
  <2>3. CASE \E old \in OldBriefs : brief = old.row /\ said = old.said
    BY <2>3 DEF OnbTypes
  <2> QED BY <2>2, <2>3 DEF Onb!Init
<1>2. /\ interview = [h \in Handlers |-> interview[h]] /\ \A h \in Handlers : interview[h].pc = "idle"
      /\ heard = {}
  BY DEF Onb!Init, Onb!Idle
<1> QED BY <1>1, <1>2 DEF OnbInv

\* A handler that has nothing to write any more, or still the same.
LEMMA HandlerTurns ==
    ASSUME OnbInv, NEW h \in Handlers, NEW new, UNCHANGED <<brief, heard, said>>, brief.status # "NONE",
           interview' = [interview EXCEPT ![h] = new],
           new.pc = "offered" => new.message \in DOMAIN said,
           new.pc \in {"asking", "repeating"} =>
              /\ BriefRow(new.row) /\ new.row.status # "NONE" /\ RowHonest(new.row, said)
              /\ new.row.version = brief.version
              /\ \A n : Mentions(brief.turns, n) => Mentions(new.row.turns, n)
              /\ new.message = 0 \/ Mentions(new.row.turns, new.message)
    PROVE  OnbInv'
<1>1. interview'[h] = new /\ \A g \in Handlers \ {h} : interview'[g] = interview[g]
  BY DEF OnbInv
<1>2. interview' = [g \in Handlers |-> interview'[g]]
  BY DEF OnbInv
<1>3. brief.version \in Nat
  BY DEF OnbInv, BriefRow
<1>4. ASSUME NEW g \in Handlers, interview'[g].pc \in {"asking", "repeating"} PROVE HoldsAll(g)'
  <2>1. CASE g = h
    BY <1>1, <1>3, <1>4, <2>1 DEF HoldsAll
  <2>2. CASE g # h
    BY <1>1, <1>4, <2>2 DEF HoldsAll, OnbInv
  <2> QED BY <2>1, <2>2
<1>5. ASSUME NEW g \in Handlers, interview'[g].pc = "offered" PROVE interview'[g].message \in DOMAIN said
  BY <1>1, <1>5 DEF OnbInv
<1> QED BY <1>2, <1>4, <1>5 DEF OnbInv

\* A handler writes back what it holds, with one more turn, or finds that somebody wrote.
LEMMA HandlerPersists ==
    ASSUME OnbInv, NEW h \in Handlers, interview[h].pc \in {"asking", "repeating"}, said' = said,
           NEW new, NEW turn, NEW next, next.pc \notin {"offered", "asking", "repeating"},
           BriefRow(new), RowHonest(new, said), new.status # "NONE",
           new.turns = Append(interview[h].row.turns, turn), new.version = interview[h].row.version,
           Onb!Persist(h, new), interview' = [interview EXCEPT ![h] = next]
    PROVE  OnbInv'
<1> DEFINE r == interview[h].row
<1>0. HoldsAll(h) /\ BriefRow(brief) /\ brief.status # "NONE"
  BY DEF OnbInv
<1>1. CASE brief.version # r.version
  BY <1>0, <1>1, HandlerTurns DEF Onb!Persist
<1>2. CASE brief.version = r.version
  <2>1. /\ brief' = [new EXCEPT !.version = @ + 1]
        /\ heard' = heard \cup ({interview[h].message} \ {0})
    BY <1>2 DEF Onb!Persist
  <2>2. PICK S : r.turns \in Seq(S)
    BY <1>0 DEF HoldsAll, BriefRow
  <2>3. \A n : Mentions(r.turns, n) => Mentions(new.turns, n)
    BY <2>2, AppendTurn
  <2>4. PICK D, T : new \in [status : Onb!Statuses, draft : D, turns : Seq(T), askedCount : Int,
                             halted : Onb!HaltReasons \cup {Onb!NoHalt}, version : Nat]
    BY DEF BriefRow
  <2>5. /\ brief' \in [status : Onb!Statuses, draft : D, turns : Seq(T), askedCount : Int,
                        halted : Onb!HaltReasons \cup {Onb!NoHalt}, version : Nat]
        /\ brief'.turns = new.turns /\ brief'.draft = new.draft /\ brief'.halted = new.halted
        /\ brief'.status = new.status /\ brief'.version = new.version + 1
    <3> DEFINE written == [new EXCEPT !.version = @ + 1]
    <3>1. new.version + 1 \in Nat
      BY <2>4
    <3>2. /\ written \in [status : Onb!Statuses, draft : D, turns : Seq(T), askedCount : Int,
                        halted : Onb!HaltReasons \cup {Onb!NoHalt}, version : Nat]
          /\ written.turns = new.turns /\ written.draft = new.draft /\ written.halted = new.halted
          /\ written.status = new.status /\ written.version = new.version + 1
      BY <2>4, <3>1
    <3>3. brief' = written
      BY <2>1
    <3> QED BY <3>2, <3>3
  <2>6. BriefRow(brief)' /\ RowHonest(brief, said)'
    BY <2>5 DEF BriefRow, RowHonest
  <2>7. brief.version \in Nat /\ brief'.version = brief.version + 1
    BY <1>0, <1>2, <2>5 DEF BriefRow
  <2>8. \A n : Mentions(brief.turns, n) \/ Mentions(r.turns, n) => Mentions(brief'.turns, n)
    BY <1>0, <1>2, <2>3, <2>5 DEF HoldsAll
  <2>9. ASSUME NEW n \in heard' PROVE Mentions(brief'.turns, n)
    <3>1. CASE n \in heard
      BY <2>8, <3>1 DEF OnbInv
    <3>2. CASE n = interview[h].message /\ n # 0
      BY <1>0, <2>8, <3>2 DEF HoldsAll
    <3> QED BY <2>1, <2>9, <3>1, <3>2
  <2>10. /\ interview' = [g \in Handlers |-> interview'[g]] /\ interview'[h] = next
         /\ \A g \in Handlers \ {h} : interview'[g] = interview[g]
    BY DEF OnbInv
  <2>11. ASSUME NEW g \in Handlers, interview'[g].pc \in {"asking", "repeating"} PROVE HoldsAll(g)'
    <3>1. g # h /\ interview'[g] = interview[g] /\ HoldsAll(g)
      BY <2>10, <2>11 DEF OnbInv
    <3>2. interview[g].row.version \in Nat /\ interview[g].row.version <= brief.version
      BY <3>1 DEF HoldsAll, BriefRow
    <3>3. interview[g].row.version <= brief'.version /\ interview[g].row.version # brief'.version
      BY <2>7, <3>2
    <3> QED BY <3>1, <3>3 DEF HoldsAll
  <2>12. ASSUME NEW g \in Handlers, interview'[g].pc = "offered" PROVE interview'[g].message \in DOMAIN said
    BY <2>10, <2>12 DEF OnbInv
  <2> QED BY <1>0, <2>5, <2>6, <2>9, <2>10, <2>11, <2>12 DEF OnbInv
<1> QED BY <1>1, <1>2

\* A row with a message of the client at its end.
LEMMA ToldRow ==
    ASSUME OnbInv, NEW n \in DOMAIN said, NEW told, NEW halted \in {brief.halted, Onb!NoHalt},
           told = [brief EXCEPT !.turns = Append(@, Onb!ClientTurn(n)), !.halted = halted],
           halted = "no-landing" => ~Onb!MentionsWebAddress(said[n])
    PROVE  /\ BriefRow(told) /\ RowHonest(told, said)
           /\ told.status = brief.status /\ told.version = brief.version
           /\ \A i : Mentions(brief.turns, i) => Mentions(told.turns, i)
           /\ Mentions(told.turns, n)
<1> DEFINE turn == Onb!ClientTurn(n)
<1>1. PICK D, T : brief \in [status : Onb!Statuses, draft : D, turns : Seq(T), askedCount : Int,
                             halted : Onb!HaltReasons \cup {Onb!NoHalt}, version : Nat]
  BY DEF OnbInv, BriefRow
<1>2. turn.by = "client" /\ turn.message = n
  BY DEF Onb!ClientTurn
<1> HIDE DEF turn
<1>3. told = [brief EXCEPT !.turns = Append(@, turn), !.halted = halted]
  BY DEF turn
<1>4. /\ told.turns = Append(brief.turns, turn) /\ told.status = brief.status
      /\ told.version = brief.version /\ told.draft = brief.draft /\ told.halted = halted
  BY <1>1, <1>3
<1>5. PICK U : Append(brief.turns, turn) \in Seq(U)
  BY <1>1, AppendTurn DEF IsSequence
<1>6. BriefRow(told)
  <2>1. told \in [status : Onb!Statuses, draft : D, turns : Seq(U), askedCount : Int,
                  halted : Onb!HaltReasons \cup {Onb!NoHalt}, version : Nat]
    BY <1>1, <1>3, <1>5
  <2> QED BY <2>1 DEF BriefRow
<1>7. RowHonest(told, said)
  <2>1. AreSaid(told.turns, said)
    BY <1>1, <1>2, <1>4, AppendTurn DEF OnbInv, RowHonest
  <2>2. "landingUrl" \in DOMAIN told.draft => Named(told.turns, told.draft["landingUrl"], said)
    BY <1>1, <1>4, AppendTurn DEF OnbInv, RowHonest
  <2>3. told.halted = "no-landing" => NoneNamed(told.turns, said)
    BY <1>1, <1>2, <1>4, AppendTurn DEF OnbInv, RowHonest, Onb!NoHalt
  <2> QED BY <2>1, <2>2, <2>3 DEF RowHonest
<1> QED BY <1>1, <1>2, <1>4, <1>6, <1>7, AppendTurn

\* The ground of a halt is true of the turns it is found in.
LEMMA HaltIsTrue ==
    ASSUME NEW draft, NEW asking, NEW done, NEW turns, NEW asked
    PROVE  LET halt == Onb!HaltOf(draft, asking, done, turns, asked)
           IN  halt \in Onb!HaltReasons \cup {Onb!NoHalt} /\ (halt = "no-landing" => NoneNamed(turns, said))
<1> DEFINE halt == Onb!HaltOf(draft, asking, done, turns, asked)
<1>1. halt \in Onb!HaltReasons \cup {Onb!NoHalt}
  BY DEF Onb!HaltOf, Onb!HaltReasons, Onb!NoHalt
<1>2. halt = "no-landing" =>
        \A i \in DOMAIN Onb!UserMessages(turns) : ~Onb!MentionsWebAddress(Onb!UserMessages(turns)[i])
  BY DEF Onb!HaltOf, Onb!NoHalt
<1>3. halt = "no-landing" => NoneNamed(turns, said)
  BY <1>2, MessagesOfTurns
<1> QED BY <1>1, <1>3

\* What an answer of the model makes of a row.
LEMMA AdvancedRow ==
    ASSUME NEW r, NEW draft, NEW question, NEW halted \in Onb!HaltReasons \cup {Onb!NoHalt},
           NEW state \in Onb!Statuses,
           question.by # "client", BriefRow(r), RowHonest(r, said),
           halted = "no-landing" => NoneNamed(r.turns, said),
           "landingUrl" \in DOMAIN draft => Named(r.turns, draft["landingUrl"], said)
    PROVE  LET new == [status |-> state, draft |-> draft, turns |-> Append(r.turns, question),
                       askedCount |-> r.askedCount + 1, halted |-> halted, version |-> r.version]
           IN  BriefRow(new) /\ RowHonest(new, said)
<1> DEFINE new == [status |-> state, draft |-> draft, turns |-> Append(r.turns, question),
                   askedCount |-> r.askedCount + 1, halted |-> halted, version |-> r.version]
<1>1. PICK D, T : r \in [status : Onb!Statuses, draft : D, turns : Seq(T), askedCount : Int,
                         halted : Onb!HaltReasons \cup {Onb!NoHalt}, version : Nat]
  BY DEF BriefRow
<1>2. PICK U : Append(r.turns, question) \in Seq(U)
  BY <1>1, AppendTurn DEF IsSequence
<1>3. BriefRow(new)
  <2>1. new \in [status : Onb!Statuses, draft : {draft}, turns : Seq(U), askedCount : Int,
                 halted : Onb!HaltReasons \cup {Onb!NoHalt}, version : Nat]
    BY <1>1, <1>2
  <2> QED BY <2>1 DEF BriefRow
<1>4. RowHonest(new, said)
  <2>1. /\ r.turns \in Seq(T) /\ new.turns = Append(r.turns, question)
        /\ new.draft = draft /\ new.halted = halted
    <3>1. r.turns \in Seq(T)
      BY <1>1
    <3>2. new.turns = Append(r.turns, question) /\ new.draft = draft /\ new.halted = halted
      OBVIOUS
    <3> QED BY <3>1, <3>2
  <2>2. /\ AreSaid(r.turns, said) => AreSaid(new.turns, said)
        /\ \A url : Named(r.turns, url, said) => Named(new.turns, url, said)
        /\ NoneNamed(r.turns, said) => NoneNamed(new.turns, said)
    BY <2>1, AppendTurn
  <2>3. AreSaid(new.turns, said)
    BY <2>2 DEF RowHonest
  <2>4. "landingUrl" \in DOMAIN new.draft => Named(new.turns, new.draft["landingUrl"], said)
    BY <2>1, <2>2
  <2>5. new.halted = "no-landing" => NoneNamed(new.turns, said)
    BY <2>1, <2>2
  <2> QED BY <2>3, <2>4, <2>5 DEF RowHonest
<1> QED BY <1>3, <1>4

LEMMA OnbStutters == OnbInv /\ UNCHANGED <<brief, said, heard, interview>> => OnbInv'
  BY DEF OnbInv, HoldsAll

LEMMA StartInterviewOK ==
    ASSUME OnbInv, NEW h \in Handlers, Onb!StartInterview(h)
    PROVE  OnbInv'
<1>1. CASE brief.status = "NONE"
  <2> DEFINE found == [Onb!EmptyRow EXCEPT !.status = "IN_PROGRESS"]
  <2>1. /\ brief' = found /\ UNCHANGED <<said, heard>>
        /\ \/ interview' = interview
           \/ interview' = [interview EXCEPT ![h] = [pc |-> "asking", row |-> found, message |-> 0]]
    BY <1>1 DEF Onb!StartInterview, Onb!Set
  <2>2. BriefRow(found) /\ RowHonest(found, said) /\ found.status = "IN_PROGRESS" /\ found.version = 0
    <3>1. PICK D, T : Onb!EmptyRow \in [status : Onb!Statuses, draft : D, turns : Seq(T), askedCount : Int,
                                        halted : Onb!HaltReasons \cup {Onb!NoHalt}, version : Nat]
      BY EmptyRowOK DEF BriefRow
    <3>2. /\ found \in [status : Onb!Statuses, draft : D, turns : Seq(T), askedCount : Int,
                        halted : Onb!HaltReasons \cup {Onb!NoHalt}, version : Nat]
          /\ found.status = "IN_PROGRESS" /\ found.turns = Onb!EmptyRow.turns /\ found.draft = Onb!EmptyRow.draft
          /\ found.halted = Onb!EmptyRow.halted /\ found.version = Onb!EmptyRow.version
      BY <3>1 DEF Onb!Statuses
    <3>3. Onb!EmptyRow.version = 0
      BY DEF Onb!EmptyRow
    <3> QED BY <3>2, <3>3, EmptyRowOK DEF BriefRow, RowHonest
  <2> HIDE DEF found
  <2>3. heard = {} /\ \A g \in Handlers : interview[g].pc = "idle"
    BY <1>1 DEF OnbInv
  <2>4. interview' = [g \in Handlers |-> interview'[g]]
    BY <2>1 DEF OnbInv
  <2>5. ASSUME NEW g \in Handlers
        PROVE  \/ interview'[g].pc = "idle"
               \/ interview'[g] = [pc |-> "asking", row |-> found, message |-> 0]
    <3>1. interview = [k \in Handlers |-> interview[k]]
      BY DEF OnbInv
    <3> QED BY <2>1, <2>3, <3>1
  <2>6. ASSUME NEW g \in Handlers, interview'[g].pc \in {"asking", "repeating"} PROVE HoldsAll(g)'
    <3>1. interview'[g].row = brief' /\ interview'[g].message = 0
      BY <2>1, <2>5, <2>6
    <3>2. brief'.version <= brief'.version
      BY <2>1, <2>2
    <3> QED BY <2>1, <2>2, <3>1, <3>2 DEF HoldsAll
  <2> QED BY <2>1, <2>2, <2>3, <2>4, <2>5, <2>6 DEF OnbInv
<1>2. CASE brief.status # "NONE"
  <2>1. /\ UNCHANGED <<brief, said, heard>>
        /\ \/ interview' = interview
           \/ interview' = [interview EXCEPT ![h] = [pc |-> "asking", row |-> brief, message |-> 0]]
    BY <1>2 DEF Onb!StartInterview, Onb!Set
  <2>2. BriefRow(brief) /\ RowHonest(brief, said)
    BY DEF OnbInv
  <2>3. CASE interview' = interview
    BY <2>1, <2>3, OnbStutters
  <2>4. CASE interview' = [interview EXCEPT ![h] = [pc |-> "asking", row |-> brief, message |-> 0]]
    <3> DEFINE new == [pc |-> "asking", row |-> brief, message |-> 0]
    <3>1. new.pc = "asking" /\ new.row = brief /\ new.message = 0 /\ interview' = [interview EXCEPT ![h] = new]
      BY <2>4
    <3> HIDE DEF new
    <3> QED BY <1>2, <2>1, <2>2, <3>1, HandlerTurns
  <2> QED BY <2>1, <2>3, <2>4
<1> QED BY <1>1, <1>2

LEMMA OfferMessageOK ==
    ASSUME OnbInv, NEW h \in Handlers, NEW m, Onb!OfferMessage(h, m)
    PROVE  OnbInv'
<1>1. /\ brief.status # "NONE" /\ UNCHANGED <<brief, heard>> /\ said' = Append(said, m)
      /\ interview' = [interview EXCEPT ![h] = [pc |-> "offered", row |-> Onb!EmptyRow, message |-> Len(said) + 1]]
  BY DEF Onb!OfferMessage, Onb!ExpectsAnswer, Onb!Set
<1>2. PICK S : said \in Seq(S)
  BY DEF OnbInv, IsSequence
<1>3. said' \in Seq(S \cup {m}) /\ DOMAIN said \subseteq DOMAIN said' /\ Len(said) + 1 \in DOMAIN said'
  <2>1. said \in Seq(S \cup {m})
    BY <1>2
  <2> QED BY <1>1, <2>1
<1>4. \A r : RowHonest(r, said) => RowHonest(r, said')
  BY <1>1, <1>2, SaidGrows
<1>5. interview = [g \in Handlers |-> interview[g]]
  BY DEF OnbInv
<1>6. /\ interview' = [g \in Handlers |-> interview'[g]]
      /\ interview'[h].pc = "offered" /\ interview'[h].message = Len(said) + 1
      /\ \A g \in Handlers \ {h} : interview'[g] = interview[g]
  BY <1>1, <1>5
<1>7. ASSUME NEW g \in Handlers, interview'[g].pc \in {"asking", "repeating"} PROVE HoldsAll(g)'
  <2>1. interview'[g] = interview[g] /\ HoldsAll(g)
    BY <1>6, <1>7 DEF OnbInv
  <2> QED BY <1>1, <1>4, <2>1 DEF HoldsAll
<1>8. ASSUME NEW g \in Handlers, interview'[g].pc = "offered" PROVE interview'[g].message \in DOMAIN said'
  BY <1>3, <1>6, <1>8 DEF OnbInv
<1>9. IsSequence(said)'
  BY <1>3 DEF IsSequence
<1> QED BY <1>1, <1>4, <1>6, <1>7, <1>8, <1>9 DEF OnbInv

LEMMA ReadMessageOK ==
    ASSUME OnbInv, NEW h \in Handlers, Onb!ReadMessage(h)
    PROVE  OnbInv'
<1> DEFINE n == interview[h].message
           told == [brief EXCEPT !.turns = Append(@, Onb!ClientTurn(n))]
           heardOf == [told EXCEPT !.halted = Onb!NoHalt]
<1>1. /\ n \in DOMAIN said /\ brief.status # "NONE" /\ UNCHANGED <<brief, said, heard>>
  BY DEF Onb!ReadMessage, OnbInv
<1>2. PICK D, T : brief \in [status : Onb!Statuses, draft : D, turns : Seq(T), askedCount : Int,
                             halted : Onb!HaltReasons \cup {Onb!NoHalt}, version : Nat]
  BY DEF OnbInv, BriefRow
<1>3. /\ told = [brief EXCEPT !.turns = Append(@, Onb!ClientTurn(n)), !.halted = brief.halted]
      /\ heardOf = [brief EXCEPT !.turns = Append(@, Onb!ClientTurn(n)), !.halted = Onb!NoHalt]
  BY <1>2
<1>4. \/ interview' = [interview EXCEPT ![h] = Onb!Idle]
      \/ /\ brief.halted # Onb!NoHalt /\ ~Onb!LiftsHalt(brief.halted, said[n])
         /\ interview' = [interview EXCEPT ![h] = [pc |-> "repeating", row |-> told, message |-> n]]
      \/ interview' = [interview EXCEPT ![h] = [pc |-> "asking", row |-> heardOf, message |-> n]]
  BY DEF Onb!ReadMessage, Onb!Set
<1> HIDE DEF n, told, heardOf
<1>5. CASE interview' = [interview EXCEPT ![h] = Onb!Idle]
  <2>1. Onb!Idle.pc = "idle"
    BY DEF Onb!Idle
  <2> QED BY <1>1, <1>5, <2>1, HandlerTurns
<1>6. CASE /\ brief.halted # Onb!NoHalt /\ ~Onb!LiftsHalt(brief.halted, said[n])
           /\ interview' = [interview EXCEPT ![h] = [pc |-> "repeating", row |-> told, message |-> n]]
  <2> DEFINE new == [pc |-> "repeating", row |-> told, message |-> n]
  <2>1. brief.halted = "no-landing" => ~Onb!MentionsWebAddress(said[n])
    BY <1>6 DEF Onb!LiftsHalt
  <2>2. /\ BriefRow(told) /\ RowHonest(told, said) /\ told.status = brief.status /\ told.version = brief.version
        /\ \A i : Mentions(brief.turns, i) => Mentions(told.turns, i)
        /\ Mentions(told.turns, n)
    BY <1>1, <1>3, <2>1, ToldRow
  <2>3. new.pc = "repeating" /\ new.row = told /\ new.message = n /\ interview' = [interview EXCEPT ![h] = new]
    BY <1>6
  <2> HIDE DEF new
  <2> QED BY <1>1, <2>2, <2>3, HandlerTurns
<1>7. CASE interview' = [interview EXCEPT ![h] = [pc |-> "asking", row |-> heardOf, message |-> n]]
  <2> DEFINE new == [pc |-> "asking", row |-> heardOf, message |-> n]
  <2>1. Onb!NoHalt # "no-landing"
    BY DEF Onb!NoHalt
  <2>2. /\ BriefRow(heardOf) /\ RowHonest(heardOf, said) /\ heardOf.status = brief.status
        /\ heardOf.version = brief.version
        /\ \A i : Mentions(brief.turns, i) => Mentions(heardOf.turns, i)
        /\ Mentions(heardOf.turns, n)
    BY <1>1, <1>3, <2>1, ToldRow
  <2>3. new.pc = "asking" /\ new.row = heardOf /\ new.message = n /\ interview' = [interview EXCEPT ![h] = new]
    BY <1>7
  <2> HIDE DEF new
  <2> QED BY <1>1, <2>2, <2>3, HandlerTurns
<1> QED BY <1>4, <1>5, <1>6, <1>7

LEMMA AdvanceOK ==
    ASSUME OnbInv, NEW h \in Handlers, NEW turn, Onb!Advance(h, turn)
    PROVE  OnbInv'
<1> DEFINE r == interview[h].row
           draft == Onb!ApplyTurnUpdates(r.draft, turn, Onb!UserMessages(r.turns))
           missing == Onb!MissingBriefFields(draft)
           asking == IF turn.asking # "none" THEN turn.asking
                     ELSE IF Onb!Cardinality(missing) = 1 /\ ~turn.done
                          THEN CHOOSE f \in missing : TRUE ELSE "none"
           halt == Onb!HaltOf(draft, asking, turn.done, r.turns, r.askedCount + 1)
           state == IF missing = {} THEN "COMPLETE" ELSE "IN_PROGRESS"
           new == [r EXCEPT !.draft = draft, !.turns = Append(@, Onb!Question(asking)), !.askedCount = @ + 1,
                            !.halted = IF halt # Onb!NoHalt THEN halt ELSE @, !.status = state]
<1>1. /\ interview[h].pc = "asking" /\ said' = said
      /\ Onb!Persist(h, new)
      /\ \/ interview' = [interview EXCEPT ![h] = [pc |-> "configuring", row |-> brief', message |-> 0]]
         \/ interview' = [interview EXCEPT ![h] = Onb!Idle]
  BY DEF Onb!Advance, Onb!Set
<1>2. BriefRow(r) /\ RowHonest(r, said)
  BY <1>1 DEF OnbInv, HoldsAll
<1>3. state \in Onb!Statuses /\ state # "NONE"
  BY DEF Onb!Statuses
<1> DEFINE finished == [pc |-> "configuring", row |-> brief', message |-> 0]
<1>4. finished.pc = "configuring" /\ Onb!Idle.pc = "idle"
  BY DEF Onb!Idle
<1>5. PICK next \in {finished, Onb!Idle} : interview' = [interview EXCEPT ![h] = next]
  BY <1>1
<1> DEFINE question == Onb!Question(asking)
           halted == IF halt # Onb!NoHalt THEN halt ELSE r.halted
<1>6. /\ halted \in Onb!HaltReasons \cup {Onb!NoHalt}
      /\ halted = "no-landing" => NoneNamed(r.turns, said)
  <2>1. /\ halt \in Onb!HaltReasons \cup {Onb!NoHalt}
        /\ halt = "no-landing" => NoneNamed(r.turns, said)
    BY HaltIsTrue
  <2>2. r.halted \in Onb!HaltReasons \cup {Onb!NoHalt} /\ (r.halted = "no-landing" => NoneNamed(r.turns, said))
    BY <1>2 DEF BriefRow, RowHonest
  <2> HIDE DEF halt
  <2> QED BY <2>1, <2>2
<1>7. "landingUrl" \in DOMAIN draft => Named(r.turns, draft["landingUrl"], said)
  BY <1>2, DraftAddress, MessagesOfTurns DEF RowHonest
<1>8. question.by # "client"
  BY DEF Onb!Question
<1> HIDE DEF draft, question, halt, state, finished
<1>9. new = [status |-> state, draft |-> draft, turns |-> Append(r.turns, question),
             askedCount |-> r.askedCount + 1, halted |-> halted, version |-> r.version]
  <2>1. PICK D, T : r \in [status : Onb!Statuses, draft : D, turns : Seq(T), askedCount : Int,
                           halted : Onb!HaltReasons \cup {Onb!NoHalt}, version : Nat]
    BY <1>2 DEF BriefRow
  <2>2. new = [r EXCEPT !.draft = draft, !.turns = Append(@, question), !.askedCount = @ + 1,
                        !.halted = halted, !.status = state]
    BY <2>1 DEF question
  <2> HIDE DEF r, new, halted
  <2> QED BY ONLY <2>1, <2>2
<1> HIDE DEF r, new, halted
<1>10. /\ BriefRow(new) /\ RowHonest(new, said) /\ new.status = state
       /\ new.turns = Append(r.turns, question) /\ new.version = r.version
  <2> DEFINE made == [status |-> state, draft |-> draft, turns |-> Append(r.turns, question),
                      askedCount |-> r.askedCount + 1, halted |-> halted, version |-> r.version]
  <2>1. BriefRow(made) /\ RowHonest(made, said)
    BY <1>2, <1>3, <1>6, <1>7, <1>8, AdvancedRow
  <2>2. made.status = state /\ made.turns = Append(r.turns, question) /\ made.version = r.version
    OBVIOUS
  <2> HIDE DEF made
  <2>3. new = made
    BY <1>9 DEF made
  <2> QED BY <2>1, <2>2, <2>3
<1>11. next.pc \notin {"offered", "asking", "repeating"}
  BY <1>4, <1>5
<1> QED BY <1>1, <1>3, <1>5, <1>10, <1>11, HandlerPersists DEF r

LEMMA RepeatHaltOK ==
    ASSUME OnbInv, NEW h \in Handlers, Onb!RepeatHalt(h)
    PROVE  OnbInv'
<1> DEFINE r == interview[h].row
           question == Onb!Question("none")
           new == [r EXCEPT !.turns = Append(@, question)]
<1>1. /\ interview[h].pc = "repeating" /\ said' = said /\ Onb!Persist(h, new)
      /\ interview' = [interview EXCEPT ![h] = Onb!Idle]
  BY DEF Onb!RepeatHalt
<1>2. BriefRow(r) /\ RowHonest(r, said) /\ r.status # "NONE"
  BY <1>1 DEF OnbInv, HoldsAll
<1>3. PICK D, T : r \in [status : Onb!Statuses, draft : D, turns : Seq(T), askedCount : Int,
                         halted : Onb!HaltReasons \cup {Onb!NoHalt}, version : Nat]
  BY <1>2 DEF BriefRow
<1>4. question.by # "client" /\ Onb!Idle.pc = "idle"
  BY DEF Onb!Question, Onb!Idle
<1> HIDE DEF question
<1>5. PICK U : Append(r.turns, question) \in Seq(U)
  BY <1>3, AppendTurn DEF IsSequence
<1>6. /\ new.turns = Append(r.turns, question) /\ new.draft = r.draft /\ new.halted = r.halted
      /\ new.version = r.version /\ new.status = r.status
  BY <1>3
<1>7. BriefRow(new)
  <2>1. new \in [status : Onb!Statuses, draft : D, turns : Seq(U), askedCount : Int,
                 halted : Onb!HaltReasons \cup {Onb!NoHalt}, version : Nat]
    BY <1>3, <1>5
  <2> QED BY <2>1 DEF BriefRow
<1> HIDE DEF new
<1>8. RowHonest(new, said)
  <2>1. /\ AreSaid(r.turns, said) => AreSaid(new.turns, said)
        /\ \A url : Named(r.turns, url, said) => Named(new.turns, url, said)
        /\ NoneNamed(r.turns, said) => NoneNamed(new.turns, said)
    <3>1. r.turns \in Seq(T) /\ new.turns = Append(r.turns, question)
      BY <1>3, <1>6
    <3> HIDE DEF r
    <3> QED BY <1>4, <3>1, AppendTurn
  <2> QED BY <1>2, <1>6, <2>1 DEF RowHonest
<1> QED BY <1>1, <1>2, <1>4, <1>6, <1>7, <1>8, HandlerPersists

LEMMA OnbStep == ASSUME OnbInv, [Onb!Next]_(Onb!onboardingVars) PROVE OnbInv'
<1>1. ASSUME NEW h \in Handlers, Onb!StartInterview(h) PROVE OnbInv'
  BY <1>1, StartInterviewOK
<1>2. ASSUME NEW h \in Handlers, NEW m \in Messages, Onb!OfferMessage(h, m) PROVE OnbInv'
  BY <1>2, OfferMessageOK
<1>3. ASSUME NEW h \in Handlers, Onb!ReadMessage(h) PROVE OnbInv'
  BY <1>3, ReadMessageOK
<1>4. ASSUME NEW h \in Handlers, NEW t \in Turns, Onb!Advance(h, t) PROVE OnbInv'
  BY <1>4, AdvanceOK
<1>5. ASSUME NEW h \in Handlers, Onb!RepeatHalt(h) PROVE OnbInv'
  BY <1>5, RepeatHaltOK
<1>6. ASSUME NEW h \in Handlers, Onb!FailTurn(h) \/ Onb!SaveMetrikaConfig(h) PROVE OnbInv'
  <2>1. /\ UNCHANGED <<brief, said, heard>> /\ interview' = [interview EXCEPT ![h] = Onb!Idle]
        /\ interview[h].pc # "idle"
    BY <1>6 DEF Onb!FailTurn, Onb!SaveMetrikaConfig
  <2>2. brief.status # "NONE" /\ Onb!Idle.pc = "idle"
    BY <2>1 DEF OnbInv, Onb!Idle
  <2> QED BY <2>1, <2>2, HandlerTurns
<1>7. ASSUME Onb!EnterConfigByHand \/ Onb!BackfillReads \/ Onb!BackfillWrites \/ UNCHANGED Onb!onboardingVars
      PROVE  OnbInv'
  <2>1. UNCHANGED <<brief, said, heard, interview>>
    BY <1>7 DEF Onb!EnterConfigByHand, Onb!BackfillReads, Onb!BackfillWrites, Onb!onboardingVars
  <2> QED BY <2>1, OnbStutters
<1> QED BY <1>1, <1>2, <1>3, <1>4, <1>5, <1>6, <1>7 DEF Onb!Next

LEMMA OnbMeans == OnbInv => InterviewIsHonest
<1> SUFFICES ASSUME OnbInv PROVE InterviewIsHonest
  OBVIOUS
<1>1. Onb!NoAnswerLost
  BY DEF OnbInv, Mentions, Onb!NoAnswerLost
<1>2. Onb!AddressIsClients
  <2>1. "landingUrl" \in DOMAIN brief.draft =>
           \E i \in DOMAIN Onb!UserMessages(brief.turns) :
               Gives(Onb!UserMessages(brief.turns)[i], brief.draft["landingUrl"])
    BY MessagesOfTurns DEF OnbInv, RowHonest
  <2> QED BY <2>1 DEF Onb!AddressIsClients, Gives
<1>3. Onb!HaltTellsTruth
  BY MessagesOfTurns DEF OnbInv, RowHonest, Onb!HaltTellsTruth
<1> QED BY <1>1, <1>2, <1>3 DEF InterviewIsHonest

LEMMA HandStepOK ==
    ASSUME [Onb!Next]_(Onb!onboardingVars)
    PROVE  [Onb!HandStep]_onbVars
<1> SUFFICES ASSUME NEW c \in {"counter", "goal"}, config[c] # 0, config'[c] # config[c]
             PROVE  /\ backfill' = backfill
                    /\ \/ config' = HandConfig
                       \/ \E h \in Handlers :
                             /\ interview[h].pc = "configuring" /\ interview' = [interview EXCEPT ![h] = Onb!Idle]
                             /\ config' = Onb!Patched(config, Onb!MetrikaConfigFromBrief(interview[h].row.draft))
  BY DEF Onb!HandStep
<1>1. CASE \E h \in Handlers : Onb!SaveMetrikaConfig(h)
  BY <1>1 DEF Onb!SaveMetrikaConfig
<1>2. CASE Onb!EnterConfigByHand
  BY <1>2 DEF Onb!EnterConfigByHand
<1>3. ~Onb!BackfillWrites
  <2> SUFFICES ASSUME Onb!BackfillWrites PROVE FALSE
    OBVIOUS
  <2>1. Onb!StillEmpty(backfill) /\ config' = Onb!Patched(config, backfill)
    BY DEF Onb!BackfillWrites
  <2>2. config'[c] = IF backfill[c] # 0 THEN backfill[c] ELSE config[c]
    BY <2>1 DEF Onb!Patched
  <2>3. backfill[c] # 0 => config[c] = 0
    BY <2>1 DEF Onb!StillEmpty
  <2> QED BY <2>2, <2>3
<1>4. \/ \E h \in Handlers : Onb!SaveMetrikaConfig(h)
      \/ Onb!EnterConfigByHand
      \/ Onb!BackfillWrites
  <2>1. config' # config
    OBVIOUS
  <2>2. \A h \in Handlers :
          /\ \A t \in Turns : Onb!Advance(h, t) => config' = config
          /\ \A m \in Messages : Onb!OfferMessage(h, m) => config' = config
          /\ Onb!StartInterview(h) => config' = config
          /\ Onb!ReadMessage(h) => config' = config
          /\ Onb!RepeatHalt(h) => config' = config
          /\ Onb!FailTurn(h) => config' = config
    BY Zenon DEF Onb!StartInterview, Onb!OfferMessage, Onb!ReadMessage, Onb!Advance, Onb!RepeatHalt, Onb!FailTurn
  <2>3. (Onb!BackfillReads \/ UNCHANGED Onb!onboardingVars) => config' = config
    BY DEF Onb!BackfillReads, Onb!onboardingVars
  <2> QED BY <2>1, <2>2, <2>3 DEF Onb!Next
<1> QED BY <1>1, <1>2, <1>3, <1>4

\* interview.ts, updates.ts, state.ts: with any number of handlers that read and write one
\* row over each other, and whatever the model answers, a message the client was told is
\* taken stays in the transcript, the address of the brief is one that he wrote, and he is
\* told he has no site only if he named none.
THEOREM InterviewStaysHonest ==
    ASSUME OnbTypes
    PROVE  ServicesSpec => []InterviewIsHonest
<1>1. Onb!Init => OnbInv
  BY OnbInit
<1>2. OnbInv /\ [Onb!Next]_(Onb!onboardingVars) => OnbInv'
  BY OnbStep
<1> QED BY <1>1, <1>2, OnbMeans, SideBySide, PTL DEF Onb!Spec

\* metrika-backfill.ts: whatever handlers, operators and a backfill do over each other, what
\* stands in a column of Metrika is changed by an operator or by the write of a completed
\* brief alone, and not by the backfill that read the column while it was empty.
THEOREM HandIsKept == ServicesSpec => HandStays
<1>1. [Onb!Next]_(Onb!onboardingVars) => [Onb!HandStep]_onbVars
  BY HandStepOK
<1> QED BY <1>1, SideBySide, PTL DEF Onb!Spec, HandStays

-----------------------------------------------------------------------------
(***************************************************************************)
(* The pure modules, for sequences of answers and of groups of any length. *)
(***************************************************************************)

\* What a platform may answer: after a refusal it has done nothing.
Statuses == CF!Refusals \cup CF!Unknowns \cup {"ok"}
Answers == {a \in [status : Statuses, applied : BOOLEAN] : a.status \in CF!Refusals => ~a.applied}

\* How far a write has come: it was done once at the most, and not at all as long as it is asked
\* again, or when it ended with a refusal.
Tries == [over : BOOLEAN, outcome : Statuses \cup {"none"}, left : Int, refresh : BOOLEAN, applied : Nat]
OnceSoFar ==
    {acc \in Tries : /\ acc.applied <= 1
                     /\ ~acc.over => acc.applied = 0 /\ acc.outcome = "none"
                     /\ acc.outcome \in CF!Refusals => acc.applied = 0}

LEMMA HeardOnce ==
    ASSUME NEW acc \in OnceSoFar, NEW platform, NEW answer \in Answers
    PROVE  CF!Heard(acc, platform, TRUE, answer) \in OnceSoFar
<1> DEFINE counted == [acc EXCEPT !.applied = @ + (IF answer.applied THEN 1 ELSE 0)]
<1>0. /\ acc \in Tries /\ acc.applied <= 1 /\ (~acc.over => acc.applied = 0 /\ acc.outcome = "none")
      /\ answer \in [status : Statuses, applied : BOOLEAN]
      /\ answer.status \in CF!Refusals => ~answer.applied
  BY DEF OnceSoFar, Answers
<1>1. CASE acc.over
  BY <1>1 DEF CF!Heard
<1>2. CASE ~acc.over
  <2>1. /\ counted \in Tries /\ counted.applied <= 1 /\ counted.outcome = "none" /\ ~counted.over
        /\ counted.applied = IF answer.applied THEN 1 ELSE 0
    BY <1>0, <1>2 DEF Tries
  <2>2. /\ CF!Ok = "ok" /\ "ok" \notin CF!Refusals /\ "none" \notin CF!Refusals /\ "auth" \in CF!Refusals
        /\ CF!Again(platform, TRUE, answer.status) => answer.status \in CF!Refusals
    BY DEF CF!Ok, CF!Refusals, CF!Again, CF!VkRetryable, CF!ShouldRetryYandexWrite, CF!NotApplied
  <2> DEFINE new == CF!Heard(acc, platform, TRUE, answer)
  <2>3. \/ new = [counted EXCEPT !.over = TRUE, !.outcome = "ok"] /\ answer.status = "ok"
        \/ new = [counted EXCEPT !.refresh = FALSE] /\ answer.status \in CF!Refusals
        \/ new = [counted EXCEPT !.left = @ - 1, !.refresh = TRUE] /\ answer.status \in CF!Refusals
        \/ new = [counted EXCEPT !.over = TRUE, !.outcome = answer.status]
    BY <1>2, <2>2 DEF CF!Heard
  <2>a. "ok" \in Statuses
    BY DEF Statuses
  <2> SUFFICES new \in OnceSoFar
    OBVIOUS
  <2> HIDE DEF new, counted
  <2>4. CASE new = [counted EXCEPT !.over = TRUE, !.outcome = "ok"] /\ answer.status = "ok"
    BY <2>1, <2>2, <2>a, <2>4 DEF OnceSoFar, Tries
  <2>5. CASE new = [counted EXCEPT !.refresh = FALSE] /\ answer.status \in CF!Refusals
    BY <1>0, <2>1, <2>2, <2>5 DEF OnceSoFar, Tries
  <2>6. CASE new = [counted EXCEPT !.left = @ - 1, !.refresh = TRUE] /\ answer.status \in CF!Refusals
    <3>1. counted.left \in Int /\ counted.left - 1 \in Int
      BY <2>1 DEF Tries
    <3>2. new = [counted EXCEPT !.left = counted.left - 1, !.refresh = TRUE]
      BY <2>6
    <3>3. new \in Tries /\ new.applied = counted.applied /\ new.outcome = "none"
      BY <2>1, <3>1, <3>2 DEF Tries
    <3> QED BY <1>0, <2>1, <2>2, <2>6, <3>3 DEF OnceSoFar
  <2>7. CASE new = [counted EXCEPT !.over = TRUE, !.outcome = answer.status]
    BY <1>0, <2>1, <2>2, <2>7 DEF OnceSoFar, Tries
  <2> QED BY <2>3, <2>4, <2>5, <2>6, <2>7
<1> QED BY <1>1, <1>2

LEMMA RequestOnce ==
    ASSUME NEW platform, NEW answers \in Seq(Answers), NEW attempts \in Int
    PROVE  CF!Request(platform, TRUE, answers, attempts) \in OnceSoFar
<1> DEFINE N == Len(answers)
           S == OnceSoFar
           begin == CF!Asking(attempts)
           Then(acc, answer) == CF!Heard(acc, platform, TRUE, answer)
           Is(h) == h = [T \in SUBSET DOMAIN answers |->
                           IF T = {} THEN begin ELSE Then(h[T \ {Max(T)}], answers[Max(T)])]
           G == [p \in S \X (1 .. N) |-> Then(p[1], answers[p[2]])]
           fold == CHOOSE h : Is(h)
<1>1. CF!Request(platform, TRUE, answers, attempts) = fold[DOMAIN answers]
  BY DEF CF!Request, CF!FoldLeft, CF!MapThenFoldSet, CF!Max, Max, FoldLeft, MapThenFoldSet
<1>2. N \in Nat /\ DOMAIN answers = 1 .. N /\ \A i \in 1 .. N : answers[i] \in Answers
  OBVIOUS
<1>3. begin \in S
  <2>1. begin \in Tries /\ begin.applied = 0 /\ begin.outcome = "none"
    BY DEF CF!Asking, Tries, Statuses
  <2> HIDE DEF begin
  <2> QED BY <2>1 DEF OnceSoFar
<1>4. \A acc \in S, i \in 1 .. N : Then(acc, answers[i]) \in S
  BY <1>2, HeardOnce
<1> HIDE DEF Then, S, begin
<1>5. \A acc \in S, i \in 1 .. N : G[<<acc, i>>] = Then(acc, answers[i]) /\ G[<<acc, i>>] \in S
  BY <1>4
<1> HIDE DEF G, N
<1>6. PICK h : FoldsWith(h, N, S, begin, G)
  BY <1>2, <1>3, <1>5, FoldExists
<1>7. Is(h)
  <2>1. \A T \in SUBSET (1 .. N) : T # {} => Max(T) \in 1 .. N /\ T \ {Max(T)} \in SUBSET (1 .. N)
    BY <1>2, LargestOf
  <2>2. \A T \in SUBSET (1 .. N) : T # {} => h[T] = Then(h[T \ {Max(T)}], answers[Max(T)])
    BY <1>5, <1>6, <2>1 DEF FoldsWith
  <2> QED BY <1>2, <1>6, <2>2 DEF FoldsWith
<1>8. Is(fold)
  BY <1>7
<1> HIDE DEF fold
<1>9. fold[{}] \in S
  BY <1>3, <1>8
<1>10. ASSUME NEW n \in 1 .. N, fold[1 .. n - 1] \in S PROVE fold[1 .. n] \in S
  <2>1. n \in Nat /\ n # 0 /\ 1 .. n \in SUBSET DOMAIN answers
    BY <1>2
  <2>2. 1 .. n # {} /\ Max(1 .. n) = n /\ (1 .. n) \ {n} = 1 .. n - 1
    BY <2>1, UpTo
  <2>3. fold[1 .. n] = Then(fold[1 .. n - 1], answers[n])
    BY <1>8, <2>1, <2>2
  <2> QED BY <1>2, <1>4, <1>10, <2>3
<1> HIDE DEF Is
<1>11. fold[1 .. N] \in S
  BY <1>2, <1>9, <1>10, FoldStays
<1> QED BY <1>1, <1>2, <1>11 DEF S

\* However many answers of whatever kind a platform gives, a write is done once at the most by
\* all the tries of a request.  (withRetry and the conditions of both clients.)
THEOREM WritesComeOnce ==
    ASSUME NEW platform, NEW answers \in Seq(Answers), NEW attempts \in Int
    PROVE  CF!WrittenOnceAtMost(platform, answers, attempts)
BY RequestOnce DEF CF!WrittenOnceAtMost, OnceSoFar, Tries

\* And two attempts at one campaign make one: the second is let through only when the first
\* certainly made none.  (callAdd and the key of createOneCampaign.)
THEOREM OneCampaignOnly ==
    ASSUME NEW first \in Seq(Answers), NEW second \in Seq(Answers)
    PROVE  CF!OneCampaign(first, second)
<1> DEFINE once == CF!Request("yandex", TRUE, first, Len(first))
           again == CF!Request("yandex", TRUE, second, Len(second))
<1>1. once \in OnceSoFar /\ again \in OnceSoFar
  <2>1. Len(first) \in Int /\ Len(second) \in Int
    OBVIOUS
  <2> QED BY <2>1, RequestOnce
<1> HIDE DEF once, again
<1>2. /\ once.applied \in Nat /\ again.applied \in Nat /\ once.applied <= 1 /\ again.applied <= 1
      /\ once.outcome \in CF!Refusals => once.applied = 0
  BY <1>1 DEF OnceSoFar, Tries
<1>3. CF!CreateOutcome(once.outcome) = "not-created" => once.outcome \in CF!Refusals
  BY DEF CF!CreateOutcome, CF!NotApplied
<1> DEFINE made == once.applied + (IF once.outcome # CF!Ok /\ CF!CreateOutcome(once.outcome) = "not-created"
                                   THEN again.applied ELSE 0)
<1>4. made <= 1
  BY <1>2, <1>3
<1>5. CF!CampaignsOf(first, second) = made
  BY DEF CF!CampaignsOf, once, again
<1> HIDE DEF made
<1> QED BY <1>4, <1>5 DEF CF!OneCampaign

MembersOf(s) == {s[i] : i \in DOMAIN s}

LEMMA AppendMember ==
    ASSUME NEW S, NEW s \in Seq(S), NEW x \in S
    PROVE  /\ Append(s, x) \in Seq(S) /\ Len(s) \in Nat /\ Len(Append(s, x)) = Len(s) + 1
           /\ DOMAIN Append(s, x) = DOMAIN s \cup {Len(s) + 1} /\ Len(s) + 1 \notin DOMAIN s
           /\ \A i \in DOMAIN s : Append(s, x)[i] = s[i]
           /\ Append(s, x)[Len(s) + 1] = x
           /\ MembersOf(Append(s, x)) = MembersOf(s) \cup {x}
<1> DEFINE more == Append(s, x)
<1>1. /\ more \in Seq(S) /\ Len(s) \in Nat /\ Len(more) = Len(s) + 1
      /\ DOMAIN more = DOMAIN s \cup {Len(s) + 1} /\ Len(s) + 1 \notin DOMAIN s
      /\ \A i \in DOMAIN s : more[i] = s[i]
      /\ more[Len(s) + 1] = x
  OBVIOUS
<1> HIDE DEF more
<1>2. MembersOf(more) = MembersOf(s) \cup {x}
  BY <1>1 DEF MembersOf
<1> QED BY <1>1, <1>2 DEF more

\* The numbers tell the names apart, and one of them is free.
LEMMA NumberedDiffer ==
    ASSUME NEW W, NEW name \in Seq(W \cup Nat), MaxName \in Nat \ {0}, Len(name) <= MaxName, NEW n \in Nat
    PROVE  /\ PF!Numbered(name, n) \in Seq(W \cup Nat)
           /\ Len(PF!Numbered(name, n)) <= MaxName
           /\ n # 1 => PF!Numbered(name, n)[Len(PF!Numbered(name, n))] = n
<1> DEFINE k == IF Len(name) < MaxName THEN Len(name) ELSE MaxName - 1
           head == SubSeq(name, 1, k)
           long == head \o <<n>>
<1>1. k \in Nat /\ k <= Len(name) /\ k + 1 <= MaxName /\ Len(name) \in Nat
  OBVIOUS
<1> HIDE DEF k
<1>2. head \in Seq(W \cup Nat) /\ Len(head) = k
  BY <1>1
<1> HIDE DEF head
<1>3. long \in Seq(W \cup Nat) /\ Len(long) = k + 1 /\ long[k + 1] = n
  BY <1>1, <1>2
<1>4. PF!Numbered(name, n) = IF n = 1 THEN name ELSE long
  BY DEF PF!Numbered, k, head
<1> HIDE DEF long
<1> QED BY <1>1, <1>3, <1>4

LEMMA NameIsFree ==
    ASSUME NEW W, NEW name \in Seq(W \cup Nat), MaxName \in Nat \ {0}, Len(name) <= MaxName,
           NEW taken, IsFiniteSet(taken)
    PROVE  /\ PF!UniqueName(name, taken) \in Seq(W \cup Nat)
           /\ PF!UniqueName(name, taken) \notin taken
           /\ Len(PF!UniqueName(name, taken)) <= MaxName
<1> DEFINE c == Cardinality(taken)
           free == {n \in 1 .. (c + 2) : PF!Numbered(name, n) \notin taken}
<1>1. c \in Nat
  BY FS_CardinalityType
<1> HIDE DEF c
<1>2. free # {}
  <2>1. SUFFICES ASSUME \A n \in 2 .. c + 2 : PF!Numbered(name, n) \in taken PROVE FALSE
    BY <1>1
  <2> DEFINE f == [n \in 2 .. c + 2 |-> PF!Numbered(name, n)]
  <2>2. ASSUME NEW m \in 2 .. c + 2, NEW n \in 2 .. c + 2, f[m] = f[n] PROVE m = n
    <3>1. m \in Nat /\ n \in Nat /\ m # 1 /\ n # 1
      BY <1>1
    <3>2. PF!Numbered(name, m) = PF!Numbered(name, n)
      BY <2>2
    <3>3. PF!Numbered(name, m)[Len(PF!Numbered(name, m))] = m /\ PF!Numbered(name, n)[Len(PF!Numbered(name, n))] = n
      BY <3>1, NumberedDiffer
    <3> QED BY <3>2, <3>3
  <2>3. f \in Injection(2 .. c + 2, taken)
    <3>1. f \in [2 .. c + 2 -> taken]
      BY <2>1
    <3>2. IsInjective(f)
      <4> HIDE DEF f
      <4> QED BY <2>2, <3>1 DEF IsInjective
    <3> QED BY <3>1, <3>2 DEF Injection
  <2>4. Cardinality(2 .. c + 2) <= c
    BY <2>3, FS_Injection DEF c
  <2>5. Cardinality(2 .. c + 2) = c + 1
    <3>1. PICK b \in Int : b = c + 2
      BY <1>1
    <3>2. Cardinality(2 .. b) = IF 2 > b THEN 0 ELSE b - 2 + 1
      BY FS_Interval
    <3> QED BY <1>1, <3>1, <3>2
  <2> QED BY <1>1, <2>4, <2>5
<1>3. free \subseteq Nat
  BY <1>1
<1>4. PICK least \in free : \A m \in free : least <= m
  <2> HIDE DEF free
  <2> QED BY <1>2, <1>3, LeastOf
<1> DEFINE n == CHOOSE n \in free : \A m \in free : n <= m
<1>5. n \in free
  BY <1>4
<1>6. PF!UniqueName(name, taken) = PF!Numbered(name, n)
  <2>1. PF!Cardinality(taken) = c
    BY DEF PF!Cardinality, Cardinality, c
  <2> QED BY <2>1 DEF PF!UniqueName
<1> HIDE DEF n
<1>7. n \in Nat /\ PF!Numbered(name, n) \notin taken
  BY <1>3, <1>5
<1> QED BY <1>6, <1>7, NumberedDiffer

-----------------------------------------------------------------------------
\* A draft: its name has the length the schema of a plan allows, its phrases have keys in K.
PhrasesOf(K) == [key : K, valid : BOOLEAN]
Drafted(W, K) == {d \in [name : Seq(W \cup Nat), keywords : Seq(PhrasesOf(K))] : Len(d.name) <= MaxName}

TakenOf(before, words) ==
    PF!FoldLeft(LAMBDA a, k : PF!TakeKeyword(a, k), [seen |-> before, keywords |-> <<>>], words)

\* What a group takes of a draft is new, and then known.
LEMMA PhrasesAreNew ==
    ASSUME NEW K, NEW words \in Seq(PhrasesOf(K)), NEW before \in SUBSET K
    PROVE  LET made == TakenOf(before, words)
           IN  /\ made.keywords \in Seq(K)
               /\ MembersOf(made.keywords) \cap before = {}
               /\ made.seen = before \cup MembersOf(made.keywords)
<1> DEFINE N == Len(words)
           Accs == [seen : SUBSET K, keywords : Seq(K)]
           S == {acc \in Accs : /\ MembersOf(acc.keywords) \cap before = {}
                                /\ acc.seen = before \cup MembersOf(acc.keywords)}
           begin == [seen |-> before, keywords |-> <<>>]
           Then(acc, k) == PF!TakeKeyword(acc, k)
           Is(h) == h = [T \in SUBSET DOMAIN words |->
                           IF T = {} THEN begin ELSE Then(h[T \ {Max(T)}], words[Max(T)])]
           G == [p \in S \X (1 .. N) |-> Then(p[1], words[p[2]])]
           fold == CHOOSE h : Is(h)
           made == TakenOf(before, words)
<1>1. made = fold[DOMAIN words]
  BY DEF TakenOf, PF!FoldLeft, PF!MapThenFoldSet, PF!Max, Max
<1> HIDE DEF made
<1>2. N \in Nat /\ DOMAIN words = 1 .. N /\ \A i \in 1 .. N : words[i] \in PhrasesOf(K)
  OBVIOUS
<1>3. begin \in S
  <2>1. begin \in Accs /\ begin.keywords = <<>> /\ begin.seen = before
    OBVIOUS
  <2>2. MembersOf(<<>>) = {}
    BY DEF MembersOf
  <2> HIDE DEF begin, Accs
  <2> QED BY <2>1, <2>2
<1>4. ASSUME NEW acc \in S, NEW i \in 1 .. N PROVE Then(acc, words[i]) \in S
  <2> DEFINE word == words[i]
             new == [acc EXCEPT !.seen = @ \cup {word.key}, !.keywords = Append(@, word.key)]
  <2>1. acc \in Accs /\ MembersOf(acc.keywords) \cap before = {} /\ acc.seen = before \cup MembersOf(acc.keywords)
    OBVIOUS
  <2>2. word.key \in K
    BY <1>2 DEF PhrasesOf
  <2>3. Then(acc, word) = acc \/ (word.key \notin acc.seen /\ Then(acc, word) = new)
    BY DEF PF!TakeKeyword
  <2> HIDE DEF word, Then
  <2>4. CASE word.key \notin acc.seen /\ Then(acc, word) = new
    <3>1. /\ Append(acc.keywords, word.key) \in Seq(K)
          /\ MembersOf(Append(acc.keywords, word.key)) = MembersOf(acc.keywords) \cup {word.key}
      BY <2>1, <2>2, AppendMember
    <3>2. new \in Accs /\ new.seen = acc.seen \cup {word.key} /\ new.keywords = Append(acc.keywords, word.key)
      BY <2>1, <2>2, <3>1
    <3> HIDE DEF new, Accs
    <3> QED BY <2>1, <2>4, <3>1, <3>2 DEF word
  <2> QED BY <2>3, <2>4 DEF word
<1>5. \A acc \in S : /\ acc.keywords \in Seq(K) /\ MembersOf(acc.keywords) \cap before = {}
                     /\ acc.seen = before \cup MembersOf(acc.keywords)
  OBVIOUS
<1> HIDE DEF Then, S, begin
<1>6. \A acc \in S, i \in 1 .. N : G[<<acc, i>>] = Then(acc, words[i]) /\ G[<<acc, i>>] \in S
  BY <1>4
<1> HIDE DEF G, N
<1>7. PICK h : FoldsWith(h, N, S, begin, G)
  BY <1>2, <1>3, <1>6, FoldExists
<1>8. Is(h)
  <2>1. \A T \in SUBSET (1 .. N) : T # {} => Max(T) \in 1 .. N /\ T \ {Max(T)} \in SUBSET (1 .. N)
    BY <1>2, LargestOf
  <2>2. \A T \in SUBSET (1 .. N) : T # {} => h[T] = Then(h[T \ {Max(T)}], words[Max(T)])
    BY <1>6, <1>7, <2>1 DEF FoldsWith
  <2> QED BY <1>2, <1>7, <2>2 DEF FoldsWith
<1>9. Is(fold)
  BY <1>8
<1> HIDE DEF fold
<1>10. fold[{}] \in S
  BY <1>3, <1>9
<1>11. ASSUME NEW n \in 1 .. N, fold[1 .. n - 1] \in S PROVE fold[1 .. n] \in S
  <2>1. n \in Nat /\ n # 0 /\ 1 .. n \in SUBSET DOMAIN words
    BY <1>2
  <2>2. 1 .. n # {} /\ Max(1 .. n) = n /\ (1 .. n) \ {n} = 1 .. n - 1
    BY <2>1, UpTo
  <2>3. fold[1 .. n] = Then(fold[1 .. n - 1], words[n])
    BY <1>9, <2>1, <2>2
  <2> QED BY <1>4, <1>11, <2>3
<1> HIDE DEF Is
<1>12. fold[1 .. N] \in S
  BY <1>2, <1>10, <1>11, FoldStays
<1> QED BY <1>1, <1>2, <1>5, <1>12 DEF made, begin

Groups(W, K) == [name : Seq(W \cup Nat), keywords : Seq(K)]
\* As far as the groups are built: no two share a name or a phrase, and what they have is known.
GroupsSoFar(acc) ==
    LET phrases(i) == MembersOf(acc.groups[i].keywords)
    IN  /\ IsFiniteSet(acc.names)
        /\ \A i \in DOMAIN acc.groups : /\ acc.groups[i].name \in acc.names
                                       /\ Len(acc.groups[i].name) <= MaxName
                                       /\ phrases(i) \subseteq acc.seen
        /\ \A i, j \in DOMAIN acc.groups :
              i # j => acc.groups[i].name # acc.groups[j].name /\ phrases(i) \cap phrases(j) = {}

LEMMA GroupAdded ==
    ASSUME NEW W, NEW K, MaxName \in Nat \ {0}, NEW draft \in Drafted(W, K),
           NEW acc \in [seen : SUBSET K, names : SUBSET Seq(W \cup Nat), groups : Seq(Groups(W, K))],
           GroupsSoFar(acc)
    PROVE  /\ PF!AddGroup(acc, draft) \in [seen : SUBSET K, names : SUBSET Seq(W \cup Nat), groups : Seq(Groups(W, K))]
           /\ GroupsSoFar(PF!AddGroup(acc, draft))
<1> DEFINE taken == TakenOf(acc.seen, draft.keywords)
           name == PF!UniqueName(draft.name, acc.names)
           group == [name |-> name, keywords |-> taken.keywords]
           groups == Append(acc.groups, group)
           new == [seen |-> taken.seen, names |-> acc.names \cup {name}, groups |-> groups]
<1>1. PF!AddGroup(acc, draft) = IF taken.keywords = <<>> THEN acc ELSE new
  BY DEF PF!AddGroup, PF!Known, TakenOf, PF!FoldLeft, PF!MapThenFoldSet
<1>2. /\ draft.keywords \in Seq(PhrasesOf(K)) /\ draft.name \in Seq(W \cup Nat) /\ Len(draft.name) <= MaxName
      /\ acc.seen \in SUBSET K /\ acc.names \in SUBSET Seq(W \cup Nat) /\ acc.groups \in Seq(Groups(W, K))
      /\ IsFiniteSet(acc.names)
  BY DEF Drafted, GroupsSoFar
<1>3. /\ taken.keywords \in Seq(K) /\ MembersOf(taken.keywords) \cap acc.seen = {}
      /\ taken.seen = acc.seen \cup MembersOf(taken.keywords)
  BY <1>2, PhrasesAreNew
<1>4. name \in Seq(W \cup Nat) /\ name \notin acc.names /\ Len(name) <= MaxName
  BY <1>2, NameIsFree
<1> HIDE DEF taken, name
<1>5. group \in Groups(W, K) /\ group.name = name /\ group.keywords = taken.keywords
  BY <1>3, <1>4 DEF Groups
<1> HIDE DEF group
<1>6. /\ groups \in Seq(Groups(W, K))
      /\ DOMAIN groups = DOMAIN acc.groups \cup {Len(acc.groups) + 1}
      /\ \A i \in DOMAIN acc.groups : groups[i] = acc.groups[i]
      /\ groups[Len(acc.groups) + 1] = group
  BY <1>2, <1>5, AppendMember
<1> HIDE DEF groups
<1>7. taken.seen \in SUBSET K
  BY <1>2, <1>3 DEF MembersOf
<1>8. /\ new \in [seen : SUBSET K, names : SUBSET Seq(W \cup Nat), groups : Seq(Groups(W, K))]
      /\ new.seen = acc.seen \cup MembersOf(group.keywords) /\ new.names = acc.names \cup {group.name} /\ new.groups = groups
  BY <1>2, <1>3, <1>4, <1>5, <1>6, <1>7
<1> HIDE DEF new
<1>9. GroupsSoFar(new)
  <2>1. IsFiniteSet(new.names)
    <3>1. IsFiniteSet(acc.names \cup {group.name})
      BY <1>2, FS_AddElement
    <3> QED BY <1>8, <3>1
  <2>2. ASSUME NEW i \in DOMAIN groups
        PROVE  /\ groups[i].name \in new.names /\ Len(groups[i].name) <= MaxName
               /\ MembersOf(groups[i].keywords) \subseteq new.seen
    BY <1>4, <1>5, <1>6, <1>8 DEF GroupsSoFar
  <2>3. ASSUME NEW i \in DOMAIN acc.groups
        PROVE  /\ acc.groups[i].name # group.name
               /\ MembersOf(acc.groups[i].keywords) \cap MembersOf(group.keywords) = {}
    BY <1>3, <1>4, <1>5 DEF GroupsSoFar
  <2>4. ASSUME NEW i \in DOMAIN groups, NEW j \in DOMAIN groups, i # j
        PROVE  /\ groups[i].name # groups[j].name
               /\ MembersOf(groups[i].keywords) \cap MembersOf(groups[j].keywords) = {}
    BY <1>6, <2>3, <2>4 DEF GroupsSoFar
  <2> QED BY <1>8, <2>1, <2>2, <2>4 DEF GroupsSoFar
<1> QED BY <1>1, <1>8, <1>9

\* However many drafts the model gives, of whatever names and phrases, no two groups of the plan
\* have one name, which the texts are matched by, or one phrase, and no name outgrows the
\* platform's limit.  (buildGroups and uniqueGroupName, campaigns/planner.ts.)
THEOREM GroupsStayApart ==
    ASSUME NEW W, NEW K, MaxName \in Nat \ {0}, NEW drafts \in Seq(Drafted(W, K))
    PROVE  PF!GroupsDiffer(drafts)
<1> DEFINE N == Len(drafts)
           Accs == [seen : SUBSET K, names : SUBSET Seq(W \cup Nat), groups : Seq(Groups(W, K))]
           S == {acc \in Accs : GroupsSoFar(acc)}
           begin == [seen |-> {}, names |-> {}, groups |-> <<>>]
           Then(acc, draft) == PF!AddGroup(acc, draft)
           Is(h) == h = [T \in SUBSET DOMAIN drafts |->
                           IF T = {} THEN begin ELSE Then(h[T \ {Max(T)}], drafts[Max(T)])]
           G == [p \in S \X (1 .. N) |-> Then(p[1], drafts[p[2]])]
           fold == CHOOSE h : Is(h)
           made == PF!BuildGroups(drafts)
<1>1. made = fold[DOMAIN drafts].groups
  BY DEF PF!BuildGroups, PF!FoldLeft, PF!MapThenFoldSet, PF!Max, Max
<1> HIDE DEF made
<1>2. N \in Nat /\ DOMAIN drafts = 1 .. N /\ \A i \in 1 .. N : drafts[i] \in Drafted(W, K)
  OBVIOUS
<1>3. begin \in S
  <2>1. begin \in Accs /\ begin.groups = <<>> /\ begin.names = {} /\ DOMAIN <<>> = {}
    OBVIOUS
  <2> HIDE DEF begin, Accs
  <2> QED BY <2>1, FS_EmptySet DEF GroupsSoFar
<1>4. ASSUME NEW acc \in S, NEW i \in 1 .. N PROVE Then(acc, drafts[i]) \in S
  BY <1>2, GroupAdded
<1>5. \A acc \in S : GroupsSoFar(acc)
  OBVIOUS
<1> HIDE DEF Then, S, begin
<1>6. \A acc \in S, i \in 1 .. N : G[<<acc, i>>] = Then(acc, drafts[i]) /\ G[<<acc, i>>] \in S
  BY <1>4
<1> HIDE DEF G, N
<1>7. PICK h : FoldsWith(h, N, S, begin, G)
  BY <1>2, <1>3, <1>6, FoldExists
<1>8. Is(h)
  <2>1. \A T \in SUBSET (1 .. N) : T # {} => Max(T) \in 1 .. N /\ T \ {Max(T)} \in SUBSET (1 .. N)
    BY <1>2, LargestOf
  <2>2. \A T \in SUBSET (1 .. N) : T # {} => h[T] = Then(h[T \ {Max(T)}], drafts[Max(T)])
    BY <1>6, <1>7, <2>1 DEF FoldsWith
  <2> QED BY <1>2, <1>7, <2>2 DEF FoldsWith
<1>9. Is(fold)
  BY <1>8
<1> HIDE DEF fold
<1>10. fold[{}] \in S
  BY <1>3, <1>9
<1>11. ASSUME NEW n \in 1 .. N, fold[1 .. n - 1] \in S PROVE fold[1 .. n] \in S
  <2>1. n \in Nat /\ n # 0 /\ 1 .. n \in SUBSET DOMAIN drafts
    BY <1>2
  <2>2. 1 .. n # {} /\ Max(1 .. n) = n /\ (1 .. n) \ {n} = 1 .. n - 1
    BY <2>1, UpTo
  <2>3. fold[1 .. n] = Then(fold[1 .. n - 1], drafts[n])
    BY <1>9, <2>1, <2>2
  <2> QED BY <1>4, <1>11, <2>3
<1> HIDE DEF Is
<1>12. fold[1 .. N] \in S
  BY <1>2, <1>10, <1>11, FoldStays
<1>13. GroupsSoFar(fold[1 .. N]) /\ made = fold[1 .. N].groups
  BY <1>1, <1>2, <1>5, <1>12
<1>14. ASSUME NEW i \in DOMAIN made, NEW j \in DOMAIN made
       PROVE  /\ Len(made[i].name) <= MaxName
              /\ i # j => /\ made[i].name # made[j].name
                          /\ MembersOf(made[i].keywords) \cap MembersOf(made[j].keywords) = {}
  BY <1>13 DEF GroupsSoFar
<1> QED BY <1>14, Zenon DEF PF!GroupsDiffer, MembersOf, made

LEMMA StepByStep ==
    ASSUME NEW N \in Nat, NEW T, 0 \in T, \A n \in 1 .. N : n - 1 \in T => n \in T
    PROVE  \A n \in 0 .. N : n \in T
<1> DEFINE f == [n \in 0 .. N |-> n]
<1>1. f[0] \in T /\ \A n \in 1 .. N : f[n - 1] \in T => f[n] \in T
  OBVIOUS
<1> HIDE DEF f
<1>2. \A n \in 0 .. N : f[n] \in T
  BY <1>1, Climbs
<1> QED BY <1>2 DEF f

\* The sums of the first, the first two ... of the numbers s, and of them all.
SumsUp(f, s) ==
    /\ f \in [0 .. Len(s) -> Nat]
    /\ f[0] = 0 /\ f[Len(s)] = PF!SumOf(s)
    /\ \A n \in 1 .. Len(s) : f[n] = f[n - 1] + s[n]

LEMMA SumsUpExist == ASSUME NEW s \in Seq(Nat) PROVE \E f : SumsUp(f, s)
<1> DEFINE N == Len(s)
           Is(h) == h = [T \in SUBSET DOMAIN s |-> IF T = {} THEN 0 ELSE h[T \ {Max(T)}] + s[Max(T)]]
           G == [q \in Nat \X (1 .. N) |-> q[1] + s[q[2]]]
           fold == CHOOSE h : Is(h)
<1>1. PF!SumOf(s) = fold[DOMAIN s]
  BY DEF PF!SumOf, PF!FoldLeft, PF!MapThenFoldSet, PF!Max, Max
<1>2. N \in Nat /\ DOMAIN s = 1 .. N /\ \A n \in 1 .. N : s[n] \in Nat
  OBVIOUS
<1> HIDE DEF N
<1>3. \A x \in Nat, n \in 1 .. N : G[<<x, n>>] = x + s[n] /\ G[<<x, n>>] \in Nat
  BY <1>2
<1> HIDE DEF G
<1>4. PICK h : FoldsWith(h, N, Nat, 0, G)
  BY <1>2, <1>3, FoldExists
<1>5. Is(h)
  <2>1. \A T \in SUBSET (1 .. N) : T # {} => Max(T) \in 1 .. N /\ T \ {Max(T)} \in SUBSET (1 .. N)
    BY <1>2, LargestOf
  <2>2. \A T \in SUBSET (1 .. N) : T # {} => h[T] = h[T \ {Max(T)}] + s[Max(T)]
    BY <1>3, <1>4, <2>1 DEF FoldsWith
  <2> QED BY <1>2, <1>4, <2>2 DEF FoldsWith
<1>6. Is(fold)
  BY <1>5
<1> HIDE DEF fold
<1>7. fold[{}] = 0
  BY <1>6
<1>8. ASSUME NEW n \in 1 .. N PROVE fold[1 .. n] = fold[1 .. n - 1] + s[n]
  <2>1. n \in Nat /\ n # 0 /\ 1 .. n \in SUBSET DOMAIN s
    BY <1>2
  <2>2. 1 .. n # {} /\ Max(1 .. n) = n /\ (1 .. n) \ {n} = 1 .. n - 1
    BY <2>1, UpTo
  <2> QED BY <1>6, <2>1, <2>2
<1> HIDE DEF Is
<1> DEFINE f == [n \in 0 .. N |-> fold[1 .. n]]
<1>9. \A n \in 0 .. N : f[n] \in Nat
  <2>1. f[0] \in Nat
    <3>1. 1 .. 0 = {}
      OBVIOUS
    <3> QED BY <1>2, <1>7, <3>1
  <2>2. \A n \in 1 .. N : f[n] = f[n - 1] + s[n]
    BY <1>2, <1>8
  <2> HIDE DEF f
  <2>3. \A n \in 1 .. N : f[n - 1] \in Nat => f[n] \in Nat
    BY <1>2, <2>2
  <2> QED BY <1>2, <2>1, <2>3, Climbs
<1>10. SumsUp(f, s)
  <2>1. f[0] = 0
    <3>1. 1 .. 0 = {}
      OBVIOUS
    <3> QED BY <1>2, <1>7, <3>1
  <2>2. \A n \in 1 .. N : f[n] = f[n - 1] + s[n]
    BY <1>2, <1>8
  <2>3. f[N] = PF!SumOf(s)
    BY <1>1, <1>2
  <2>4. f \in [0 .. N -> Nat]
    BY <1>9
  <2> HIDE DEF f
  <2> QED BY <2>1, <2>2, <2>3, <2>4 DEF SumsUp, N
<1> QED BY <1>10

\* As many are among the first k as k says, in any order of the numbers fr in which the place
\* breaks a tie.
Ahead(fr, i) == {j \in DOMAIN fr : fr[j] > fr[i] \/ (fr[j] = fr[i] /\ j < i)}

LEMMA FirstAreCounted ==
    ASSUME NEW N \in Nat, NEW fr \in [1 .. N -> Nat], NEW k \in 0 .. N
    PROVE  LET first == {i \in 1 .. N : Cardinality(Ahead(fr, i)) < k}
           IN  IsFiniteSet(first) /\ Cardinality(first) = k
<1> DEFINE D == 1 .. N
           rank == [i \in D |-> Cardinality(Ahead(fr, i))]
           first == {i \in D : Cardinality(Ahead(fr, i)) < k}
<1>1. IsFiniteSet(D) /\ Cardinality(D) = N
  BY FS_Interval
<1>2. ASSUME NEW i \in D PROVE IsFiniteSet(Ahead(fr, i)) /\ rank[i] = Cardinality(Ahead(fr, i)) /\ rank[i] \in 0 .. N - 1
  <2>1. Ahead(fr, i) \in SUBSET (D \ {i})
    BY DEF Ahead
  <2>2. IsFiniteSet(D \ {i}) /\ Cardinality(D \ {i}) = N - 1
    BY <1>1, FS_RemoveElement
  <2>3. IsFiniteSet(Ahead(fr, i)) /\ Cardinality(Ahead(fr, i)) <= N - 1
    BY <2>1, <2>2, FS_Subset
  <2>4. Cardinality(Ahead(fr, i)) \in Nat
    BY <2>3, FS_CardinalityType
  <2> QED BY <2>3, <2>4
<1>3. ASSUME NEW i \in D, NEW j \in D, fr[j] > fr[i] \/ (fr[j] = fr[i] /\ j < i) PROVE rank[j] < rank[i]
  <2>1. Ahead(fr, j) \cup {j} \in SUBSET Ahead(fr, i) /\ j \notin Ahead(fr, j)
    BY <1>3 DEF Ahead
  <2>2. Cardinality(Ahead(fr, j) \cup {j}) = Cardinality(Ahead(fr, j)) + 1
    BY <1>2, <2>1, FS_AddElement
  <2>3. Cardinality(Ahead(fr, j) \cup {j}) <= Cardinality(Ahead(fr, i))
    BY <1>2, <2>1, FS_Subset
  <2>4. rank[i] \in Int /\ rank[j] \in Int /\ rank[i] = Cardinality(Ahead(fr, i)) /\ rank[j] = Cardinality(Ahead(fr, j))
    BY <1>2
  <2> HIDE DEF rank
  <2> QED BY <2>2, <2>3, <2>4
<1>4. ASSUME NEW i \in D, NEW j \in D, i # j PROVE rank[i] # rank[j]
  <2>1. \/ fr[j] > fr[i] \/ (fr[j] = fr[i] /\ j < i)
        \/ fr[i] > fr[j] \/ (fr[i] = fr[j] /\ i < j)
    BY <1>4
  <2>2. rank[j] < rank[i] \/ rank[i] < rank[j]
    BY <1>3, <2>1
  <2>3. rank[i] \in Int /\ rank[j] \in Int
    BY <1>2
  <2> HIDE DEF rank
  <2> QED BY <2>2, <2>3
<1>5. rank \in Injection(D, 0 .. N - 1)
  <2>1. rank \in [D -> 0 .. N - 1]
    BY <1>2
  <2> HIDE DEF rank
  <2> QED BY <1>4, <2>1 DEF Injection, IsInjective
<1>6. IsFiniteSet(0 .. N - 1) /\ Cardinality(0 .. N - 1) = N
  <2>1. N - 1 \in Int /\ 0 \in Int
    OBVIOUS
  <2>2. PICK b \in Int : b = N - 1
    BY <2>1
  <2>3. IsFiniteSet(0 .. b) /\ Cardinality(0 .. b) = IF 0 > b THEN 0 ELSE b - 0 + 1
    BY <2>1, FS_Interval
  <2> QED BY <2>2, <2>3
<1>7. rank \in Surjection(D, 0 .. N - 1)
  BY <1>1, <1>5, <1>6, FS_Injection
<1>8. \A r \in 0 .. N - 1 : \E i \in D : rank[i] = r
  <2> HIDE DEF rank
  <2> QED BY <1>7 DEF Surjection
<1>9. \A i \in D : i \in first <=> rank[i] < k
  BY DEF first
<1>10. first \subseteq D
  OBVIOUS
<1> HIDE DEF rank, first
<1> DEFINE g == [i \in first |-> rank[i]]
<1>11. g \in [first -> 0 .. k - 1]
  BY <1>2, <1>9, <1>10
<1>12. IsFiniteSet(0 .. k - 1) /\ Cardinality(0 .. k - 1) = k
  <2>1. PICK b \in Int : b = k - 1
    OBVIOUS
  <2>2. IsFiniteSet(0 .. b) /\ Cardinality(0 .. b) = IF 0 > b THEN 0 ELSE b - 0 + 1
    BY <2>1, FS_Interval
  <2> QED BY <2>1, <2>2
<1>13. g \in Injection(first, 0 .. k - 1)
  <2>1. \A i, j \in first : g[i] = g[j] => i = j
    BY <1>4, <1>10
  <2> HIDE DEF g
  <2> QED BY <1>11, <2>1 DEF Injection, IsInjective
<1>14. g \in Surjection(first, 0 .. k - 1)
  <2>1. ASSUME NEW r \in 0 .. k - 1 PROVE \E i \in first : g[i] = r
    <3>1. PICK i \in D : rank[i] = r
      BY <1>8
    <3> QED BY <1>9, <3>1
  <2> HIDE DEF g
  <2> QED BY <1>11, <2>1 DEF Surjection
<1> QED BY <1>12, <1>13, <1>14, FS_Injection DEF first

LEMMA Distributes ==
    ASSUME NEW a \in Int, NEW b \in Int, NEW c \in Int
    PROVE  a * (b + c) = a * b + a * c /\ a * b \in Int /\ a * c \in Int /\ a * b = b * a
  OBVIOUS

LEMMA Divides ==
    ASSUME NEW n \in Nat, NEW d \in Nat, d > 0
    PROVE  n \div d \in Nat /\ n % d \in Nat /\ n % d < d /\ n = d * (n \div d) + (n % d)
<1>1. n = d * (n \div d) + (n % d)
  BY Z3
<1>2. n % d \in Nat /\ n % d < d
  OBVIOUS
<1>3. n \div d \in Int /\ n \div d >= 0
  OBVIOUS
<1> QED BY <1>1, <1>2, <1>3

\* A product, left unexpanded where only what is known of it is wanted.
Times(a, b) == a * b

LEMMA TimesType == ASSUME NEW a \in Int, NEW b \in Int PROVE Times(a, b) \in Int
  BY DEF Times

LEMMA TimesSum ==
    ASSUME NEW a \in Int, NEW b \in Int, NEW c \in Int
    PROVE  Times(a, b + c) = Times(a, b) + Times(a, c)
  BY Distributes DEF Times

LEMMA TimesSwap == ASSUME NEW a \in Int, NEW b \in Int PROVE Times(a, b) = Times(b, a)
  BY DEF Times

LEMMA TimesOne == ASSUME NEW a \in Int PROVE Times(a, 1) = a /\ Times(a, 0) = 0
  BY DEF Times

LEMMA TimesMinus == ASSUME NEW a \in Int, NEW b \in Int PROVE Times(a, -b) = -Times(a, b)
  BY DEF Times

LEMMA TimesNat == ASSUME NEW a \in Nat, NEW b \in Nat PROVE Times(a, b) \in Nat
  BY DEF Times

LEMMA RestOf ==
    ASSUME NEW t \in Nat, NEW w \in Nat, NEW y \in Nat, NEW z \in Nat, Times(t, w) = Times(w, y) + z
    PROVE  t - y \in Int /\ Times(t - y, w) = z
<1>1. PICK u \in Int : u = t - y
  OBVIOUS
<1>2. t = u + y
  BY <1>1
<1>3. w \in Int /\ y \in Int /\ t \in Int
  OBVIOUS
<1>4. Times(w, u + y) = Times(w, u) + Times(w, y)
  BY <1>3, TimesSum, Zenon
<1>5. Times(w, t) = Times(t, w) /\ Times(w, u) = Times(u, w)
  BY <1>3, TimesSwap, Zenon
<1>6. Times(w, y) \in Int /\ Times(w, u) \in Int
  BY <1>3, TimesType, Zenon
<1>7. Times(w, t) = Times(w, u) + Times(w, y)
  BY <1>2, <1>4, Zenon
<1>8. PICK p, q \in Int : p = Times(w, y) /\ q = Times(w, u)
  BY <1>6, Zenon
<1>9. p + z = q + p /\ Times(u, w) = q
  BY <1>5, <1>7, <1>8, Zenon
<1>10. Times(u, w) = z
  BY <1>9
<1> QED BY <1>1, <1>10

LEMMA NotNegative ==
    ASSUME NEW a \in Int, NEW w \in Nat, w > 0, Times(a, w) >= 0 PROVE a >= 0
<1>1. SUFFICES ASSUME a <= -1 PROVE FALSE
  OBVIOUS
<1>2. PICK k \in Nat : a = -(k + 1)
  <2>1. -1 - a \in Nat /\ a = -((-1 - a) + 1)
    BY <1>1
  <2> QED BY <2>1
<1>3. w \in Int /\ k \in Int /\ k + 1 \in Int /\ 1 \in Int
  OBVIOUS
<1>4. Times(w, a) = -Times(w, k + 1)
  BY <1>2, <1>3, TimesMinus, Zenon
<1>5. Times(w, k + 1) = Times(w, k) + Times(w, 1) /\ Times(w, 1) = w
  BY <1>3, TimesSum, TimesOne, Zenon
<1>6. Times(w, k) \in Nat /\ Times(a, w) = Times(w, a)
  BY <1>3, TimesNat, TimesSwap, Zenon
<1>7. Times(w, k + 1) = Times(w, k) + w
  BY <1>5, Zenon
<1> QED BY <1>4, <1>6, <1>7

LEMMA RestIsFew ==
    ASSUME NEW a \in Int, NEW n \in Nat, NEW w \in Nat, w > 0, Times(a, w) <= Times(n, w - 1)
    PROVE  a <= n
<1>1. SUFFICES ASSUME a - n - 1 >= 0 PROVE FALSE
  OBVIOUS
<1>2. PICK k \in Nat : k = a - n - 1
  BY <1>1
<1>3. a = (n + k) + 1 /\ n + k \in Int /\ n \in Int /\ k \in Int /\ w \in Int /\ 1 \in Int
  BY <1>2
<1>4. Times(w, a) = Times(w, n + k) + Times(w, 1) /\ Times(w, 1) = w
  BY <1>3, TimesSum, TimesOne, Zenon
<1>5. Times(w, n + k) = Times(w, n) + Times(w, k)
  BY <1>3, TimesSum, Zenon
<1>6. PICK v \in Nat : v = w - 1 /\ w = v + 1
  <2>1. w - 1 \in Nat /\ w = (w - 1) + 1
    OBVIOUS
  <2> QED BY <2>1
<1>7. Times(n, v + 1) = Times(n, v) + Times(n, 1) /\ Times(n, 1) = n
  <2>1. v \in Int
    OBVIOUS
  <2> QED BY <1>3, <2>1, TimesSum, TimesOne, Zenon
<1>8. Times(n, w) = Times(w, n) /\ Times(a, w) = Times(w, a)
  BY <1>3, TimesSwap, Zenon
<1>9. Times(w, n) \in Nat /\ Times(w, k) \in Nat /\ Times(n, v) \in Nat
  BY TimesNat, Zenon
<1>10. Times(n, w) = Times(n, v) + n /\ Times(a, w) <= Times(n, v)
  BY <1>6, <1>7
<1>11. Times(w, a) = Times(w, n) + Times(w, k) + w
  BY <1>4, <1>5, Zenon
<1>12. PICK x, y, z \in Nat : x = Times(w, n) /\ y = Times(w, k) /\ z = Times(n, v)
  BY <1>9, Zenon
<1>13. x = z + n /\ Times(a, w) = x + y + w /\ Times(a, w) <= z
  BY <1>8, <1>10, <1>11, <1>12, Zenon
<1>14. x + y + w <= z
  BY <1>13, Zenon
<1> QED BY <1>13, <1>14

LEMMA OneMoreRest ==
    ASSUME NEW m \in Nat, NEW w \in Nat, NEW z \in Nat, NEW c \in Nat, z <= Times(m, w - 1), c < w
    PROVE  z + c <= Times(m + 1, w - 1)
<1>1. PICK v \in Nat : v = w - 1
  OBVIOUS
<1>2. v \in Int /\ m \in Int /\ m + 1 \in Int /\ 1 \in Int
  OBVIOUS
<1>3. /\ Times(v, m + 1) = Times(v, m) + Times(v, 1) /\ Times(v, 1) = v
      /\ Times(v, m) = Times(m, v) /\ Times(v, m + 1) = Times(m + 1, v) /\ Times(m, v) \in Nat
  BY <1>2, TimesSum, TimesOne, TimesSwap, TimesNat, Zenon
<1>4. z <= Times(m, v) /\ c <= v
  BY <1>1
<1>5. z + c <= Times(m + 1, v)
  BY <1>3, <1>4
<1> QED BY <1>1, <1>5

\* The parts, of the first n, of which rounding down has left something.
Rounded(fr, n) == {j \in 1 .. n : fr[j] > 0}

LEMMA RoundedType ==
    ASSUME NEW N \in Nat, NEW fr, \A i \in 1 .. N : fr[i] \in Nat
    PROVE  /\ Rounded(fr, 0) = {} /\ Cardinality({}) = 0
           /\ \A n \in 0 .. N : IsFiniteSet(Rounded(fr, n)) /\ Cardinality(Rounded(fr, n)) \in 0 .. n
           /\ \A n \in 1 .. N : Cardinality(Rounded(fr, n)) =
                                     Cardinality(Rounded(fr, n - 1)) + (IF fr[n] > 0 THEN 1 ELSE 0)
<1>1. Rounded(fr, 0) = {} /\ Cardinality({}) = 0
  BY FS_EmptySet DEF Rounded
<1>2. ASSUME NEW n \in 0 .. N
      PROVE  IsFiniteSet(Rounded(fr, n)) /\ Cardinality(Rounded(fr, n)) \in 0 .. n
  <2>1. IsFiniteSet(1 .. n) /\ Cardinality(1 .. n) = n
    BY FS_Interval
  <2>2. IsFiniteSet(Rounded(fr, n)) /\ Cardinality(Rounded(fr, n)) <= n
    BY <2>1, FS_Subset DEF Rounded
  <2>3. Cardinality(Rounded(fr, n)) \in Nat
    BY <2>2, FS_CardinalityType
  <2> QED BY <2>2, <2>3
<1>3. ASSUME NEW n \in 1 .. N
      PROVE  Cardinality(Rounded(fr, n)) = Cardinality(Rounded(fr, n - 1)) + (IF fr[n] > 0 THEN 1 ELSE 0)
  <2>1. n - 1 \in 0 .. N /\ n \notin Rounded(fr, n - 1)
        /\ Rounded(fr, n) = IF fr[n] > 0 THEN Rounded(fr, n - 1) \cup {n} ELSE Rounded(fr, n - 1)
    BY DEF Rounded
  <2>2. IsFiniteSet(Rounded(fr, n - 1)) /\ Cardinality(Rounded(fr, n - 1)) \in Nat
    BY <1>2, <2>1
  <2>3. CASE fr[n] > 0
    <3>1. Cardinality(Rounded(fr, n - 1) \cup {n}) = Cardinality(Rounded(fr, n - 1)) + 1
      BY <2>1, <2>2, FS_AddElement
    <3> QED BY <2>1, <2>3, <3>1
  <2>4. CASE ~(fr[n] > 0)
    BY <2>1, <2>2, <2>4
  <2> QED BY <2>3, <2>4
<1> QED BY <1>1, <1>2, <1>3

\* What a part is due, and what of it rounding leaves to be given away.
LEMMA SharesAdd ==
    ASSUME NEW total \in Nat, NEW ws \in Seq(Nat), NEW w \in Nat, w > 0, w = PF!SumOf(ws),
           NEW floors \in Seq(Nat), NEW fr \in Seq(Nat), Len(floors) = Len(ws), Len(fr) = Len(ws),
           \A i \in 1 .. Len(ws) : Times(total, ws[i]) = Times(w, floors[i]) + fr[i] /\ fr[i] < w
    PROVE  LET rest == total - PF!SumOf(floors)
           IN  rest \in 0 .. Cardinality(Rounded(fr, Len(ws)))
<1> DEFINE N == Len(ws)
           rest == total - PF!SumOf(floors)
<1>1. N \in Nat /\ DOMAIN ws = 1 .. N /\ Len(floors) = N /\ Len(fr) = N
  OBVIOUS
<1>2. \A i \in 1 .. N : ws[i] \in Nat /\ floors[i] \in Nat /\ fr[i] \in Nat
  BY <1>1
<1>3. PICK fw : SumsUp(fw, ws)
  BY SumsUpExist
<1>4. PICK ff : SumsUp(ff, floors)
  BY SumsUpExist
<1>5. PICK fg : SumsUp(fg, fr)
  BY SumsUpExist
<1>6. /\ \A n \in 0 .. N : fw[n] \in Nat /\ ff[n] \in Nat /\ fg[n] \in Nat
      /\ fw[0] = 0 /\ ff[0] = 0 /\ fg[0] = 0
      /\ fw[N] = w /\ ff[N] = PF!SumOf(floors)
  BY <1>1, <1>3, <1>4, <1>5 DEF SumsUp
<1>7. \A n \in 1 .. N : fw[n] = fw[n - 1] + ws[n] /\ ff[n] = ff[n - 1] + floors[n] /\ fg[n] = fg[n - 1] + fr[n]
  BY <1>1, <1>3, <1>4, <1>5 DEF SumsUp
<1>8. \A n \in 1 .. N : Times(total, ws[n]) = Times(w, floors[n]) + fr[n] /\ fr[n] < w
  BY <1>1
<1> HIDE DEF N
<1> DEFINE Adds(n) == Times(total, fw[n]) = Times(w, ff[n]) + fg[n]
           Few(n) == fg[n] <= Times(Cardinality(Rounded(fr, n)), w - 1)
           T == {n \in 0 .. N : Adds(n) /\ Few(n)}
<1>r. /\ Rounded(fr, 0) = {} /\ Cardinality({}) = 0
      /\ \A n \in 0 .. N : Cardinality(Rounded(fr, n)) \in Nat
      /\ \A n \in 1 .. N : Cardinality(Rounded(fr, n)) =
                                Cardinality(Rounded(fr, n - 1)) + (IF fr[n] > 0 THEN 1 ELSE 0)
  <2>1. /\ Rounded(fr, 0) = {} /\ Cardinality({}) = 0
        /\ \A n \in 0 .. N : Cardinality(Rounded(fr, n)) \in 0 .. n
        /\ \A n \in 1 .. N : Cardinality(Rounded(fr, n)) =
                                  Cardinality(Rounded(fr, n - 1)) + (IF fr[n] > 0 THEN 1 ELSE 0)
    BY <1>1, <1>2, RoundedType, Zenon
  <2>2. \A n \in 0 .. N : Cardinality(Rounded(fr, n)) \in Nat
    BY <1>1, <2>1
  <2> QED BY <2>1, <2>2, Zenon
<1>9. 0 \in T
  <2>1. Times(total, 0) = 0 /\ Times(w, 0) = 0
    BY TimesOne
  <2>2. Times(0, w - 1) = 0
    BY DEF Times
  <2>3. Cardinality(Rounded(fr, 0)) = 0 /\ fw[0] = 0 /\ ff[0] = 0 /\ fg[0] = 0
    BY <1>6, <1>r, Zenon
  <2>4. Adds(0) /\ Few(0)
    BY <2>1, <2>2, <2>3
  <2> QED BY <1>1, <2>4
<1>10. ASSUME NEW n \in 1 .. N, n - 1 \in T PROVE n \in T
  <2>1. PICK x, y, z \in Nat : x = fw[n - 1] /\ y = ff[n - 1] /\ z = fg[n - 1]
    <3>1. n - 1 \in 0 .. N
      BY <1>1
    <3> HIDE DEF Adds, Few, T
    <3> QED BY <1>6, <3>1
  <2>2. PICK a, b, c \in Nat : a = ws[n] /\ b = floors[n] /\ c = fr[n]
    BY <1>2
  <2>r. PICK m \in Nat : m = Cardinality(Rounded(fr, n - 1))
    <3>1. n - 1 \in 0 .. N
      BY <1>1
    <3> HIDE DEF Adds, Few, T
    <3> QED BY <1>r, <3>1
  <2>3. Times(total, x) = Times(w, y) + z /\ z <= Times(m, w - 1)
        /\ Times(total, a) = Times(w, b) + c /\ c < w
    BY <1>8, <1>10, <2>1, <2>2, <2>r
  <2>4. Times(total, x + a) = Times(w, y + b) + (z + c)
    <3>1. total \in Int /\ w \in Int /\ x \in Int /\ a \in Int /\ y \in Int /\ b \in Int
      OBVIOUS
    <3>2. Times(total, x + a) = Times(total, x) + Times(total, a)
      BY <3>1, TimesSum, Zenon
    <3>3. Times(w, y + b) = Times(w, y) + Times(w, b)
      BY <3>1, TimesSum, Zenon
    <3>4. PICK p, q \in Int : p = Times(w, y) /\ q = Times(w, b)
      BY <3>1, TimesType, Zenon
    <3>5. Times(total, x + a) = (p + z) + (q + c) /\ Times(w, y + b) = p + q
      BY <2>3, <3>2, <3>3, <3>4, Zenon
    <3> QED BY <3>5
  <2>5. z + c <= Times(Cardinality(Rounded(fr, n)), w - 1)
    <3>r. Cardinality(Rounded(fr, n)) = m + (IF c > 0 THEN 1 ELSE 0)
      BY <1>r, <2>2, <2>r, Zenon
    <3>1. CASE c > 0
      <4>1. z + c <= Times(m + 1, w - 1)
        BY <2>3, OneMoreRest
      <4>2. Cardinality(Rounded(fr, n)) = m + 1
        BY <3>r, <3>1
      <4> QED BY <4>1, <4>2
    <3>2. CASE c = 0
      <4>1. Cardinality(Rounded(fr, n)) = m
        BY <3>r, <3>2
      <4> QED BY <2>3, <3>2, <4>1
    <3> QED BY <3>1, <3>2
  <2>6. fw[n] = x + a /\ ff[n] = y + b /\ fg[n] = z + c
    BY <1>7, <2>1, <2>2
  <2>7. Adds(n) /\ Few(n)
    BY <2>4, <2>5, <2>6
  <2> HIDE DEF Adds, Few
  <2> QED BY <1>1, <2>7
<1>11. Adds(N) /\ Few(N)
  <2> HIDE DEF Adds, Few
  <2>1. \A n \in 1 .. N : n - 1 \in T => n \in T
    BY <1>10
  <2> HIDE DEF T
  <2>2. \A n \in 0 .. N : n \in T
    BY <1>1, <1>9, <2>1, StepByStep
  <2> QED BY <1>1, <2>2 DEF T
<1>12. PICK y, z \in Nat : y = ff[N] /\ z = fg[N]
  BY <1>1, <1>6
<1>13. Times(total, w) = Times(w, y) + z /\ z <= Times(Cardinality(Rounded(fr, N)), w - 1) /\ rest = total - y
  BY <1>6, <1>11, <1>12
<1> HIDE DEF rest, Adds, Few, T
<1>14. rest \in Int /\ Times(rest, w) = z
  <2>1. total - y \in Int /\ Times(total - y, w) = z
    BY <1>13, RestOf
  <2> QED BY <1>13, <2>1
<1>15. rest >= 0
  <2>1. Times(rest, w) >= 0
    BY <1>14
  <2> QED BY <1>14, <2>1, NotNegative
<1>16. rest <= Cardinality(Rounded(fr, N))
  <2>1. Cardinality(Rounded(fr, N)) \in Nat
    BY <1>1, <1>r
  <2> QED BY <1>13, <1>14, <2>1, RestIsFew
<1> QED BY <1>1, <1>14, <1>15, <1>16 DEF rest, N

LEMMA OneMoreForSome ==
    ASSUME NEW floors \in Seq(Nat), NEW made \in Seq(Nat), Len(made) = Len(floors),
           NEW first \in SUBSET (1 .. Len(floors)),
           \A i \in 1 .. Len(floors) : made[i] = floors[i] + (IF i \in first THEN 1 ELSE 0)
    PROVE  PF!SumOf(made) = PF!SumOf(floors) + Cardinality(first)
<1> DEFINE N == Len(floors)
           Got(n) == first \cap (1 .. n)
<1>1. N \in Nat /\ \A i \in 1 .. N : floors[i] \in Nat
  OBVIOUS
<1>2. PICK ff : SumsUp(ff, floors)
  BY SumsUpExist
<1>3. PICK fm : SumsUp(fm, made)
  BY SumsUpExist
<1>4. ASSUME NEW n \in 0 .. N PROVE IsFiniteSet(Got(n)) /\ Cardinality(Got(n)) \in Nat
  <2>1. IsFiniteSet(1 .. n)
    BY FS_Interval
  <2>2. IsFiniteSet(Got(n))
    BY <2>1, FS_Subset
  <2> QED BY <2>2, FS_CardinalityType
<1> DEFINE T == {n \in 0 .. N : fm[n] = ff[n] + Cardinality(Got(n))}
<1>5. 0 \in T
  <2>1. Got(0) = {}
    OBVIOUS
  <2>2. Cardinality(Got(0)) = 0
    BY <2>1, FS_EmptySet
  <2> QED BY <1>1, <1>2, <1>3, <2>2 DEF SumsUp
<1>6. ASSUME NEW n \in 1 .. N, n - 1 \in T PROVE n \in T
  <2>0. /\ ff[n] = ff[n - 1] + floors[n] /\ fm[n] = fm[n - 1] + made[n] /\ ff[n - 1] \in Nat
    <3>1. n - 1 \in 0 .. Len(floors)
      BY <1>1
    <3> HIDE DEF T, Got
    <3>2. ff[n] = ff[n - 1] + floors[n] /\ ff[n - 1] \in Nat
      BY <1>2, <3>1 DEF SumsUp
    <3>3. fm[n] = fm[n - 1] + made[n]
      <4>1. n \in 1 .. Len(made)
        OBVIOUS
      <4> QED BY <1>3, <4>1 DEF SumsUp
    <3> QED BY <3>2, <3>3
  <2>1. /\ ff[n] = ff[n - 1] + floors[n] /\ fm[n] = fm[n - 1] + made[n]
        /\ ff[n - 1] \in Nat /\ fm[n - 1] = ff[n - 1] + Cardinality(Got(n - 1))
        /\ made[n] = floors[n] + (IF n \in first THEN 1 ELSE 0) /\ floors[n] \in Nat
    BY <1>1, <1>6, <2>0
  <2>2. n - 1 \in 0 .. N /\ n \notin Got(n - 1) /\ Got(n) = IF n \in first THEN Got(n - 1) \cup {n} ELSE Got(n - 1)
    BY <1>1
  <2>3. IsFiniteSet(Got(n - 1)) /\ Cardinality(Got(n - 1)) \in Nat
    BY <1>4, <2>2
  <2> HIDE DEF Got, T, N
  <2>4. Cardinality(Got(n)) = Cardinality(Got(n - 1)) + (IF n \in first THEN 1 ELSE 0)
    <3>1. CASE n \in first
      <4>1. Cardinality(Got(n - 1) \cup {n}) = Cardinality(Got(n - 1)) + 1
        BY <2>2, <2>3, FS_AddElement
      <4> QED BY <2>2, <3>1, <4>1
    <3>2. CASE n \notin first
      BY <2>2, <2>3, <3>2
    <3> QED BY <3>1, <3>2
  <2>5. PICK u, v, g \in Nat : u = ff[n - 1] /\ v = floors[n] /\ g = Cardinality(Got(n - 1))
    BY <2>1, <2>3
  <2>6. PICK e \in 0 .. 1 : e = IF n \in first THEN 1 ELSE 0
    OBVIOUS
  <2>7. fm[n] = (u + g) + (v + e) /\ ff[n] = u + v /\ Cardinality(Got(n)) = g + e
    BY <2>1, <2>4, <2>5, <2>6
  <2>8. fm[n] = ff[n] + Cardinality(Got(n))
    BY <2>7
  <2> QED BY <1>1, <2>8 DEF T
<1>7. N \in T
  <2> HIDE DEF T, N
  <2>1. \A n \in 0 .. N : n \in T
    BY <1>1, <1>5, <1>6, StepByStep
  <2> QED BY <1>1, <2>1
<1>8. Got(N) = first
  OBVIOUS
<1> QED BY <1>2, <1>3, <1>7, <1>8 DEF SumsUp

LEMMA PartsType ==
    ASSUME NEW K, NEW parts \in Seq([key: K, weight: Nat])
    PROVE  /\ Len(parts) \in Nat /\ DOMAIN parts = 1 .. Len(parts)
           /\ \A i \in 1 .. Len(parts) : parts[i].weight \in Nat
<1> DEFINE R == [key: K, weight: Nat]
<1>1. \A p \in R : p.weight \in Nat
  OBVIOUS
<1> HIDE DEF R
<1>2. parts \in Seq(R)
  BY DEF R
<1>3. \A i \in 1 .. Len(parts) : parts[i] \in R
  BY <1>2
<1> QED BY <1>1, <1>2, <1>3

\* Of whatever is to be spent and however many parts there are to share it by their weights, not
\* a kopeck is lost in rounding and none is made: the shares add up to the whole, and each is
\* less than a kopeck from what its weight is due.  (allocateByLargestRemainder in
\* campaigns/budget.ts, from which splitBudget takes the amounts.)
THEOREM NoKopeckIsLost ==
    ASSUME NEW K, NEW parts \in Seq([key: K, weight: Nat]), NEW total \in Nat, PF!Weights(parts) > 0
    PROVE  LET w == PF!Weights(parts)
               made == PF!LargestRemainder(total, parts)
           IN  /\ PF!SumOf(made) = total
               /\ \A i \in DOMAIN parts : /\ made[i] \in Nat
                                          /\ made[i] * w < total * parts[i].weight + w
                                          /\ made[i] * w > total * parts[i].weight - w
<1> DEFINE N == Len(parts)
           D == DOMAIN parts
           w == PF!Weights(parts)
           ws == [i \in D |-> parts[i].weight]
           floors == PF!Floors(total, parts)
           fr == [i \in D |-> (total * parts[i].weight) % w]
           rest == total - PF!SumOf(floors)
           first == {i \in 1 .. N : Cardinality(Ahead(fr, i)) < rest}
           made == PF!LargestRemainder(total, parts)
<1>1. N \in Nat /\ D = 1 .. N /\ \A i \in 1 .. N : parts[i].weight \in Nat
  BY PartsType
<1>2. ws \in Seq(Nat) /\ Len(ws) = N /\ w = PF!SumOf(ws) /\ \A i \in 1 .. N : ws[i] = parts[i].weight
  <2>1. ws \in [1 .. N -> Nat]
    BY <1>1
  <2>2. w = PF!SumOf(ws)
    BY DEF PF!Weights
  <2>3. \A i \in 1 .. N : ws[i] = parts[i].weight
    BY <1>1
  <2> HIDE DEF ws, N, D, w
  <2> QED BY <1>1, <2>1, <2>2, <2>3
<1>3. w \in Nat
  <2> HIDE DEF ws, w, N
  <2>1. PICK f : SumsUp(f, ws)
    BY <1>2, SumsUpExist
  <2> QED BY <1>1, <1>2, <2>1 DEF SumsUp
<1>4. w > 0
  OBVIOUS
<1>5. ASSUME NEW i \in 1 .. N
      PROVE  /\ (total * parts[i].weight) \div w \in Nat /\ (total * parts[i].weight) % w \in Nat
             /\ (total * parts[i].weight) % w < w
             /\ total * parts[i].weight = w * ((total * parts[i].weight) \div w) + ((total * parts[i].weight) % w)
  <2> DEFINE x == total * parts[i].weight
  <2>1. x \in Nat
    BY <1>1
  <2> HIDE DEF x, w
  <2>2. x \div w \in Nat /\ x % w \in Nat /\ x % w < w /\ x = w * (x \div w) + (x % w)
    BY <1>3, <1>4, <2>1, Divides
  <2> QED BY <2>2 DEF x
<1>6. floors = [i \in D |-> (total * parts[i].weight) \div w]
  BY DEF PF!Floors
<1>7. made = [i \in D |-> floors[i] + (IF Cardinality(Ahead(fr, i)) < rest THEN 1 ELSE 0)]
  <2>1. \A i \in D : Ahead(fr, i) =
            {j \in D : \/ (total * parts[j].weight) % w > (total * parts[i].weight) % w
                       \/ (total * parts[j].weight) % w = (total * parts[i].weight) % w /\ j < i}
    BY DEF Ahead
  <2> QED BY <2>1 DEF PF!LargestRemainder, PF!Cardinality, Cardinality
<1> HIDE DEF w, ws, floors, rest, made, D
<1>8. floors \in Seq(Nat) /\ Len(floors) = N /\ fr \in Seq(Nat) /\ Len(fr) = N /\ fr \in [1 .. N -> Nat]
      /\ \A i \in 1 .. N : /\ Times(total, ws[i]) = Times(w, floors[i]) + fr[i] /\ fr[i] < w /\ fr[i] \in Nat
                           /\ floors[i] \in Nat /\ ws[i] = parts[i].weight
  <2>1. \A i \in 1 .. N : /\ floors[i] = (total * parts[i].weight) \div w
                          /\ fr[i] = (total * parts[i].weight) % w
    BY <1>1, <1>6, Zenon
  <2>2. \A i \in 1 .. N : floors[i] \in Nat /\ fr[i] \in Nat /\ fr[i] < w
    BY <1>5, <2>1, Zenon
  <2>3. ASSUME NEW i \in 1 .. N PROVE Times(total, ws[i]) = Times(w, floors[i]) + fr[i]
    <3>1. total * parts[i].weight = w * floors[i] + fr[i]
      BY <1>5, <2>1, Zenon
    <3> QED BY <1>2, <3>1, Zenon DEF Times
  <2>4. DOMAIN floors = 1 .. N /\ floors = [i \in DOMAIN floors |-> floors[i]]
    BY <1>1, <1>6, Zenon
  <2>5. DOMAIN fr = 1 .. N /\ fr = [i \in DOMAIN fr |-> fr[i]]
    BY <1>1, Zenon
  <2> HIDE DEF fr, N
  <2>6. floors \in [1 .. N -> Nat]
    BY <2>2, <2>4
  <2>7. fr \in [1 .. N -> Nat]
    BY <2>2, <2>5
  <2>8. floors \in Seq(Nat) /\ Len(floors) = N
    BY <1>1, <2>6
  <2>9. fr \in Seq(Nat) /\ Len(fr) = N
    BY <1>1, <2>7
  <2> QED BY <1>2, <2>2, <2>3, <2>7, <2>8, <2>9
<1> HIDE DEF fr
<1>9. rest \in 0 .. Cardinality(Rounded(fr, N)) /\ rest \in 0 .. N
  <2>1. total - PF!SumOf(floors) \in 0 .. Cardinality(Rounded(fr, Len(ws)))
    <3>1. Len(floors) = Len(ws) /\ Len(fr) = Len(ws)
      BY <1>2, <1>8
    <3>2. \A i \in 1 .. Len(ws) : Times(total, ws[i]) = Times(w, floors[i]) + fr[i] /\ fr[i] < w
      BY <1>2, <1>8
    <3> HIDE DEF N
    <3> QED BY <1>2, <1>3, <1>4, <1>8, <3>1, <3>2, SharesAdd
  <2>2. Cardinality(Rounded(fr, N)) \in 0 .. N
    <3>1. \A i \in 1 .. N : fr[i] \in Nat
      BY <1>8
    <3>2. N \in 0 .. N
      BY <1>1
    <3> HIDE DEF N
    <3> QED BY <1>1, <3>1, <3>2, RoundedType
  <2> QED BY <1>2, <2>1, <2>2 DEF rest
<1>10. Cardinality(first) = rest
  <2> HIDE DEF N
  <2> QED BY <1>1, <1>8, <1>9, FirstAreCounted
<1>11. made \in Seq(Nat) /\ Len(made) = N
       /\ \A i \in 1 .. N : made[i] = floors[i] + (IF i \in first THEN 1 ELSE 0) /\ made[i] \in Nat
  <2>1. \A i \in 1 .. N : made[i] = floors[i] + (IF i \in first THEN 1 ELSE 0)
    BY <1>1, <1>7, Zenon
  <2>2. DOMAIN made = 1 .. N /\ made = [i \in DOMAIN made |-> made[i]]
    BY <1>1, <1>7, Zenon
  <2> HIDE DEF N, first
  <2>3. ASSUME NEW i \in 1 .. N PROVE made[i] \in Nat
    <3>1. PICK x \in Nat : x = floors[i]
      BY <1>8
    <3>2. made[i] = x + (IF i \in first THEN 1 ELSE 0)
      BY <2>1, <3>1
    <3> QED BY <3>2
  <2>4. made \in [1 .. N -> Nat]
    BY <2>2, <2>3
  <2>5. made \in Seq(Nat) /\ Len(made) = N
    BY <1>1, <2>4
  <2> QED BY <2>1, <2>3, <2>5
<1>12. PF!SumOf(made) = total
  <2>1. first \in SUBSET (1 .. N)
    OBVIOUS
  <2> HIDE DEF N, first
  <2>2. PF!SumOf(made) = PF!SumOf(floors) + Cardinality(first)
    <3>1. Len(made) = Len(floors) /\ first \in SUBSET (1 .. Len(floors))
      BY <1>8, <1>11, <2>1
    <3>2. \A i \in 1 .. Len(floors) : made[i] = floors[i] + (IF i \in first THEN 1 ELSE 0)
      BY <1>8, <1>11
    <3>3. floors \in Seq(Nat) /\ made \in Seq(Nat)
      BY <1>8, <1>11
    <3> QED BY <3>1, <3>2, <3>3, OneMoreForSome
  <2>3. PF!SumOf(floors) \in Nat
    <3>1. floors \in Seq(Nat)
      BY <1>8
    <3>2. PICK f : SumsUp(f, floors)
      BY <3>1, SumsUpExist
    <3> QED BY <3>1, <3>2 DEF SumsUp
  <2> QED BY <1>10, <2>2, <2>3 DEF rest
<1>13. ASSUME NEW i \in 1 .. N
       PROVE  made[i] \in Nat /\ made[i] * w < total * parts[i].weight + w /\ made[i] * w > total * parts[i].weight - w
  <2>1. PICK x, y, z \in Nat : x = floors[i] /\ y = fr[i] /\ z = parts[i].weight
    BY <1>1, <1>8
  <2>2. PICK e \in 0 .. 1 : made[i] = x + e
    <3>1. made[i] = x + (IF i \in first THEN 1 ELSE 0)
      BY <1>11, <2>1, Zenon
    <3> HIDE DEF first
    <3>2. CASE i \in first
      BY <3>1, <3>2
    <3>3. CASE i \notin first
      BY <3>1, <3>3
    <3> QED BY <3>2, <3>3
  <2>f. e = 1 => y > 0
    <3>1. SUFFICES ASSUME i \in first, fr[i] = 0 PROVE FALSE
      <4>1. PICK h \in Nat : h = floors[i] /\ made[i] = h + (IF i \in first THEN 1 ELSE 0)
        BY <1>8, <1>11
      <4> HIDE DEF first
      <4> QED BY <2>1, <2>2, <4>1
    <3>2. Rounded(fr, N) \in SUBSET Ahead(fr, i)
      BY <1>8, <3>1 DEF Rounded, Ahead
    <3>3. IsFiniteSet(Ahead(fr, i))
      <4>1. Ahead(fr, i) \in SUBSET (1 .. N) /\ IsFiniteSet(1 .. N)
        BY <1>1, <1>8, FS_Interval DEF Ahead
      <4> QED BY <4>1, FS_Subset
    <3>4. Cardinality(Rounded(fr, N)) <= Cardinality(Ahead(fr, i))
      BY <3>2, <3>3, FS_Subset
    <3>5. Cardinality(Ahead(fr, i)) < rest
      BY <3>1
    <3>6. Cardinality(Ahead(fr, i)) \in Nat /\ Cardinality(Rounded(fr, N)) \in Nat
      BY <3>2, <3>3, FS_Subset, FS_CardinalityType
    <3> HIDE DEF first
    <3> QED BY <1>9, <3>4, <3>5, <3>6
  <2>3. Times(total, z) = Times(w, x) + y /\ y < w
    BY <1>8, <2>1
  <2>4. Times(w, x + e) = Times(w, x) + Times(w, e) /\ Times(w, x) \in Int /\ Times(x + e, w) = Times(w, x + e)
    <3>1. w \in Int /\ x \in Int /\ e \in Int /\ x + e \in Int
      BY <1>3
    <3> QED BY <3>1, TimesSum, TimesType, TimesSwap, Zenon
  <2>5. Times(w, e) = IF e = 1 THEN w ELSE 0
    <3>1. e = 0 \/ e = 1
      OBVIOUS
    <3> QED BY <1>3, <3>1, TimesOne
  <2>6. PICK p \in Int : p = Times(w, x)
    BY <2>4, Zenon
  <2>7. Times(x + e, w) < Times(total, z) + w /\ Times(x + e, w) > Times(total, z) - w
    <3>1. Times(x + e, w) = p + (IF e = 1 THEN w ELSE 0) /\ Times(total, z) = p + y
      BY <2>3, <2>4, <2>5, <2>6, Zenon
    <3>2. p + (IF e = 1 THEN w ELSE 0) < (p + y) + w /\ p + (IF e = 1 THEN w ELSE 0) > (p + y) - w
      <4>1. PICK v \in Nat : v = w /\ v > 0 /\ y < v
        BY <1>3, <1>4, <2>3
      <4>2. CASE e = 1
        <5>1. p + v < (p + y) + v /\ p + v > (p + y) - v
          BY <2>f, <4>1, <4>2
        <5> QED BY <4>1, <4>2, <5>1
      <4>3. CASE e = 0
        <5>1. p + 0 < (p + y) + v /\ p + 0 > (p + y) - v
          BY <4>1
        <5> QED BY <4>1, <4>3, <5>1
      <4> QED BY <4>2, <4>3
    <3> QED BY <3>1, <3>2, Zenon
  <2>8. x + e \in Nat
    OBVIOUS
  <2> QED BY <1>11, <2>1, <2>2, <2>7, <2>8, Zenon DEF Times
<1>14. \A i \in D : /\ made[i] \in Nat
                   /\ made[i] * w < total * parts[i].weight + w
                   /\ made[i] * w > total * parts[i].weight - w
  BY <1>1, <1>13, Zenon
<1> QED BY <1>12, <1>14, Zenon DEF D, made, w

\* FlattenSeq's own recursion: the first of seqs, the first two, and so on.
Flattened(f, seqs, last) ==
    /\ f = [i \in 1 .. last |-> f[i]]
    /\ \A i \in 1 .. last : f[i] = IF i = 1 THEN seqs[i] ELSE f[i - 1] \o seqs[i]

LEMMA FlattenExists ==
    ASSUME NEW seqs, NEW last \in Nat
    PROVE  \E f : Flattened(f, seqs, last)
<1> DEFINE T == {n \in Nat : ~ \E f : Flattened(f, seqs, n)}
<1>1. SUFFICES ASSUME T # {} PROVE FALSE
  OBVIOUS
<1>2. PICK n \in T : \A m \in T : n <= m
  BY <1>1, LeastOf
<1>3. Flattened([i \in 1 .. 0 |-> 0], seqs, 0)
  BY DEF Flattened
<1>4. n \in Nat /\ n # 0
  BY <1>2, <1>3
<1>5. n - 1 \in Nat /\ n - 1 \notin T
  BY <1>2, <1>4
<1>6. PICK f : Flattened(f, seqs, n - 1)
  BY <1>5
<1> DEFINE x == IF n = 1 THEN seqs[n] ELSE f[n - 1] \o seqs[n]
           g == [i \in 1 .. n |-> IF i = n THEN x ELSE f[i]]
<1> HIDE DEF x
<1>7. Flattened(g, seqs, n)
  <2>1. ASSUME NEW i \in 1 .. n PROVE g[i] = IF i = 1 THEN seqs[i] ELSE g[i - 1] \o seqs[i]
    <3>1. i # 1 => i - 1 \in 1 .. n /\ i - 1 # n /\ g[i - 1] = f[i - 1]
      BY <1>4
    <3>2. CASE i = n
      <4>1. g[i] = x
        BY <3>2
      <4> HIDE DEF g
      <4> QED BY <3>1, <3>2, <4>1 DEF x
    <3>3. CASE i # n
      <4>1. i \in 1 .. n - 1 /\ g[i] = f[i]
        BY <1>4, <3>3
      <4> HIDE DEF g
      <4> QED BY <1>6, <3>1, <4>1 DEF Flattened
    <3> QED BY <3>2, <3>3
  <2> HIDE DEF g
  <2>2. g = [i \in 1 .. n |-> g[i]]
    BY DEF g
  <2> QED BY <2>1, <2>2 DEF Flattened
<1> QED BY <1>2, <1>7

LEMMA FlattenType ==
    ASSUME NEW K, NEW seqs \in Seq(Seq(K))
    PROVE  CR!FlattenSeq(seqs) \in Seq(K)
<1> DEFINE N == Len(seqs)
           Is(h) == h = [i \in 1 .. N |-> IF i = 1 THEN seqs[i] ELSE h[i - 1] \o seqs[i]]
           whole == CHOOSE h : Is(h)
<1>1. N \in Nat /\ \A i \in 1 .. N : seqs[i] \in Seq(K)
  OBVIOUS
<1>2. CASE N = 0
  <2>1. CR!FlattenSeq(seqs) = seqs
    BY <1>2 DEF CR!FlattenSeq
  <2>2. seqs = <<>> /\ <<>> \in Seq(K)
    BY <1>2
  <2> QED BY <2>1, <2>2
<1>3. CASE N # 0
  <2>1. CR!FlattenSeq(seqs) = whole[N]
    BY <1>3 DEF CR!FlattenSeq
  <2>2. PICK f : Flattened(f, seqs, N)
    BY <1>1, FlattenExists
  <2> HIDE DEF N
  <2>3. Is(f)
    BY <2>2 DEF Flattened
  <2>4. Is(whole)
    BY <2>3
  <2> HIDE DEF whole
  <2>5. \A i \in 1 .. N : whole[i] = IF i = 1 THEN seqs[i] ELSE whole[i - 1] \o seqs[i]
    BY <2>4
  <2> HIDE DEF Is
  <2> DEFINE T == {n \in 1 .. N : whole[n] \notin Seq(K)}
  <2>6. T = {}
    <3>1. SUFFICES ASSUME T # {} PROVE FALSE
      OBVIOUS
    <3>2. T \subseteq Nat
      BY <1>1
    <3>3. PICK n \in T : \A m \in T : n <= m
      BY <3>1, <3>2, LeastOf
    <3>4. n \in 1 .. N /\ n # 1 => n - 1 \in 1 .. N /\ whole[n - 1] \in Seq(K)
      BY <1>1, <3>3
    <3>5. CASE n = 1
      BY <1>1, <2>5, <3>3, <3>5
    <3>6. CASE n # 1
      <4>1. whole[n] = whole[n - 1] \o seqs[n] /\ seqs[n] \in Seq(K) /\ whole[n - 1] \in Seq(K)
        BY <1>1, <2>5, <3>3, <3>4, <3>6
      <4>2. \A s, t \in Seq(K) : s \o t \in Seq(K)
        OBVIOUS
      <4> QED BY <3>3, <4>1, <4>2
    <3> QED BY <3>3, <3>5, <3>6
  <2>7. N \in 1 .. N
    BY <1>1, <1>3 DEF N
  <2> QED BY <2>1, <2>6, <2>7
<1> QED BY <1>2, <1>3

\* A set of pictures as it is asked for, and what was made before.
PictureSets(F) == [formats: Seq(F), variants: Nat, unit: Nat \cup {CR!NoPrice}, budget: Nat,
                   dryRun: BOOLEAN, attempts: Nat]
Caches(F) == UNION {[K -> {"image", "censored"}] : K \in SUBSET (F \X Nat)}

LEMMA MaxOfTwo ==
    ASSUME NEW a \in Int, NEW b \in Int
    PROVE  CR!Max({a, b}) = IF a <= b THEN b ELSE a
<1>1. CR!Max({a, b}) = CHOOSE x \in {a, b} : \A y \in {a, b} : x >= y
  BY DEF CR!Max
<1> QED BY <1>1

LEMMA MinOfTwo ==
    ASSUME NEW a \in Int, NEW b \in Int
    PROVE  CR!Min({a, b}) = IF a <= b THEN a ELSE b
<1>1. CR!Min({a, b}) = CHOOSE x \in {a, b} : \A y \in {a, b} : x <= y
  BY DEF CR!Min
<1> QED BY <1>1

LEMMA PicturesType ==
    ASSUME NEW F, NEW set \in PictureSets(F)
    PROVE  CR!Pictures(set) \in Seq(F \X Nat)
<1> DEFINE c == CR!ClampVariants(set.variants)
           OfFormat(f) == [v \in 1 .. c |-> <<set.formats[f], v>>]
           seqs == [f \in DOMAIN set.formats |-> OfFormat(f)]
<1>1. set.formats \in Seq(F) /\ set.variants \in Nat
  BY DEF PictureSets
<1>2. c \in Nat
  <2>1. CR!Min({5, set.variants}) \in Nat
    BY <1>1, MinOfTwo
  <2> HIDE DEF PictureSets
  <2> QED BY <2>1, MaxOfTwo DEF CR!ClampVariants
<1> HIDE DEF c
<1>3. \A f \in DOMAIN set.formats : OfFormat(f) \in Seq(F \X Nat)
  <2> SUFFICES ASSUME NEW f \in DOMAIN set.formats PROVE OfFormat(f) \in Seq(F \X Nat)
    OBVIOUS
  <2>1. set.formats[f] \in F
    BY <1>1
  <2>2. OfFormat(f) \in [1 .. c -> F \X Nat]
    BY <1>2, <2>1
  <2> HIDE DEF OfFormat
  <2> QED BY <1>2, <2>2
<1> HIDE DEF OfFormat
<1>4. seqs \in Seq(Seq(F \X Nat))
  <2>1. seqs \in [1 .. Len(set.formats) -> Seq(F \X Nat)] /\ Len(set.formats) \in Nat
    BY <1>1, <1>3
  <2> HIDE DEF seqs
  <2> QED BY <2>1
<1>5. CR!Pictures(set) = CR!FlattenSeq(seqs)
  BY DEF CR!Pictures, OfFormat, c
<1> HIDE DEF seqs
<1> QED BY <1>4, <1>5, FlattenType

\* The account of a set: what has been spent of its budget is the price of every picture that
\* the provider was asked for, whatever became of it, and it is what the rows cost together.
Rows(F) == [picture: F \X Nat, cost: Nat \cup {CR!NoPrice},
            status: {"planned", "unknown_price", "over_budget", "provider_error", "image", "censored"}]
Accounts(F, Gens) == [spent: Nat, cache: Caches(F), rows: Seq(Rows(F)), asked: Seq(Gens)]
Billed(rows, spent) ==
    \E f \in [0 .. Len(rows) -> Nat] :
        /\ f[0] = 0 /\ f[Len(rows)] = spent
        /\ \A n \in 1 .. Len(rows) : rows[n].cost \in Nat /\ f[n] = f[n - 1] + rows[n].cost
AsksNobody(set) == set.unit = CR!NoPrice \/ set.dryRun
OnAccount(F, Gens, set) ==
    {acc \in Accounts(F, Gens) :
        IF AsksNobody(set) THEN acc.asked = <<>>
        ELSE /\ acc.spent <= set.budget
             /\ acc.spent = Len(acc.asked) * set.unit
             /\ Billed(acc.rows, acc.spent)}

LEMMA BilledMore ==
    ASSUME NEW F, NEW rows \in Seq(Rows(F)), NEW spent \in Nat, Billed(rows, spent),
           NEW row \in Rows(F), row.cost \in Nat
    PROVE  Billed(Append(rows, row), spent + row.cost)
<1> DEFINE N == Len(rows)
           more == Append(rows, row)
<1>1. N \in Nat /\ Len(more) = N + 1 /\ more[N + 1] = row /\ \A n \in 1 .. N : more[n] = rows[n]
  OBVIOUS
<1>2. PICK f \in [0 .. N -> Nat] :
          /\ f[0] = 0 /\ f[N] = spent
          /\ \A n \in 1 .. N : rows[n].cost \in Nat /\ f[n] = f[n - 1] + rows[n].cost
  BY DEF Billed
<1> HIDE DEF N, more
<1> DEFINE g == [n \in 0 .. N + 1 |-> IF n = N + 1 THEN spent + row.cost ELSE f[n]]
<1>3. g \in [0 .. N + 1 -> Nat] /\ g[0] = 0 /\ g[N + 1] = spent + row.cost
  BY <1>1, <1>2
<1>4. ASSUME NEW n \in 1 .. N + 1 PROVE more[n].cost \in Nat /\ g[n] = g[n - 1] + more[n].cost
  <2>1. n - 1 \in 0 .. N /\ g[n - 1] = f[n - 1]
    BY <1>1
  <2>2. CASE n = N + 1
    BY <1>1, <1>2, <1>3, <2>1, <2>2
  <2>3. CASE n # N + 1
    <3>1. n \in 1 .. N /\ g[n] = f[n]
      BY <1>1, <2>3
    <3> QED BY <1>1, <1>2, <2>1, <3>1
  <2> QED BY <2>2, <2>3
<1> HIDE DEF g
<1> QED BY <1>1, <1>3, <1>4 DEF Billed, more

Account(s, c, r, a) == [spent |-> s, cache |-> c, rows |-> r, asked |-> a]

LEMMA ListedAccount ==
    ASSUME NEW s, NEW c, NEW r, NEW a, NEW picture, NEW verdict, NEW cost
    PROVE  CR!Listed(Account(s, c, r, a), picture, verdict, cost) =
             Account(s, c, Append(r, [picture |-> picture, status |-> verdict, cost |-> cost]), a)
<1> DEFINE row == [picture |-> picture, status |-> verdict, cost |-> cost]
<1>1. CR!Listed(Account(s, c, r, a), picture, verdict, cost) =
         [Account(s, c, r, a) EXCEPT !.rows = Append(Account(s, c, r, a).rows, row)]
  BY Zenon DEF CR!Listed
<1> HIDE DEF row
<1>2. [Account(s, c, r, a) EXCEPT !.rows = Append(Account(s, c, r, a).rows, row)] = Account(s, c, Append(r, row), a)
  BY DEF Account
<1> QED BY <1>1, <1>2, Zenon DEF row

LEMMA AskedAccount ==
    ASSUME NEW s, NEW c, NEW r, NEW a, NEW g
    PROVE  CR!Asked(Account(s, c, r, a), g) = Account(s, c, r, Append(a, g))
<1>1. CR!Asked(Account(s, c, r, a), g) = [Account(s, c, r, a) EXCEPT !.asked = Append(Account(s, c, r, a).asked, g)]
  BY Zenon DEF CR!Asked
<1>2. [Account(s, c, r, a) EXCEPT !.asked = Append(Account(s, c, r, a).asked, g)] = Account(s, c, r, Append(a, g))
  BY DEF Account
<1> QED BY <1>1, <1>2, Zenon

LEMMA AttemptAccount ==
    ASSUME NEW s, NEW c, NEW r, NEW a, NEW picture, NEW g, NEW set
    PROVE  LET acc == Account(s, c, r, a)
               made == CR!Generate(g, set.attempts)
               verdict == IF made = "error" THEN "provider_error" ELSE made
           IN  CR!Attempt(acc, set, picture, g) =
                 Account(s + set.unit, IF made = "error" THEN c ELSE CR!Kept(acc, picture, made),
                         Append(r, [picture |-> picture, status |-> verdict, cost |-> set.unit]), Append(a, g))
<1> DEFINE acc == Account(s, c, r, a)
           made == CR!Generate(g, set.attempts)
           more == CR!Kept(acc, picture, made)
           paid == [CR!Asked(acc, g) EXCEPT !.spent = @ + set.unit]
<1>1. paid = Account(s + set.unit, c, r, Append(a, g))
  <2>1. CR!Asked(acc, g) = Account(s, c, r, Append(a, g))
    BY AskedAccount
  <2>2. [Account(s, c, r, Append(a, g)) EXCEPT !.spent = @ + set.unit] = Account(s + set.unit, c, r, Append(a, g))
    BY DEF Account
  <2> QED BY <2>1, <2>2, Zenon
<1>2. CR!Attempt(acc, set, picture, g) =
         IF made = "error" THEN CR!Listed(paid, picture, "provider_error", set.unit)
         ELSE CR!Listed([paid EXCEPT !.cache = more], picture, made, set.unit)
  BY Zenon DEF CR!Attempt
<1> HIDE DEF made, more, paid
<1>3. [Account(s + set.unit, c, r, Append(a, g)) EXCEPT !.cache = more] = Account(s + set.unit, more, r, Append(a, g))
  BY DEF Account
<1>4. CASE made = "error"
  <2>1. CR!Attempt(acc, set, picture, g) =
           Account(s + set.unit, c, Append(r, [picture |-> picture, status |-> "provider_error", cost |-> set.unit]),
                   Append(a, g))
    BY <1>1, <1>2, <1>4, ListedAccount
  <2> QED BY <1>4, <2>1, Zenon DEF made
<1>5. CASE made # "error"
  <2>1. CR!Attempt(acc, set, picture, g) =
           Account(s + set.unit, more, Append(r, [picture |-> picture, status |-> made, cost |-> set.unit]),
                   Append(a, g))
    BY <1>1, <1>2, <1>3, <1>5, ListedAccount
  <2> QED BY <1>5, <2>1, Zenon DEF made, more
<1> QED BY <1>4, <1>5, Zenon

LEMMA PictureOnAccount ==
    ASSUME NEW F, NEW Gens, NEW set \in PictureSets(F), NEW acc \in OnAccount(F, Gens, set),
           NEW picture \in F \X Nat, NEW g \in Gens
    PROVE  CR!Picture(acc, set, picture, g) \in OnAccount(F, Gens, set)
<1> DEFINE S == OnAccount(F, Gens, set)
           Row(verdict, cost) == [picture |-> picture, status |-> verdict, cost |-> cost]
           With(spent, kept, row, asked) == Account(spent, kept, Append(acc.rows, row), asked)
<1>1. /\ acc \in Accounts(F, Gens)
      /\ acc.spent \in Nat /\ acc.cache \in Caches(F) /\ acc.rows \in Seq(Rows(F)) /\ acc.asked \in Seq(Gens)
      /\ set.unit \in Nat \cup {CR!NoPrice} /\ set.budget \in Nat /\ set.dryRun \in BOOLEAN
      /\ CR!NoPrice \notin Nat
  BY DEF OnAccount, Accounts, PictureSets, CR!NoPrice
<1>2. ASSUME NEW row \in Rows(F) PROVE Append(acc.rows, row) \in Seq(Rows(F))
  BY <1>1
<1>a. acc = Account(acc.spent, acc.cache, acc.rows, acc.asked)
  BY <1>1 DEF Accounts, Account
<1>3. ASSUME NEW verdict, NEW cost
      PROVE  CR!Listed(acc, picture, verdict, cost) = With(acc.spent, acc.cache, Row(verdict, cost), acc.asked)
  <2>1. PICK s, c, r, a : acc = Account(s, c, r, a) /\ acc.spent = s /\ acc.cache = c /\ acc.rows = r /\ acc.asked = a
    BY <1>a
  <2> QED BY <2>1, ListedAccount
<1>4. ASSUME NEW verdict \in {"planned", "unknown_price", "over_budget", "image", "censored"},
             NEW cost \in {0, CR!NoPrice}, AsksNobody(set) \/ cost = 0
      PROVE  CR!Listed(acc, picture, verdict, cost) \in S
  <2>1. Row(verdict, cost) \in Rows(F)
    BY DEF Rows
  <2> DEFINE new == With(acc.spent, acc.cache, Row(verdict, cost), acc.asked)
  <2>2. new \in Accounts(F, Gens)
    BY <1>1, <1>2, <2>1 DEF Accounts, Account
  <2>3. CASE AsksNobody(set)
    <3>1. new.asked = <<>>
      BY <2>3 DEF OnAccount, Account
    <3> HIDE DEF new
    <3> QED BY <1>3, <2>2, <2>3, <3>1 DEF OnAccount, new
  <2>4. CASE ~AsksNobody(set)
    <3>1. /\ acc.spent <= set.budget
          /\ acc.spent = Len(acc.asked) * set.unit
          /\ Billed(acc.rows, acc.spent)
      BY <2>4 DEF OnAccount
    <3>2. Row(verdict, cost).cost = 0 /\ acc.spent + 0 = acc.spent
      BY <1>1, <1>4, <2>4
    <3>3. Billed(Append(acc.rows, Row(verdict, cost)), acc.spent)
      <4> HIDE DEF Row
      <4>1. Billed(Append(acc.rows, Row(verdict, cost)), acc.spent + Row(verdict, cost).cost)
        BY <1>1, <2>1, <3>1, <3>2, BilledMore
      <4> QED BY <3>2, <4>1
    <3>4. /\ new.spent <= set.budget
          /\ new.spent = Len(new.asked) * set.unit
          /\ Billed(new.rows, new.spent)
      BY <3>1, <3>3 DEF Account
    <3> HIDE DEF new
    <3> QED BY <1>3, <2>2, <2>4, <3>4 DEF OnAccount, new
  <2> QED BY <2>3, <2>4
<1>5. ASSUME ~AsksNobody(set), acc.spent + set.unit <= set.budget
      PROVE  CR!Attempt(acc, set, picture, g) \in S
  <2> DEFINE made == CR!Generate(g, set.attempts)
             verdict == IF made = "error" THEN "provider_error" ELSE made
             kept == IF made = "error" THEN acc.cache ELSE CR!Kept(acc, picture, made)
             row == Row(verdict, set.unit)
             new == With(acc.spent + set.unit, kept, row, Append(acc.asked, g))
  <2>1. made \in {"image", "censored", "error"}
    BY DEF CR!Generate
  <2> HIDE DEF made
  <2>2. CR!Attempt(acc, set, picture, g) = new
    <3>1. PICK s, c, r, a : acc = Account(s, c, r, a) /\ acc.spent = s /\ acc.cache = c /\ acc.rows = r /\ acc.asked = a
      BY <1>a
    <3> QED BY <3>1, AttemptAccount DEF made
  <2>3. set.unit \in Nat /\ row \in Rows(F) /\ row.cost = set.unit
    BY <1>1, <1>5, <2>1 DEF Rows, AsksNobody
  <2>4. kept \in Caches(F)
    <3>1. PICK K \in SUBSET (F \X Nat) : acc.cache \in [K -> {"image", "censored"}]
      BY <1>1 DEF Caches
    <3>2. CASE made # "error"
      <4>1. DOMAIN acc.cache = K /\ K \cup {picture} \in SUBSET (F \X Nat)
        BY <3>1
      <4>2. CR!Kept(acc, picture, made) \in [K \cup {picture} -> {"image", "censored"}]
        BY <2>1, <3>1, <3>2, <4>1 DEF CR!Kept
      <4> QED BY <3>2, <4>1, <4>2 DEF Caches
    <3> QED BY <1>1, <3>2
  <2> HIDE DEF kept, row
  <2>5. /\ Append(acc.asked, g) \in Seq(Gens) /\ Len(Append(acc.asked, g)) = Len(acc.asked) + 1
        /\ Len(acc.asked) \in Nat
    BY <1>1
  <2>6. new \in Accounts(F, Gens)
    BY <1>1, <1>2, <2>3, <2>4, <2>5 DEF Accounts, Account
  <2>7. /\ acc.spent = Len(acc.asked) * set.unit
        /\ Billed(acc.rows, acc.spent)
    BY <1>5 DEF OnAccount
  <2>8. Billed(Append(acc.rows, row), acc.spent + set.unit)
    BY <1>1, <2>3, <2>7, BilledMore
  <2>9. acc.spent + set.unit = (Len(acc.asked) + 1) * set.unit
    BY <2>3, <2>5, <2>7
  <2>10. /\ new.spent <= set.budget
         /\ new.spent = Len(new.asked) * set.unit
         /\ Billed(new.rows, new.spent)
    BY <1>5, <2>5, <2>8, <2>9 DEF Account
  <2> HIDE DEF new
  <2> QED BY <1>5, <2>2, <2>6, <2>10 DEF OnAccount
<1>6. picture \in DOMAIN acc.cache => acc.cache[picture] \in {"image", "censored"}
  BY <1>1 DEF Caches
<1> HIDE DEF S, Row, With
<1>7. AsksNobody(set) <=> set.unit = CR!NoPrice \/ set.dryRun
  BY DEF AsksNobody
<1>8. CASE set.dryRun
  BY <1>4, <1>7, <1>8 DEF CR!Picture, S
<1>9. CASE ~set.dryRun /\ set.unit = CR!NoPrice
  <2>1. CR!Picture(acc, set, picture, g) = CR!Listed(acc, picture, "unknown_price", CR!NoPrice)
    BY <1>9 DEF CR!Picture
  <2> QED BY <1>4, <1>7, <1>9, <2>1 DEF S
<1>10. CASE ~AsksNobody(set) /\ picture \in DOMAIN acc.cache
  BY <1>4, <1>6, <1>7, <1>10 DEF CR!Picture, S
<1>11. CASE ~AsksNobody(set) /\ picture \notin DOMAIN acc.cache
  <2>1. CASE acc.spent + set.unit > set.budget
    <3>1. CR!Picture(acc, set, picture, g) = CR!Listed(acc, picture, "over_budget", 0)
      BY <1>7, <1>11, <2>1 DEF CR!Picture
    <3> QED BY <1>4, <3>1 DEF S
  <2>2. CASE ~(acc.spent + set.unit > set.budget)
    <3>1. CR!Picture(acc, set, picture, g) = CR!Attempt(acc, set, picture, g)
      BY <1>7, <1>11, <2>2 DEF CR!Picture
    <3>2. set.unit \in Nat /\ acc.spent + set.unit <= set.budget
      BY <1>1, <1>7, <1>11, <2>2
    <3> QED BY <1>5, <1>11, <3>1, <3>2 DEF S
  <2> QED BY <2>1, <2>2
<1> QED BY <1>1, <1>7, <1>8, <1>9, <1>10, <1>11

NoImages(kept) == [spent |-> 0, cache |-> kept, rows |-> <<>>, asked |-> <<>>]

LEMMA NothingOnAccount ==
    ASSUME NEW F, NEW Gens, NEW set \in PictureSets(F), NEW kept \in Caches(F)
    PROVE  NoImages(kept) \in OnAccount(F, Gens, set)
<1>1. NoImages(kept) \in Accounts(F, Gens)
  BY DEF NoImages, Accounts
<1>2. /\ NoImages(kept).spent = 0 /\ NoImages(kept).asked = <<>> /\ NoImages(kept).rows = <<>>
  BY DEF NoImages
<1>3. Billed(<<>>, 0)
  <2> DEFINE f == [n \in 0 .. 0 |-> 0]
  <2>1. f \in [0 .. Len(<<>>) -> Nat] /\ f[0] = 0 /\ f[Len(<<>>)] = 0 /\ \A n \in 1 .. Len(<<>>) : FALSE
    OBVIOUS
  <2> HIDE DEF f
  <2> QED BY <2>1 DEF Billed
<1>4. CASE AsksNobody(set)
  BY <1>1, <1>2, <1>4 DEF OnAccount
<1>5. CASE ~AsksNobody(set)
  <2>1. set.unit \in Nat /\ set.budget \in Nat
    BY <1>5 DEF PictureSets, AsksNobody
  <2>2. Len(<<>>) = 0 /\ 0 <= set.budget /\ 0 = 0 * set.unit
    BY <2>1
  <2> QED BY <1>1, <1>2, <1>3, <1>5, <2>2 DEF OnAccount
<1> QED BY <1>4, <1>5

LEMMA ImagesOnAccount ==
    ASSUME NEW F, NEW set \in PictureSets(F), NEW kept \in Caches(F), NEW generations, NEW Gens,
           \A p \in DOMAIN CR!Pictures(set) : generations[p] \in Gens
    PROVE  CR!GenerateImages(set, kept, generations) \in OnAccount(F, Gens, set)
<1> DEFINE pictures == CR!Pictures(set)
           N == Len(pictures)
           ps == [p \in DOMAIN pictures |-> p]
           S == OnAccount(F, Gens, set)
           begin == NoImages(kept)
           Then(acc, p) == CR!Picture(acc, set, pictures[p], generations[p])
           Is(h) == h = [T \in SUBSET DOMAIN ps |->
                           IF T = {} THEN begin ELSE Then(h[T \ {Max(T)}], ps[Max(T)])]
           G == [q \in S \X (1 .. N) |-> Then(q[1], ps[q[2]])]
           fold == CHOOSE h : Is(h)
<1>1. CR!GenerateImages(set, kept, generations) = fold[DOMAIN ps]
  BY DEF CR!GenerateImages, CR!FoldLeft, CR!MapThenFoldSet, CR!Max, Max, NoImages
<1>2. N \in Nat /\ DOMAIN pictures = 1 .. N /\ \A p \in 1 .. N : pictures[p] \in F \X Nat
  <2>1. pictures \in Seq(F \X Nat)
    BY PicturesType
  <2> HIDE DEF pictures
  <2> QED BY <2>1
<1> HIDE DEF pictures, N
<1>3. DOMAIN ps = 1 .. N /\ \A p \in 1 .. N : ps[p] = p /\ generations[p] \in Gens
  BY <1>2 DEF pictures
<1>4. begin \in S
  BY NothingOnAccount
<1> HIDE DEF begin, ps
<1>5. \A acc \in S, p \in 1 .. N : Then(acc, p) \in S
  BY <1>2, <1>3, PictureOnAccount
<1> HIDE DEF Then, S
<1>6. \A acc \in S, p \in 1 .. N : G[<<acc, p>>] = Then(acc, ps[p]) /\ G[<<acc, p>>] \in S
  BY <1>3, <1>5
<1> HIDE DEF G
<1>7. PICK h : FoldsWith(h, N, S, begin, G)
  BY <1>2, <1>4, <1>6, FoldExists
<1>8. Is(h)
  <2>1. \A T \in SUBSET (1 .. N) : T # {} => Max(T) \in 1 .. N /\ T \ {Max(T)} \in SUBSET (1 .. N)
    BY <1>2, LargestOf
  <2>2. \A T \in SUBSET (1 .. N) : T # {} => h[T] = Then(h[T \ {Max(T)}], ps[Max(T)])
    BY <1>6, <1>7, <2>1 DEF FoldsWith
  <2> QED BY <1>3, <1>7, <2>2 DEF FoldsWith
<1>9. Is(fold)
  BY <1>8
<1> HIDE DEF fold
<1>10. fold[{}] \in S
  BY <1>4, <1>9
<1>11. ASSUME NEW n \in 1 .. N, fold[1 .. n - 1] \in S PROVE fold[1 .. n] \in S
  <2>1. n \in Nat /\ n # 0 /\ 1 .. n \in SUBSET DOMAIN ps
    BY <1>2, <1>3
  <2>2. 1 .. n # {} /\ Max(1 .. n) = n /\ (1 .. n) \ {n} = 1 .. n - 1
    BY <2>1, UpTo
  <2>3. fold[1 .. n] = Then(fold[1 .. n - 1], ps[n])
    BY <1>9, <2>1, <2>2
  <2> QED BY <1>3, <1>5, <1>11, <2>3
<1> HIDE DEF Is
<1>12. fold[1 .. N] \in S
  BY <1>2, <1>10, <1>11, FoldStays
<1> QED BY <1>1, <1>3, <1>12 DEF S

LEMMA TotalOfBills ==
    ASSUME NEW F, NEW rows \in Seq(Rows(F)), NEW spent \in Nat, Billed(rows, spent),
           NEW texts \in Nat \cup {CR!NoPrice}
    PROVE  CR!TotalCost(<<texts>> \o CR!Costs(rows)) = (IF texts = CR!NoPrice THEN 0 ELSE texts) + spent
<1> DEFINE costs == <<texts>> \o CR!Costs(rows)
           N == Len(rows) + 1
           priced == IF texts = CR!NoPrice THEN 0 ELSE texts
           Then(sum, c) == IF c = CR!NoPrice THEN sum ELSE sum + c
           Is(h) == h = [T \in SUBSET DOMAIN costs |->
                           IF T = {} THEN 0 ELSE Then(h[T \ {Max(T)}], costs[Max(T)])]
           G == [q \in Nat \X (1 .. N) |-> Then(q[1], costs[q[2]])]
           fold == CHOOSE h : Is(h)
<1>1. CR!TotalCost(costs) = fold[DOMAIN costs]
  BY DEF CR!TotalCost, CR!FoldLeft, CR!MapThenFoldSet, CR!Max, Max
<1>2. PICK f \in [0 .. Len(rows) -> Nat] :
          /\ f[0] = 0 /\ f[Len(rows)] = spent
          /\ \A n \in 1 .. Len(rows) : rows[n].cost \in Nat /\ f[n] = f[n - 1] + rows[n].cost
  BY DEF Billed
<1>3. Len(rows) \in Nat /\ N \in Nat /\ N # 0 /\ priced \in Nat /\ CR!NoPrice \notin Nat
  BY DEF CR!NoPrice
<1>4. /\ DOMAIN costs = 1 .. N /\ costs[1] = texts
      /\ \A n \in 2 .. N : n - 1 \in 1 .. Len(rows) /\ costs[n] = rows[n - 1].cost
  <2>1. CR!Costs(rows) = [n \in 1 .. Len(rows) |-> rows[n].cost]
    BY DEF CR!Costs
  <2>2. CR!Costs(rows) \in Seq(Nat)
    <3> DEFINE cs == [n \in 1 .. Len(rows) |-> rows[n].cost]
    <3>1. cs \in [1 .. Len(rows) -> Nat]
      BY <1>2
    <3> HIDE DEF cs
    <3>2. cs \in Seq(Nat)
      BY <1>3, <3>1
    <3> QED BY <2>1, <3>2 DEF cs
  <2> DEFINE cs == CR!Costs(rows)
  <2>3. Len(cs) = Len(rows) /\ \A n \in 1 .. Len(rows) : cs[n] = rows[n].cost
    BY <1>3, <2>1, <2>2
  <2>4. <<texts>> \in Seq(Int) /\ cs \in Seq(Int) /\ Len(<<texts>>) = 1
    BY <2>2 DEF CR!NoPrice
  <2> HIDE DEF cs
  <2>5. /\ DOMAIN (<<texts>> \o cs) = 1 .. Len(cs) + 1 /\ (<<texts>> \o cs)[1] = texts
        /\ \A n \in 2 .. Len(cs) + 1 : (<<texts>> \o cs)[n] = cs[n - 1]
    BY <2>4
  <2>6. \A n \in 2 .. N : n - 1 \in 1 .. Len(rows)
    BY <1>3
  <2> QED BY <2>3, <2>5, <2>6 DEF cs
<1> HIDE DEF costs
<1>5. \A n \in 1 .. N : costs[n] \in Nat \cup {CR!NoPrice}
  <2> SUFFICES ASSUME NEW n \in 1 .. N PROVE costs[n] \in Nat \cup {CR!NoPrice}
    OBVIOUS
  <2>1. n = 1 \/ n \in 2 .. N
    BY <1>3
  <2> QED BY <1>2, <1>4, <2>1
<1> HIDE DEF N
<1>6. \A sum \in Nat, n \in 1 .. N : Then(sum, costs[n]) \in Nat
  BY <1>5
<1> HIDE DEF Then
<1>7. \A sum \in Nat, n \in 1 .. N : G[<<sum, n>>] = Then(sum, costs[n]) /\ G[<<sum, n>>] \in Nat
  BY <1>6
<1> HIDE DEF G
<1>8. PICK h : FoldsWith(h, N, Nat, 0, G)
  BY <1>3, <1>7, FoldExists
<1>9. Is(h)
  <2>1. \A T \in SUBSET (1 .. N) : T # {} => Max(T) \in 1 .. N /\ T \ {Max(T)} \in SUBSET (1 .. N)
    BY <1>3, LargestOf
  <2>2. \A T \in SUBSET (1 .. N) : T # {} => h[T] = Then(h[T \ {Max(T)}], costs[Max(T)])
    BY <1>7, <1>8, <2>1 DEF FoldsWith
  <2> QED BY <1>4, <1>8, <2>2 DEF FoldsWith
<1>10. Is(fold)
  BY <1>9
<1> HIDE DEF fold
<1> DEFINE Q == [n \in 0 .. N |-> {IF n = 0 THEN 0 ELSE priced + f[n - 1]}]
<1>11. fold[{}] \in Q[0]
  BY <1>3, <1>10
<1>12. ASSUME NEW n \in 1 .. N, fold[1 .. n - 1] \in Q[n - 1] PROVE fold[1 .. n] \in Q[n]
  <2>1. n \in Nat /\ n # 0 /\ 1 .. n \in SUBSET DOMAIN costs
    BY <1>3, <1>4
  <2>2. 1 .. n # {} /\ Max(1 .. n) = n /\ (1 .. n) \ {n} = 1 .. n - 1
    BY <2>1, UpTo
  <2>3. fold[1 .. n] = Then(fold[1 .. n - 1], costs[n])
    BY <1>10, <2>1, <2>2
  <2>4. n - 1 \in 0 .. N /\ n \in 0 .. N
    BY <1>3
  <2>5. fold[1 .. n - 1] = IF n - 1 = 0 THEN 0 ELSE priced + f[n - 2]
    BY <1>12, <2>4
  <2>6. CASE n = 1
    <3>1. fold[1 .. n] = priced
      BY <1>3, <1>4, <2>3, <2>5, <2>6 DEF Then
    <3>2. Q[n] = {priced + f[0]}
      BY <2>4, <2>6
    <3> HIDE DEF priced, Q
    <3>3. priced + f[0] = priced
      BY <1>2, <1>3
    <3> QED BY <3>1, <3>2, <3>3
  <2>7. CASE n # 1
    <3>1. n \in 2 .. N /\ n - 1 # 0
      BY <1>3, <2>7
    <3>2. n - 1 \in 1 .. Len(rows) /\ costs[n] = rows[n - 1].cost
      BY <1>4, <3>1
    <3>3. rows[n - 1].cost \in Nat /\ f[n - 1] = f[n - 2] + rows[n - 1].cost /\ f[n - 2] \in Nat
      BY <1>2, <1>3, <3>2
    <3>4. fold[1 .. n] = priced + f[n - 2] + rows[n - 1].cost
      BY <1>3, <2>3, <2>5, <3>1, <3>2, <3>3 DEF Then
    <3>5. Q[n] = {priced + f[n - 1]}
      BY <2>4, <3>1
    <3> HIDE DEF priced
    <3> QED BY <1>3, <3>3, <3>4, <3>5
  <2> QED BY <2>6, <2>7
<1> HIDE DEF Is, Q
<1>13. fold[1 .. N] \in Q[N]
  BY <1>3, <1>11, <1>12, FoldClimbs
<1>14. fold[1 .. N] = priced + f[N - 1] /\ f[N - 1] = spent
  BY <1>2, <1>3, <1>13 DEF Q, N
<1> QED BY <1>1, <1>4, <1>14 DEF costs, priced

\* Whatever the provider makes of each picture, and whatever was kept from before, what a set
\* has cost is the price of every picture that was asked for, of those that failed or came too
\* late as well, and of its texts; it is no more than the set may cost, but for texts that
\* are over it by themselves; a rehearsal and a provider without a price ask for nothing.
\* (generateCreativeSetOnDemand in creatives/on-demand.ts, images/generate.ts.)
THEOREM AskedIsOnAccount ==
    ASSUME NEW F, NEW set \in PictureSets(F), NEW kept \in Caches(F), NEW generations,
           NEW textsCost \in Nat \cup {CR!NoPrice}, NEW setBudget \in Nat
    PROVE  LET made == CR!CreativeSet(set, textsCost, setBudget, kept, generations)
               texts == IF textsCost = CR!NoPrice THEN 0 ELSE textsCost
           IN  IF AsksNobody(set) THEN made.images.asked = <<>>
               ELSE /\ made.total = Len(made.images.asked) * set.unit + texts
                    /\ made.total <= CR!Max({setBudget, textsCost})
<1> DEFINE left == CR!RemainingBudget(textsCost, set.budget, setBudget)
           most == CHOOSE b \in left : TRUE
           less == [set EXCEPT !.budget = most]
           texts == IF textsCost = CR!NoPrice THEN 0 ELSE textsCost
           images == IF left = {} THEN NoImages(kept) ELSE CR!GenerateImages(less, kept, generations)
           made == CR!CreativeSet(set, textsCost, setBudget, kept, generations)
<1>1. made.images = images /\ made.total = CR!TotalCost(<<textsCost>> \o CR!Costs(images.rows))
  BY DEF CR!CreativeSet, NoImages
<1>2. /\ set.unit \in Nat \cup {CR!NoPrice} /\ set.budget \in Nat /\ CR!NoPrice \notin Nat /\ CR!NoPrice = -1
  BY DEF PictureSets, CR!NoPrice
<1>3. CR!Max({setBudget, textsCost}) = IF setBudget <= textsCost THEN textsCost ELSE setBudget
  BY <1>2, MaxOfTwo
<1>4. CASE left = {}
  <2> DEFINE Gens == {}
  <2>1. images \in OnAccount(F, Gens, set) /\ images.spent = 0 /\ images.asked = <<>>
    BY <1>4, NothingOnAccount DEF NoImages
  <2> HIDE DEF images, made, left
  <2>2. CASE ~AsksNobody(set)
    <3>1. images.rows \in Seq(Rows(F)) /\ Billed(images.rows, 0) /\ set.unit \in Nat
      BY <1>2, <2>1, <2>2 DEF OnAccount, Accounts, AsksNobody
    <3>2. made.total = texts + 0
      BY <1>1, <3>1, TotalOfBills
    <3>3. Len(images.asked) * set.unit = 0
      BY <2>1, <3>1
    <3> QED BY <1>1, <1>2, <1>3, <2>2, <3>2, <3>3 DEF made
  <2> QED BY <1>1, <2>1, <2>2 DEF made
<1>5. CASE left # {}
  <2>1. textsCost \in Nat /\ textsCost < setBudget /\ texts = textsCost
    BY <1>2, <1>5 DEF CR!RemainingBudget
  <2>2. most = CR!Min({set.budget, setBudget - textsCost})
    BY <1>2, <2>1 DEF CR!RemainingBudget
  <2>3. most \in Nat /\ most <= setBudget - textsCost
    <3>1. set.budget \in Nat /\ setBudget - textsCost \in Nat
      BY <1>2, <2>1
    <3> HIDE DEF most
    <3> QED BY <2>2, <3>1, MinOfTwo
  <2> HIDE DEF most
  <2>4. less \in PictureSets(F) /\ less.unit = set.unit /\ less.dryRun = set.dryRun /\ less.budget = most
    BY <2>3 DEF PictureSets
  <2> HIDE DEF less
  <2> DEFINE Gens == {generations[p] : p \in DOMAIN CR!Pictures(less)}
  <2>5. images \in OnAccount(F, Gens, less)
    <3>1. \A p \in DOMAIN CR!Pictures(less) : generations[p] \in Gens
      OBVIOUS
    <3> HIDE DEF Gens
    <3> QED BY <1>5, <2>4, <3>1, ImagesOnAccount
  <2> HIDE DEF images, made, left, Gens
  <2>6. AsksNobody(less) <=> AsksNobody(set)
    BY <2>4 DEF AsksNobody
  <2>7. CASE ~AsksNobody(set)
    <3>1. /\ images.rows \in Seq(Rows(F)) /\ Billed(images.rows, images.spent) /\ set.unit \in Nat
          /\ images.spent \in Nat /\ images.spent <= most /\ images.spent = Len(images.asked) * set.unit
      BY <1>2, <2>4, <2>5, <2>6, <2>7 DEF OnAccount, Accounts, AsksNobody
    <3>2. made.total = texts + images.spent
      BY <1>1, <3>1, TotalOfBills
    <3>3. made.total <= setBudget
      BY <2>1, <2>3, <3>1, <3>2
    <3> HIDE DEF texts
    <3> QED BY <1>1, <1>2, <1>3, <2>1, <2>7, <3>1, <3>2, <3>3 DEF made
  <2>8. CASE AsksNobody(set)
    BY <1>1, <2>5, <2>6, <2>8 DEF OnAccount, made
  <2> QED BY <2>7, <2>8
<1> QED BY <1>4, <1>5

\* However many rows Metrika answers with and whatever they name, conversions are set to
\* nought only for a campaign that no row could have been about, and with a row that names
\* nobody for none; else the window is left in the model of Metrika.  (ingestion/metrika.ts.)
THEOREM SilenceIsNoughtOnly ==
    ASSUME NEW held, NEW mine, NEW rows,
           \A k \in DOMAIN held : held[k].conversions \in Nat
    PROVE  IFa!SilenceIsZero(held, mine, rows)
<1> DEFINE totals == IFa!Totals(rows, mine)
           zero == IFa!ToZero(held, mine, rows)
           after == IFa!ApplyMetrika(held, mine, rows)
           about == UNION {IFa!Ours(rows[i], mine) : i \in DOMAIN rows}
<1>1. DOMAIN totals = UNION {IFa!Ours(rows[i], mine) : i \in {j \in DOMAIN rows : IFa!Matched(rows[j], mine)}}
  BY DEF IFa!Totals
<1> HIDE DEF totals
<1>2. \A k \in about : k \in DOMAIN totals \/ k \in IFa!Shielded(rows, mine)
  BY <1>1 DEF IFa!Shielded
<1>3. IFa!Suspended(rows, mine) => after = held
  BY DEF IFa!ApplyMetrika
<1>4. ASSUME ~IFa!Suspended(rows, mine)
      PROVE  after = [k \in DOMAIN held \cup DOMAIN totals |->
                        IF k \in DOMAIN totals THEN IFa!OfMetrika(totals[k])
                        ELSE IF k \in zero THEN IFa!OfMetrika(0) ELSE held[k]]
  BY <1>4 DEF IFa!ApplyMetrika, totals
<1>5. \A k : k \in zero <=> /\ k \in DOMAIN held /\ k \in mine \ IFa!Shielded(rows, mine)
                            /\ k \notin DOMAIN totals /\ held[k] # IFa!OfMetrika(0)
  BY DEF IFa!ToZero, totals
<1>6. IFa!Blind(rows, mine) => IFa!Suspended(rows, mine)
  BY DEF IFa!Suspended
<1> HIDE DEF zero, after, about
<1>7. ASSUME NEW k \in DOMAIN held, held[k].conversions > 0, after[k].conversions = 0, k \notin DOMAIN totals
      PROVE  k \notin about /\ ~IFa!Blind(rows, mine)
  <2>1. ~IFa!Suspended(rows, mine)
    BY <1>3, <1>7
  <2>2. k \in zero
    BY <1>4, <1>7, <2>1
  <2> QED BY <1>2, <1>5, <1>6, <1>7, <2>1, <2>2
<1>8. ASSUME ~IFa!Suspended(rows, mine), NEW k \in mine \cap DOMAIN after, k \notin IFa!Shielded(rows, mine)
      PROVE  after[k].source = "METRIKA"
  <2>1. DOMAIN after = DOMAIN held \cup DOMAIN totals
    BY <1>4, <1>8
  <2>2. \A n : IFa!OfMetrika(n).source = "METRIKA"
    BY DEF IFa!OfMetrika
  <2>3. CASE k \in DOMAIN totals \/ k \in zero
    BY <1>4, <1>8, <2>1, <2>2, <2>3
  <2>4. CASE k \notin DOMAIN totals /\ k \notin zero
    <3>1. after[k] = held[k] /\ held[k] = IFa!OfMetrika(0)
      BY <1>4, <1>5, <1>8, <2>1, <2>4
    <3> QED BY <2>2, <3>1
  <2> QED BY <2>3, <2>4
<1> QED BY <1>7, <1>8 DEF IFa!SilenceIsZero, after, about, totals

\* Of however many groups, a search query is put to one only if it can belong to no other.
\* (buildResolver, ingestion/search-queries.ts.)
THEOREM QueryHasOneGroup ==
    ASSUME NEW groups, IsFiniteSet(DOMAIN groups), NEW row
    PROVE  IFa!QueryIsPlaced(row, groups)
<1> DEFINE live == {g \in DOMAIN groups : ~groups[g].archived}
           found == IFa!ResolveAny(row, groups)
<1>1. found = IF row.group # IFa!None THEN {g \in live : groups[g].external = row.group}
              ELSE {g \in live : groups[g].campaign = row.campaign}
  BY DEF IFa!ResolveAny
<1>2. IsFiniteSet(found)
  BY <1>1, FS_Subset
<1> HIDE DEF found
<1>3. SUFFICES ASSUME NEW g \in IFa!Resolve(row, groups)
               PROVE  /\ ~groups[g].archived
                      /\ IF row.group # IFa!None THEN groups[g].external = row.group
                         ELSE \A h \in DOMAIN groups :
                                (groups[h].campaign = row.campaign /\ ~groups[h].archived) => h = g
  BY DEF IFa!QueryIsPlaced
<1>4. g \in found /\ Cardinality(found) = 1
  BY DEF IFa!Resolve, IFa!Cardinality, Cardinality, found
<1>5. \A h \in found : h = g
  BY <1>2, <1>4, FS_Singleton
<1> QED BY <1>1, <1>4, <1>5

\* What is known of the limiter after the first n requests: what is sent is paced, and the
\* moment that is remembered is that of the last one.
Sendings == [at: Nat, exhausted: Nat]
Paced(sent, spacing) ==
    \A i \in DOMAIN sent :
        IF sent[i].exhausted > 0 THEN sent[i].at % sent[i].exhausted = 0
        ELSE i > 1 => sent[i].at - sent[i - 1].at >= spacing
Limiter(moment, last, sent) == [clock |-> moment, last |-> last, sent |-> sent]
IsPaced(acc, spacing) ==
    /\ Paced(acc.sent, spacing)
    /\ (acc.last = -1) <=> (acc.sent = <<>>)
    /\ acc.sent # <<>> => acc.last = acc.sent[Len(acc.sent)].at /\ acc.last <= acc.clock
Limiters(spacing) == {acc \in [clock: Nat, last: Nat \cup {-1}, sent: Seq(Sendings)] : IsPaced(acc, spacing)}

LEMMA WindowBegins ==
    ASSUME NEW now \in Nat, NEW window \in Nat, window > 0
    PROVE  /\ CF!Boundary(now, window) \in Nat
           /\ (now + CF!Boundary(now, window)) % window = 0
<1> DEFINE q == now \div window
           r == now % window
<1>1. q \in Nat /\ r \in 0 .. window - 1 /\ now = window * q + r
  OBVIOUS
<1>2. CF!Boundary(now, window) = window - r
  BY DEF CF!Boundary
<1> HIDE DEF q, r
<1>3. now + (window - r) = window * (q + 1)
  BY <1>1
<1>4. \A n \in Nat : (window * n) % window = 0
  OBVIOUS
<1> QED BY <1>1, <1>2, <1>3, <1>4

LEMMA SendingLogged ==
    ASSUME NEW moment, NEW last, NEW sent, NEW time, NEW now, NEW delay, NEW exhausted
    PROVE  CF!LastAtSending(Limiter(moment, last, sent), now, delay, exhausted) =
             Limiter(now + delay, now + delay, Append(sent, [at |-> now + delay, exhausted |-> exhausted]))
<1> DEFINE more == Append(sent, [at |-> now + delay, exhausted |-> exhausted])
           acc == Limiter(moment, last, sent)
<1>1. CF!SendAt(acc, now + delay, exhausted) = Limiter(now + delay, last, more)
  <2>1. CF!SendAt(acc, now + delay, exhausted) =
           [acc EXCEPT !.clock = now + delay, !.sent = Append(acc.sent, [at |-> now + delay, exhausted |-> exhausted])]
    BY Zenon DEF CF!SendAt
  <2>2. acc.sent = sent
    BY DEF Limiter
  <2>3. ASSUME NEW x, NEW y PROVE [acc EXCEPT !.clock = x, !.sent = y] = Limiter(x, last, y)
    <3>1. [Limiter(moment, last, sent) EXCEPT !.clock = x] = Limiter(x, last, sent)
      BY DEF Limiter
    <3>2. [Limiter(x, last, sent) EXCEPT !.sent = y] = Limiter(x, last, y)
      BY DEF Limiter
    <3> QED BY <3>1, <3>2
  <2> HIDE DEF acc
  <2> QED BY <2>1, <2>2, <2>3
<1> HIDE DEF more
<1>2. [Limiter(now + delay, last, more) EXCEPT !.last = now + delay] = Limiter(now + delay, now + delay, more)
  BY DEF Limiter
<1> QED BY <1>1, <1>2 DEF CF!LastAtSending, more

LEMMA MaxOfMoments == ASSUME NEW a \in Nat, NEW b \in Nat PROVE CF!Max({a, b}) = IF a <= b THEN b ELSE a
<1>1. CF!Max({a, b}) = CHOOSE x \in {a, b} : \A y \in {a, b} : x >= y
  BY DEF CF!Max
<1> QED BY <1>1

LEMMA AcquirePaced ==
    ASSUME NEW spacing \in Nat, NEW maxWait \in Nat, NEW acc \in Limiters(spacing), NEW arrival \in Sendings
    PROVE  CF!Acquire(acc, arrival, spacing, maxWait) \in Limiters(spacing)
<1> DEFINE now == CF!Max({acc.clock, arrival.at})
           w == arrival.exhausted
           delay == CF!ThrottleDelay(now, acc.last, spacing, w)
           next == CF!Acquire(acc, arrival, spacing, maxWait)
<1>1. /\ acc.clock \in Nat /\ acc.last \in Nat \cup {-1} /\ acc.sent \in Seq(Sendings)
      /\ acc = Limiter(acc.clock, acc.last, acc.sent)
      /\ Paced(acc.sent, spacing) /\ (acc.last = -1 <=> acc.sent = <<>>)
      /\ acc.sent # <<>> => acc.last = acc.sent[Len(acc.sent)].at /\ acc.last <= acc.clock
      /\ arrival.at \in Nat /\ w \in Nat
  BY DEF Limiters, IsPaced, Limiter, Sendings
<1>2. now \in Nat /\ now >= acc.clock
  BY <1>1, MaxOfMoments
<1> SUFFICES next \in Limiters(spacing)
  OBVIOUS
<1>3. next = IF delay > maxWait THEN [acc EXCEPT !.clock = now]
             ELSE CF!LastAtSending(acc, now, delay, w)
  BY DEF CF!Acquire
<1> HIDE DEF now, next
<1>4. CASE delay > maxWait
  <2>1. next = Limiter(now, acc.last, acc.sent)
    <3>1. [acc EXCEPT !.clock = now] = Limiter(now, acc.last, acc.sent)
      <4>1. PICK c, l, s : acc = Limiter(c, l, s) /\ acc.last = l /\ acc.sent = s
        BY <1>1
      <4>2. [Limiter(c, l, s) EXCEPT !.clock = now] = Limiter(now, l, s)
        BY DEF Limiter
      <4> QED BY <4>1, <4>2
    <3> QED BY <1>3, <1>4, <3>1
  <2>2. acc.sent # <<>> => acc.last <= now
    <3>1. acc.sent # <<>> => acc.last \in Nat
      BY <1>1
    <3> QED BY <1>1, <1>2, <3>1
  <2>3. /\ next.clock = now /\ next.last = acc.last /\ next.sent = acc.sent
        /\ next \in [clock: Nat, last: Nat \cup {-1}, sent: Seq(Sendings)]
    BY <1>1, <1>2, <2>1 DEF Limiter
  <2>4. IsPaced(next, spacing)
    BY <1>1, <2>2, <2>3 DEF IsPaced
  <2> QED BY <2>3, <2>4 DEF Limiters
<1>5. CASE ~(delay > maxWait)
  <2> DEFINE time == now + delay
             item == [at |-> time, exhausted |-> w]
             more == Append(acc.sent, item)
  <2>1. next = Limiter(time, time, more)
    <3>1. PICK c, l, s : acc = Limiter(c, l, s) /\ acc.last = l /\ acc.sent = s
      BY <1>1
    <3> HIDE DEF delay
    <3> QED BY <1>3, <1>5, <3>1, SendingLogged
  <2>2. delay \in Nat
    <3>1. CASE w > 0
      BY <1>1, <1>2, <3>1, WindowBegins DEF CF!ThrottleDelay
    <3>2. CASE ~(w > 0)
      BY <1>1, <1>2, <3>2 DEF CF!ThrottleDelay
    <3> QED BY <3>1, <3>2
  <2>3. IF w > 0 THEN time % w = 0 ELSE acc.sent # <<>> => time - acc.sent[Len(acc.sent)].at >= spacing
    <3>1. CASE w > 0
      BY <1>1, <1>2, <3>1, WindowBegins DEF CF!ThrottleDelay
    <3>2. CASE ~(w > 0) /\ acc.sent # <<>>
      <4>1. acc.last \in Nat /\ acc.last <= now /\ acc.last = acc.sent[Len(acc.sent)].at
        BY <1>1, <1>2, <3>2
      <4>2. delay = IF now - acc.last >= spacing THEN 0 ELSE spacing - (now - acc.last)
        BY <1>1, <3>2, <4>1 DEF CF!ThrottleDelay
      <4> QED BY <1>2, <3>2, <4>1, <4>2
    <3> QED BY <3>1, <3>2
  <2> HIDE DEF delay
  <2>4. time \in Nat /\ item \in Sendings /\ item.at = time /\ item.exhausted = w
    BY <1>1, <1>2, <2>2 DEF Sendings
  <2> HIDE DEF time, item
  <2>5. /\ more \in Seq(Sendings) /\ more # <<>> /\ Len(more) = Len(acc.sent) + 1 /\ Len(acc.sent) \in Nat
        /\ more[Len(more)] = item /\ DOMAIN more = 1 .. Len(acc.sent) + 1 /\ DOMAIN acc.sent = 1 .. Len(acc.sent)
        /\ \A i \in 1 .. Len(acc.sent) : more[i] = acc.sent[i]
        /\ acc.sent # <<>> <=> Len(acc.sent) # 0
    BY <1>1, <2>4
  <2> HIDE DEF more
  <2>6. Paced(more, spacing)
    <3> SUFFICES ASSUME NEW i \in 1 .. Len(acc.sent) + 1
                 PROVE  IF more[i].exhausted > 0 THEN more[i].at % more[i].exhausted = 0
                        ELSE i > 1 => more[i].at - more[i - 1].at >= spacing
      BY <2>5 DEF Paced
    <3>1. CASE i = Len(acc.sent) + 1
      <4>1. more[i] = item
        BY <2>5, <3>1
      <4>2. i > 1 => acc.sent # <<>> /\ more[i - 1] = acc.sent[Len(acc.sent)]
        BY <2>5, <3>1
      <4> QED BY <2>3, <2>4, <4>1, <4>2
    <3>2. CASE i # Len(acc.sent) + 1
      <4>1. i \in 1 .. Len(acc.sent) /\ more[i] = acc.sent[i]
        BY <2>5, <3>2
      <4>2. i > 1 => more[i - 1] = acc.sent[i - 1]
        BY <2>5, <4>1
      <4> QED BY <1>1, <2>5, <4>1, <4>2 DEF Paced
    <3> QED BY <3>1, <3>2
  <2>7. /\ next.clock = time /\ next.last = time /\ next.sent = more
        /\ next \in [clock: Nat, last: Nat \cup {-1}, sent: Seq(Sendings)]
    BY <2>1, <2>4, <2>5 DEF Limiter
  <2>8. next.last # -1 /\ next.sent # <<>> /\ next.last = next.sent[Len(next.sent)].at /\ next.last <= next.clock
    BY <2>4, <2>5, <2>7
  <2>9. Paced(next.sent, spacing)
    BY <2>6, <2>7
  <2>10. IsPaced(next, spacing)
    BY <2>8, <2>9 DEF IsPaced
  <2> QED BY <2>7, <2>10 DEF Limiters
<1> QED BY <1>4, <1>5

\* However many requests come and however often VK says that a window is used up, they go out
\* one after another: with the spacing of the limit between them, or at the beginning of the
\* next window; one that would wait too long does not go out at all.
\* (RateLimitGovernor.acquire, clients/vk-ads/http.ts.)
THEOREM PacedAlways ==
    ASSUME NEW arrivals \in Seq(Sendings), NEW spacing \in Nat, NEW maxWait \in Nat
    PROVE  CF!RequestsArePaced(arrivals, spacing, maxWait)
<1> DEFINE N == Len(arrivals)
           S == Limiters(spacing)
           begin == Limiter(0, -1, <<>>)
           Then(acc, a) == CF!Acquire(acc, a, spacing, maxWait)
           Is(h) == h = [T \in SUBSET DOMAIN arrivals |->
                           IF T = {} THEN begin ELSE Then(h[T \ {Max(T)}], arrivals[Max(T)])]
           G == [p \in S \X (1 .. N) |-> Then(p[1], arrivals[p[2]])]
           fold == CHOOSE h : Is(h)
<1>1. CF!SentAt(arrivals, spacing, maxWait) = fold[DOMAIN arrivals].sent
  BY DEF CF!SentAt, CF!FoldLeft, CF!MapThenFoldSet, CF!Max, Max, Limiter
<1>2. N \in Nat /\ DOMAIN arrivals = 1 .. N /\ \A i \in 1 .. N : arrivals[i] \in Sendings
  OBVIOUS
<1>3. begin \in S
  BY DEF Limiters, IsPaced, Limiter, Paced
<1>4. \A acc \in S, i \in 1 .. N : Then(acc, arrivals[i]) \in S
  BY <1>2, AcquirePaced
<1> HIDE DEF Then, S, begin
<1>5. \A acc \in S, i \in 1 .. N : G[<<acc, i>>] = Then(acc, arrivals[i]) /\ G[<<acc, i>>] \in S
  BY <1>4
<1> HIDE DEF G, N
<1>6. PICK h : FoldsWith(h, N, S, begin, G)
  BY <1>2, <1>3, <1>5, FoldExists
<1>7. Is(h)
  <2>1. \A T \in SUBSET (1 .. N) : T # {} => Max(T) \in 1 .. N /\ T \ {Max(T)} \in SUBSET (1 .. N)
    BY <1>2, LargestOf
  <2>2. \A T \in SUBSET (1 .. N) : T # {} => h[T] = Then(h[T \ {Max(T)}], arrivals[Max(T)])
    BY <1>5, <1>6, <2>1 DEF FoldsWith
  <2> QED BY <1>2, <1>6, <2>2 DEF FoldsWith
<1>8. Is(fold)
  BY <1>7
<1> HIDE DEF fold
<1>9. fold[{}] \in S
  BY <1>3, <1>8
<1>10. ASSUME NEW n \in 1 .. N, fold[1 .. n - 1] \in S PROVE fold[1 .. n] \in S
  <2>1. n \in Nat /\ n # 0 /\ 1 .. n \in SUBSET DOMAIN arrivals
    BY <1>2
  <2>2. 1 .. n # {} /\ Max(1 .. n) = n /\ (1 .. n) \ {n} = 1 .. n - 1
    BY <2>1, UpTo
  <2>3. fold[1 .. n] = Then(fold[1 .. n - 1], arrivals[n])
    BY <1>8, <2>1, <2>2
  <2> QED BY <1>2, <1>4, <1>10, <2>3
<1> HIDE DEF Is
<1>11. fold[1 .. N] \in S
  BY <1>2, <1>9, <1>10, FoldStays
<1>12. Paced(fold[1 .. N].sent, spacing)
  BY <1>11 DEF S, Limiters, IsPaced
<1> QED BY <1>1, <1>2, <1>12 DEF CF!RequestsArePaced, Paced
=============================================================================
