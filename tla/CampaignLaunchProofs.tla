------------------------ MODULE CampaignLaunchProofs ------------------------
(***************************************************************************)
(* What holds of CampaignLaunch for any number of launches, appliers,      *)
(* cards, slots, edits and faults: type correctness, and that a campaign   *)
(* which may exist is never forgotten nor created twice.                   *)
(***************************************************************************)
EXTENDS CampaignLaunch, FiniteSetTheorems, FunctionTheorems, TLAPS

-----------------------------------------------------------------------------
(* The four parts of TypeOK under the steps the actions are built from. *)

LEMMA RowsSame == ASSUME RowsOK, UNCHANGED <<brief, latest, key, cardVars>> PROVE RowsOK'
  BY DEF RowsOK, cardVars

LEMMA OutsideSame == ASSUME OutsideOK, UNCHANGED <<cabinetVars, askVars, faults>> PROVE OutsideOK'
  BY DEF OutsideOK, cabinetVars, askVars

LEMMA LaunchesSame == ASSUME LaunchesOK, UNCHANGED launchVars PROVE LaunchesOK'
  BY DEF LaunchesOK, launchVars

\* A process goes on with its card while no card disappears.
LEMMA AppliersSame ==
    ASSUME AppliersOK, UNCHANGED applyVars,
           \A c \in Cards : decision[c] # "none" => decision'[c] # "none"
    PROVE  AppliersOK'
  BY DEF AppliersOK, applyVars

LEMMA EndLaunchOK ==
    ASSUME LaunchesOK, NEW l \in Launches, EndLaunch(l)
    PROVE  LaunchesOK'
<1>1. /\ stage' \in [Launches -> {"idle", "live", "created", "latest", "brief", "build", "close", "submit"}]
      /\ fresh' \in [Launches -> BOOLEAN]
      /\ seen' \in [Launches -> Nat]
  BY DEF LaunchesOK, EndLaunch
<1>2. /\ taken' \in [Launches -> SUBSET Addresses]
      /\ toClose' \in [Launches -> SUBSET Cards]
      /\ plan' \in [Launches -> Plans \cup {NoPlan}]
      /\ positions' \in [Launches -> SUBSET Slots]
  BY DEF LaunchesOK, EndLaunch
<1>3. \A k \in Launches : stage'[k] \in {"build", "close", "submit"} => plan'[k] \in Plans
  BY DEF LaunchesOK, EndLaunch
<1> QED BY <1>1, <1>2, <1>3 DEF LaunchesOK

LEMMA FaultOK == ASSUME faults \in Nat, Fault PROVE faults' \in Nat
  BY DEF Fault

-----------------------------------------------------------------------------
(* Type correctness, one lemma per group of actions. *)

LEMMA TypeInit == Init => TypeOK
<1> SUFFICES ASSUME Init PROVE TypeOK
  OBVIOUS
<1>1. RowsOK  BY DEF Init, RowsOK, Live
<1>2. OutsideOK  BY DEF Init, OutsideOK
<1>3. LaunchesOK  BY DEF Init, LaunchesOK
<1>4. AppliersOK  BY DEF Init, AppliersOK
<1> QED BY <1>1, <1>2, <1>3, <1>4 DEF TypeOK

\* The steps of a launch that write nothing but its own state.
LEMMA TypeReading ==
    ASSUME TypeOK, NEW l \in Launches,
           Ask(l) \/ ReadLive(l) \/ ReadCreated(l) \/ ReadLatest(l) \/ LoadBrief(l) \/ LaunchCrash(l)
    PROVE  TypeOK'
<1> USE DEF TypeOK
<1>1. CASE Ask(l)
  <2>1. LaunchesOK'
    BY <1>1 DEF Ask, LaunchesOK, RowsOK
  <2>2. OutsideOK'
    BY <1>1 DEF Ask, OutsideOK, cabinetVars
  <2> QED BY <1>1, <2>1, <2>2, RowsSame, AppliersSame DEF Ask, cardVars
<1>2. CASE ReadLive(l)
  <2>1. LaunchesOK'
    <3>1. CASE EndLaunch(l)  BY <3>1, EndLaunchOK
    <3>2. CASE /\ toClose' = [toClose EXCEPT ![l] = {c \in Cards : decision[c] \in Live}]
               /\ stage' = [stage EXCEPT ![l] = "created"]
               /\ UNCHANGED <<fresh, seen, taken, plan, positions>>
      BY <3>2 DEF LaunchesOK
    <3> QED BY <1>2, <3>1, <3>2 DEF ReadLive
  <2> QED BY <1>2, <2>1, RowsSame, OutsideSame, AppliersSame DEF ReadLive, cardVars
<1>3. CASE ReadCreated(l)
  <2>1. LaunchesOK'
    <3>1. CASE EndLaunch(l)  BY <3>1, EndLaunchOK
    <3>2. CASE ~EndLaunch(l)
      <4> DEFINE found == {k \in Addresses : key[k] # "free"}
      <4>1. /\ taken' = [taken EXCEPT ![l] = found]
            /\ UNCHANGED <<fresh, seen, plan, positions>>
        BY <1>3, <3>2 DEF ReadCreated
      <4>2. /\ toClose' = [toClose EXCEPT ![l] = IF SlotsOf(found) = Slots THEN {} ELSE @]
            /\ stage' = [stage EXCEPT ![l] = IF fresh[l] THEN "brief" ELSE "latest"]
        BY <1>3, <3>2 DEF ReadCreated
      <4>3. taken' \in [Launches -> SUBSET Addresses] /\ toClose' \in [Launches -> SUBSET Cards]
        BY <4>1, <4>2 DEF LaunchesOK
      <4> QED BY <4>1, <4>2, <4>3 DEF LaunchesOK
    <3> QED BY <3>1, <3>2
  <2> QED BY <1>3, <2>1, RowsSame, OutsideSame, AppliersSame DEF ReadCreated, cardVars
<1>4. CASE ReadLatest(l)
  <2>1. LaunchesOK'
    <3>1. CASE Reusable(latest, seen[l])
      <4>1. latest \in Plans
        BY <3>1 DEF Reusable, RowsOK
      <4> QED BY <1>4, <3>1, <4>1 DEF ReadLatest, LaunchesOK
    <3>2. CASE ~Reusable(latest, seen[l])
      BY <1>4, <3>2 DEF ReadLatest, LaunchesOK
    <3> QED BY <3>1, <3>2
  <2> QED BY <1>4, <2>1, RowsSame, OutsideSame, AppliersSame DEF ReadLatest, cardVars
<1>5. CASE LoadBrief(l)
  <2> DEFINE p == [brief |-> brief, builtAt |-> brief, generation |-> [s \in Slots |-> Generation(l, s)]]
  <2>1. [s \in Slots |-> Generation(l, s)] \in [Slots -> Generations]
    BY <1>5 DEF LoadBrief
  <2>2. p \in Plans
    BY <2>1 DEF Plans, RowsOK
  <2>3. plan' = [plan EXCEPT ![l] = p] /\ stage' = [stage EXCEPT ![l] = "build"]
    BY <1>5 DEF LoadBrief
  <2>4. LaunchesOK'
    <3> HIDE DEF p
    <3> QED BY <1>5, <2>2, <2>3 DEF LoadBrief, LaunchesOK
  <2> QED BY <1>5, <2>4, RowsSame, OutsideSame, AppliersSame DEF LoadBrief, cardVars
<1>6. CASE LaunchCrash(l)
  <2>1. LaunchesOK'
    BY <1>6, EndLaunchOK DEF LaunchCrash
  <2>2. OutsideOK'
    BY <1>6, FaultOK DEF LaunchCrash, OutsideOK, cabinetVars, askVars
  <2> QED BY <1>6, <2>1, <2>2, RowsSame, AppliersSame DEF LaunchCrash, cardVars
<1> QED BY <1>1, <1>2, <1>3, <1>4, <1>5, <1>6

LEMMA TypeSavePlan ==
    ASSUME TypeOK, NEW l \in Launches, SavePlan(l)
    PROVE  TypeOK'
<1> USE DEF TypeOK
<1> DEFINE built == [plan[l] EXCEPT !.builtAt = brief]
<1>1. built \in Plans
  <2>1. plan[l] \in Plans
    BY DEF SavePlan, LaunchesOK
  <2> QED BY <2>1 DEF Plans, RowsOK
<1>2. LaunchesOK' /\ RowsOK'
  <2>1. CASE EndLaunch(l) /\ UNCHANGED latest
    BY <2>1, EndLaunchOK, RowsSame DEF SavePlan
  <2>2. CASE ~(EndLaunch(l) /\ UNCHANGED latest)
    <3>1. /\ latest' = built
          /\ plan' = [plan EXCEPT ![l] = built]
          /\ stage' = [stage EXCEPT ![l] = "close"]
          /\ positions' = [positions EXCEPT ![l] =
                             IF fresh[l] THEN Slots ELSE Slots \ SlotsOf(taken[l])]
          /\ UNCHANGED <<fresh, seen, taken, toClose>>
      BY <2>2 DEF SavePlan
    <3> HIDE DEF built
    <3>2. RowsOK'
      BY <1>1, <3>1 DEF SavePlan, RowsOK, cardVars
    <3>3. positions' \in [Launches -> SUBSET Slots]
      BY <3>1 DEF LaunchesOK
    <3>4. LaunchesOK'
      BY <1>1, <3>1, <3>3 DEF LaunchesOK
    <3> QED BY <3>2, <3>4
  <2> QED BY <2>1, <2>2
<1> QED BY <1>2, OutsideSame, AppliersSame DEF SavePlan, cardVars

LEMMA TypeSupersede ==
    ASSUME TypeOK, NEW l \in Launches, Supersede(l)
    PROVE  TypeOK'
<1> USE DEF TypeOK
<1>1. CASE UNCHANGED <<toClose, decision, error>> /\ stage' = [stage EXCEPT ![l] = "submit"]
  <2>1. LaunchesOK'
    BY <1>1 DEF Supersede, LaunchesOK
  <2> QED BY <1>1, <2>1, RowsSame, OutsideSame, AppliersSame DEF Supersede, cardVars
<1>2. ASSUME NEW c \in toClose[l], toClose' = [toClose EXCEPT ![l] = @ \ {c}], UNCHANGED stage,
             \/ decision[c] \in Undecided /\ Over(c)
             \/ decision[c] \notin Undecided /\ UNCHANGED <<decision, error>>
      PROVE  TypeOK'
  <2>1. c \in Cards
    BY DEF LaunchesOK
  <2>2. LaunchesOK'
    BY <1>2 DEF Supersede, LaunchesOK
  <2>3. RowsOK'
    BY <1>2, <2>1 DEF Supersede, Undecided, Over, RowsOK
  <2>4. AppliersOK'
    BY <1>2, <2>1, AppliersSame DEF Supersede, Undecided, Over, RowsOK
  <2> QED BY <2>2, <2>3, <2>4, OutsideSame DEF Supersede
<1> QED BY <1>1, <1>2 DEF Supersede

LEMMA TypeSubmit ==
    ASSUME TypeOK, NEW l \in Launches, Submit(l)
    PROVE  TypeOK'
<1> USE DEF TypeOK
<1>1. CASE EndLaunch(l) /\ UNCHANGED <<decision, address, error>>
  BY <1>1, EndLaunchOK, RowsSame, OutsideSame, AppliersSame DEF Submit, cardVars
<1>2. ASSUME NEW s \in positions[l], NEW c \in Cards, NEW u \in BOOLEAN,
             decision[c] = "none",
             decision' = [decision EXCEPT ![c] = "pending"],
             address' = [address EXCEPT ![c] = <<s, plan[l].generation[s]>>],
             error' = [error EXCEPT ![c] = u],
             positions' = [positions EXCEPT ![l] = @ \ {s}],
             UNCHANGED <<stage, fresh, seen, taken, toClose, plan>>
      PROVE  TypeOK'
  <2>1. s \in Slots /\ plan[l] \in Plans
    BY DEF Submit, LaunchesOK
  <2>2. <<s, plan[l].generation[s]>> \in Addresses
    BY <2>1 DEF Plans, Addresses
  <2>3. LaunchesOK'
    BY <1>2 DEF LaunchesOK
  <2>4. RowsOK'
    BY <1>2, <2>2 DEF Submit, RowsOK, Live
  <2>5. AppliersOK'
    BY <1>2, AppliersSame DEF Submit, RowsOK
  <2> QED BY <2>3, <2>4, <2>5, OutsideSame DEF Submit
<1> QED BY <1>1, <1>2 DEF Submit

\* The steps of a card.
LEMMA TypeCard ==
    ASSUME TypeOK, NEW c \in Cards,
           Press(c) \/ Close(c) \/ Overdue(c) \/ MarkStuck(c) \/ \E w \in Appliers : Start(w, c)
    PROVE  TypeOK'
<1> USE DEF TypeOK
<1>1. CASE Press(c) \/ Close(c) \/ Overdue(c) \/ MarkStuck(c)
  <2>1. RowsOK'
    BY <1>1 DEF Press, Close, Overdue, MarkStuck, Undecided, Over, RowsOK, Live
  <2>2. AppliersOK'
    BY <1>1, AppliersSame DEF Press, Close, Overdue, MarkStuck, Undecided, Over, RowsOK
  <2> QED BY <1>1, <2>1, <2>2, OutsideSame, LaunchesSame DEF Press, Close, Overdue, MarkStuck
<1>2. ASSUME NEW w \in Appliers, Start(w, c) PROVE TypeOK'
  <2>1. RowsOK'
    BY <1>2 DEF Start, RowsOK, Live
  <2>2. AppliersOK'
    BY <1>2 DEF Start, RowsOK, AppliersOK
  <2> QED BY <1>2, <2>1, <2>2, OutsideSame, LaunchesSame DEF Start
<1> QED BY <1>1, <1>2

LEMMA CardOverOK ==
    ASSUME TypeOK, NEW w \in Appliers, at[w] # "idle",
           saysApplied' \in [Cards -> BOOLEAN], Over(job[w]), PutDown(w), UNCHANGED address,
           UNCHANGED <<brief, latest>>, key' \in [Addresses -> {"free", "pending", "done"}]
    PROVE  RowsOK' /\ AppliersOK'
<1> USE DEF TypeOK
<1>1. job[w] \in Cards /\ decision[job[w]] # "none"
  BY DEF AppliersOK
<1>2. RowsOK'
  BY <1>1 DEF Over, RowsOK
<1>3. AppliersOK'
  BY <1>1 DEF Over, PutDown, RowsOK, AppliersOK
<1> QED BY <1>2, <1>3

LEMMA ProceedOK ==
    ASSUME TypeOK, NEW w \in Appliers, at[w] # "idle", NEW l \in {"create", "release", "complete", "populate"},
           Proceed(w, l), UNCHANGED <<brief, latest>>,
           key' \in [Addresses -> {"free", "pending", "done"}]
    PROVE  RowsOK' /\ AppliersOK'
<1> USE DEF TypeOK
<1>1. RowsOK'
  BY DEF Proceed, cardVars, RowsOK
<1>2. AppliersOK'
  BY DEF Proceed, cardVars, RowsOK, AppliersOK
<1> QED BY <1>1, <1>2

LEMMA TypeCreating ==
    ASSUME TypeOK, NEW w \in Appliers, Creating(w)
    PROVE  TypeOK'
<1> USE DEF TypeOK
<1> DEFINE k == address[job[w]]
<1>0. at[w] # "idle" /\ job[w] \in Cards /\ k \in Addresses
  BY DEF Creating, Reserve, Create, Release, Complete, Populate, ApplyCrash, AppliersOK, RowsOK
<1>1. CASE Reserve(w)
  <2>1. key' \in [Addresses -> {"free", "pending", "done"}] /\ faults' \in Nat
    BY <1>0, <1>1 DEF Reserve, RowsOK, OutsideOK, Fault
  <2>2. RowsOK' /\ AppliersOK'
    BY <1>0, <1>1, <2>1, CardOverOK, ProceedOK DEF Reserve, Settle, RowsOK
  <2>3. OutsideOK'
    BY <1>1, <2>1 DEF Reserve, OutsideOK, cabinetVars, askVars
  <2> QED BY <1>1, <2>2, <2>3, LaunchesSame DEF Reserve
<1>2. CASE Create(w)
  <2>1. campaigns' \in [Addresses -> Nat] /\ faults' \in Nat
    BY <1>0, <1>2 DEF Create, OutsideOK, Fault
  <2>2. RowsOK' /\ AppliersOK'
    BY <1>0, <1>2, CardOverOK, ProceedOK DEF Create, Settle, RowsOK
  <2>3. OutsideOK'
    BY <1>2, <2>1 DEF Create, OutsideOK, askVars
  <2> QED BY <1>2, <2>2, <2>3, LaunchesSame DEF Create
<1>3. CASE Release(w)
  <2>1. key' \in [Addresses -> {"free", "pending", "done"}] /\ faults' \in Nat
    BY <1>0, <1>3 DEF Release, RowsOK, OutsideOK, Fault
  <2>2. RowsOK' /\ AppliersOK'
    BY <1>0, <1>3, <2>1, CardOverOK DEF Release, Settle, RowsOK
  <2>3. OutsideOK'
    BY <1>3, <2>1 DEF Release, OutsideOK, cabinetVars, askVars
  <2> QED BY <1>3, <2>2, <2>3, LaunchesSame DEF Release
<1>4. CASE Complete(w)
  <2>1. key' \in [Addresses -> {"free", "pending", "done"}] /\ faults' \in Nat
    BY <1>0, <1>4 DEF Complete, RowsOK, OutsideOK, Fault
  <2>2. RowsOK' /\ AppliersOK'
    BY <1>0, <1>4, <2>1, ProceedOK DEF Complete
  <2>3. OutsideOK'
    BY <1>4, <2>1 DEF Complete, OutsideOK, cabinetVars, askVars
  <2> QED BY <1>4, <2>2, <2>3, LaunchesSame DEF Complete
<1>5. CASE Populate(w)
  <2>1. OutsideOK'
    BY <1>0, <1>5 DEF Populate, OutsideOK, askVars
  <2>2. RowsOK' /\ AppliersOK'
    BY <1>0, <1>5, CardOverOK DEF Populate, RowsOK
  <2> QED BY <1>5, <2>1, <2>2, LaunchesSame DEF Populate
<1>6. CASE ApplyCrash(w)
  <2>1. OutsideOK'
    BY <1>6, FaultOK DEF ApplyCrash, OutsideOK, cabinetVars, askVars
  <2>2. AppliersOK'
    BY <1>6 DEF ApplyCrash, PutDown, AppliersOK, cardVars
  <2> QED BY <1>6, <2>1, <2>2, RowsSame, LaunchesSame DEF ApplyCrash, cardVars
<1> QED BY <1>1, <1>2, <1>3, <1>4, <1>5, <1>6 DEF Creating

LEMMA TypeStep == TypeOK /\ [Next]_vars => TypeOK'
<1> SUFFICES ASSUME TypeOK, [Next]_vars PROVE TypeOK'
  OBVIOUS
<1>1. ASSUME NEW l \in Launches, Launching(l) PROVE TypeOK'
  BY <1>1, TypeReading, TypeSavePlan, TypeSupersede, TypeSubmit DEF Launching
<1>2. ASSUME NEW c \in Cards, Press(c) \/ Close(c) \/ Overdue(c) \/ MarkStuck(c) PROVE TypeOK'
  BY <1>2, TypeCard
<1>3. ASSUME NEW w \in Appliers, NEW c \in Cards, Start(w, c) PROVE TypeOK'
  BY <1>3, TypeCard
<1>4. ASSUME NEW w \in Appliers, Creating(w) PROVE TypeOK'
  BY <1>4, TypeCreating
<1>5. CASE EditBrief
  <2> USE DEF TypeOK
  <2>1. RowsOK'
    BY <1>5 DEF EditBrief, RowsOK, cardVars
  <2> QED BY <1>5, <2>1, OutsideSame, LaunchesSame, AppliersSame DEF EditBrief, cardVars
<1>6. CASE UNCHANGED vars
  BY <1>6, RowsSame, OutsideSame, LaunchesSame, AppliersSame DEF TypeOK, vars, cardVars
<1> QED BY <1>1, <1>2, <1>3, <1>4, <1>5, <1>6 DEF Next

\* Every variable of the launches and the applications keeps its type: cards are
\* issued from a plan at hand, and a campaign is created for a card with an address.
THEOREM TypeCorrect == Spec => []TypeOK
  BY TypeInit, TypeStep, PTL DEF Spec

-----------------------------------------------------------------------------
(* The key of an address.  Between its insert and its completion or release  *)
(* one process owns it, and until the cabinet answered there is nothing      *)
(* under its address.                                                        *)

Owning(w) == at[w] \in {"create", "release", "complete"}

OwnedIsPending == \A w \in Appliers : Owning(w) => key[address[job[w]]] = "pending"

NothingThereYet ==
    \A w \in Appliers : at[w] \in {"create", "release"} => campaigns[address[job[w]]] = 0

OneOwner ==
    \A v, w \in Appliers : Owning(v) /\ Owning(w) /\ v # w => address[job[v]] # address[job[w]]

OnePerAddress == \A k \in Addresses : campaigns[k] <= 1

KeyInv ==
    /\ CreatedIsRemembered
    /\ OwnedIsPending
    /\ NothingThereYet
    /\ OneOwner
    /\ OnePerAddress

(* The generations given out.  A launch with --new that has not planned yet   *)
(* will give one out: with it, no generation exceeds the asks for one more.   *)

Waiting ==
    {l \in Launches : fresh[l] /\ stage[l] \in {"live", "created", "latest", "brief"}}

Within(g) == g + Cardinality(Waiting) <= freshAsks

GenerationInv ==
    /\ IsFiniteSet(Waiting)
    /\ Within(0)
    /\ \A l \in Launches : stage[l] = "idle" => ~fresh[l]
    /\ \A k \in Addresses : key[k] # "free" => Within(k[2])
    /\ \A c \in Cards : decision[c] # "none" => Within(address[c][2])
    /\ latest # NoPlan => \A s \in Slots : Within(latest.generation[s])
    /\ \A l \in Launches : plan[l] # NoPlan => \A s \in Slots : Within(plan[l].generation[s])
    /\ \A l \in Launches : \A k \in taken[l] : Within(k[2])

-----------------------------------------------------------------------------
(* The key's invariant *)

LEMMA KeyInit == Init => KeyInv
  BY DEF Init, KeyInv, CreatedIsRemembered, OwnedIsPending, NothingThereYet, OneOwner,
         OnePerAddress, Owning

\* A step that leaves the keys, the cabinet and the owners alone.
LEMMA KeySame ==
    ASSUME TypeOK, KeyInv, UNCHANGED <<key, campaigns>>,
           \A w \in Appliers : Owning(w)' => Owning(w) /\ at'[w] = at[w] /\ job'[w] = job[w],
           \A c \in Cards : decision[c] # "none" => address'[c] = address[c]
    PROVE  KeyInv'
<1>1. \A w \in Appliers : Owning(w)' => address'[job'[w]] = address[job[w]]
  BY DEF TypeOK, AppliersOK, Owning
<1>2. OwnedIsPending' /\ OneOwner'
  BY <1>1 DEF KeyInv, OwnedIsPending, OneOwner
<1>3. NothingThereYet'
  BY <1>1 DEF KeyInv, NothingThereYet, Owning
<1>4. CreatedIsRemembered' /\ OnePerAddress'
  BY DEF KeyInv, CreatedIsRemembered, OnePerAddress
<1> QED BY <1>2, <1>3, <1>4 DEF KeyInv

LEMMA KeyLaunching ==
    ASSUME TypeOK, KeyInv, NEW l \in Launches, Launching(l)
    PROVE  KeyInv'
<1>1. UNCHANGED <<key, campaigns, at, job>>
  BY DEF Launching, Ask, ReadLive, ReadCreated, ReadLatest, LoadBrief, SavePlan, Supersede, Submit,
         LaunchCrash, cabinetVars, applyVars
<1>2. \A c \in Cards : decision[c] # "none" => address'[c] = address[c]
  <2>1. CASE Submit(l)
    BY <2>1 DEF Submit, TypeOK, RowsOK
  <2>2. CASE ~Submit(l)
    BY <2>2 DEF Launching, Ask, ReadLive, ReadCreated, ReadLatest, LoadBrief, SavePlan, Supersede,
                LaunchCrash, cardVars
  <2> QED BY <2>1, <2>2
<1> QED BY <1>1, <1>2, KeySame DEF Owning

LEMMA KeyCard ==
    ASSUME TypeOK, KeyInv,
           \/ EditBrief
           \/ \E c \in Cards : Press(c) \/ Close(c) \/ Overdue(c) \/ MarkStuck(c)
           \/ \E w \in Appliers, c \in Cards : Start(w, c)
    PROVE  KeyInv'
<1>1. CASE EditBrief
  BY <1>1, KeySame DEF EditBrief, cabinetVars, applyVars, cardVars, Owning
<1>2. CASE \E c \in Cards : Press(c) \/ Close(c) \/ Overdue(c) \/ MarkStuck(c)
  BY <1>2, KeySame DEF Press, Close, Overdue, MarkStuck, cabinetVars, applyVars, Owning
<1>3. ASSUME NEW w \in Appliers, NEW c \in Cards, Start(w, c) PROVE KeyInv'
  <2>1. \A v \in Appliers : Owning(v)' => Owning(v) /\ at'[v] = at[v] /\ job'[v] = job[v]
    BY <1>3 DEF Start, Owning, TypeOK, AppliersOK
  <2> QED BY <1>3, <2>1, KeySame DEF Start, cabinetVars
<1> QED BY <1>1, <1>2, <1>3

LEMMA KeyCreating ==
    ASSUME TypeOK, KeyInv, NEW w \in Appliers, Creating(w)
    PROVE  KeyInv'
<1> DEFINE k == address[job[w]]
<1>0. /\ at[w] # "idle" /\ job[w] \in Cards /\ k \in Addresses
      /\ key \in [Addresses -> {"free", "pending", "done"}]
      /\ campaigns \in [Addresses -> Nat]
  BY DEF Creating, Reserve, Create, Release, Complete, Populate, ApplyCrash, TypeOK, AppliersOK,
         RowsOK, OutsideOK
<1>1. UNCHANGED address
  BY DEF Creating, Reserve, Create, Release, Complete, Populate, ApplyCrash, Settle, Over, PutDown, Proceed,
         cardVars
<1>2. \A v \in Appliers : v # w => at'[v] = at[v] /\ job'[v] = job[v]
  BY DEF Creating, Reserve, Create, Release, Complete, Populate, ApplyCrash, Settle, Over, PutDown, Proceed,
         TypeOK, AppliersOK
<1>3. ASSUME ~Owning(w)', UNCHANGED <<key, campaigns>> PROVE KeyInv'
  <2>1. \A v \in Appliers : Owning(v)' => Owning(v) /\ at'[v] = at[v] /\ job'[v] = job[v]
    BY <1>2, <1>3 DEF Owning
  <2> QED BY <1>1, <1>3, <2>1, KeySame
<1> DEFINE Stays == at'[w] # "idle" => job'[w] = job[w]
<1> HIDE DEF k
<1>4. ASSUME key[k] = "free", key' = [key EXCEPT ![k] = "pending"], UNCHANGED campaigns,
             at[w] = "reserve", at'[w] \in {"idle", "create"}, Stays
      PROVE  KeyInv'
  <2>1. campaigns[k] = 0
    BY <1>0, <1>4 DEF KeyInv, CreatedIsRemembered
  <2>2. \A v \in Appliers : Owning(v) => address[job[v]] # k
    BY <1>4 DEF KeyInv, OwnedIsPending
  <2>3. \A v \in Appliers : Owning(v)' => \/ v = w /\ job'[w] = job[w] /\ at'[w] = "create"
                                          \/ v # w /\ Owning(v) /\ at'[v] = at[v] /\ job'[v] = job[v]
    BY <1>2, <1>4 DEF Owning
  <2>4. OwnedIsPending'
    BY <1>0, <1>1, <1>4, <2>2, <2>3 DEF KeyInv, OwnedIsPending, TypeOK, AppliersOK, RowsOK, k, Owning
  <2>5. NothingThereYet'
    BY <1>1, <1>4, <2>1, <2>3 DEF KeyInv, NothingThereYet, k, Owning
  <2>6. OneOwner'
    BY <1>1, <2>2, <2>3 DEF KeyInv, OneOwner, k
  <2>7. CreatedIsRemembered' /\ OnePerAddress'
    BY <1>0, <1>4 DEF KeyInv, CreatedIsRemembered, OnePerAddress
  <2> QED BY <2>4, <2>5, <2>6, <2>7 DEF KeyInv
<1>5. ASSUME at[w] = "create", UNCHANGED key, Stays, at'[w] \in {"idle", "complete"},
             campaigns' = [campaigns EXCEPT ![k] = @ + 1]
      PROVE  KeyInv'
  <2>1. campaigns[k] = 0 /\ key[k] = "pending"
    BY <1>5 DEF KeyInv, NothingThereYet, OwnedIsPending, Owning, k
  <2>2. \A v \in Appliers : v # w /\ Owning(v) => address[job[v]] # k
    BY <1>5 DEF KeyInv, OneOwner, Owning, k
  <2>3. \A v \in Appliers : Owning(v)' => \/ v = w /\ job'[w] = job[w] /\ at'[w] = "complete"
                                          \/ v # w /\ Owning(v) /\ at'[v] = at[v] /\ job'[v] = job[v]
    BY <1>2, <1>5 DEF Owning
  <2>4. OwnedIsPending' /\ OneOwner'
    BY <1>1, <1>5, <2>1, <2>2, <2>3 DEF KeyInv, OwnedIsPending, OneOwner, k
  <2>5. NothingThereYet'
    BY <1>0, <1>1, <1>5, <2>2, <2>3 DEF KeyInv, NothingThereYet, Owning
  <2>6. CreatedIsRemembered' /\ OnePerAddress'
    BY <1>0, <1>5, <2>1 DEF KeyInv, CreatedIsRemembered, OnePerAddress
  <2> QED BY <2>4, <2>5, <2>6 DEF KeyInv
<1>6. ASSUME Owning(w), UNCHANGED campaigns, ~Owning(w)', NEW v \in {"free", "done"},
             key' = [key EXCEPT ![k] = v], v = "free" => campaigns[k] = 0
      PROVE  KeyInv'
  <2>1. \A u \in Appliers : Owning(u)' => /\ u # w /\ Owning(u) /\ at'[u] = at[u] /\ job'[u] = job[u]
                                          /\ address[job[u]] # k
    BY <1>2, <1>6 DEF Owning, KeyInv, OneOwner, k
  <2>2. OwnedIsPending' /\ OneOwner'
    BY <1>0, <1>1, <1>6, <2>1 DEF KeyInv, OwnedIsPending, OneOwner
  <2>3. NothingThereYet'
    BY <1>1, <1>6, <2>1 DEF KeyInv, NothingThereYet, Owning
  <2>4. CreatedIsRemembered' /\ OnePerAddress'
    BY <1>0, <1>6 DEF KeyInv, CreatedIsRemembered, OnePerAddress
  <2> QED BY <2>2, <2>3, <2>4 DEF KeyInv
<1>7. CASE Reserve(w)
  <2>1. at[w] = "reserve" /\ UNCHANGED campaigns
    BY <1>7 DEF Reserve, cabinetVars
  <2>2. CASE UNCHANGED key /\ at' = [at EXCEPT ![w] = "idle"]
    BY <1>3, <2>1, <2>2 DEF Owning, TypeOK, AppliersOK
  <2>3. CASE /\ key[k] = "free" /\ key' = [key EXCEPT ![k] = "pending"]
             /\ Proceed(w, "create") \/ Settle(w)
    <3>1. at'[w] \in {"idle", "create"} /\ Stays
      BY <2>3 DEF Settle, PutDown, Proceed, TypeOK, AppliersOK
    <3> QED BY <1>4, <2>1, <2>3, <3>1
  <2>4. Settle(w) => at' = [at EXCEPT ![w] = "idle"]
    BY DEF Settle, PutDown
  <2> QED BY <1>7, <2>2, <2>3, <2>4 DEF Reserve, k
<1>8. CASE Create(w)
  <2>1. CASE campaigns' = [campaigns EXCEPT ![k] = @ + 1]
    <3>1. campaigns'[k] = campaigns[k] + 1 /\ campaigns[k] \in Nat
      BY <1>0, <2>1 DEF k
    <3>2. Proceed(w, "complete") \/ Settle(w)
      BY <1>8, <3>1 DEF Create
    <3>3. at'[w] \in {"idle", "complete"} /\ Stays
      BY <3>2 DEF Settle, PutDown, Proceed, TypeOK, AppliersOK
    <3> QED BY <1>5, <1>8, <2>1, <3>3 DEF Create
  <2>2. CASE UNCHANGED campaigns /\ Settle(w)
    BY <1>3, <1>8, <2>2 DEF Create, Settle, PutDown, Owning, TypeOK, AppliersOK
  <2>3. CASE UNCHANGED campaigns /\ Proceed(w, "release")
    <3>1. \A v \in Appliers : Owning(v)' => Owning(v) /\ job'[v] = job[v]
      BY <1>8, <2>3 DEF Create, Proceed, Owning, TypeOK, AppliersOK
    <3>2. \A v \in Appliers : at'[v] \in {"create", "release"} =>
             at[v] \in {"create", "release"} /\ job'[v] = job[v]
      BY <1>8, <2>3 DEF Create, Proceed, TypeOK, AppliersOK
    <3>3. OwnedIsPending' /\ OneOwner'
      BY <1>1, <1>8, <3>1 DEF Create, KeyInv, OwnedIsPending, OneOwner
    <3>4. NothingThereYet'
      BY <1>1, <2>3, <3>2 DEF KeyInv, NothingThereYet
    <3>5. CreatedIsRemembered' /\ OnePerAddress'
      BY <1>8, <2>3 DEF Create, KeyInv, CreatedIsRemembered, OnePerAddress
    <3> QED BY <3>3, <3>4, <3>5 DEF KeyInv
  <2> QED BY <1>8, <2>1, <2>2, <2>3 DEF Create, k
<1>9. CASE Release(w)
  <2>1. campaigns[k] = 0 /\ Owning(w)
    BY <1>9 DEF Release, KeyInv, NothingThereYet, Owning, k
  <2>2. ~Owning(w)' /\ UNCHANGED campaigns
    BY <1>9 DEF Release, Settle, PutDown, Owning, cabinetVars, TypeOK, AppliersOK
  <2>3. UNCHANGED key \/ key' = [key EXCEPT ![k] = "free"]
    BY <1>9 DEF Release, k
  <2> QED BY <1>3, <1>6, <2>1, <2>2, <2>3
<1>10. CASE Complete(w)
  <2>1. ~Owning(w)' /\ UNCHANGED campaigns /\ Owning(w)
    BY <1>10 DEF Complete, Proceed, Owning, cabinetVars, TypeOK, AppliersOK
  <2>2. UNCHANGED key \/ key' = [key EXCEPT ![k] = "done"]
    BY <1>10 DEF Complete, k
  <2> QED BY <1>3, <1>6, <2>1, <2>2
<1>11. CASE Populate(w) \/ ApplyCrash(w)
  BY <1>3, <1>11 DEF Populate, ApplyCrash, PutDown, Owning, cabinetVars, TypeOK, AppliersOK
<1> QED BY <1>7, <1>8, <1>9, <1>10, <1>11 DEF Creating

LEMMA KeyStep == TypeOK /\ KeyInv /\ [Next]_vars => KeyInv'
<1> SUFFICES ASSUME TypeOK, KeyInv, [Next]_vars PROVE KeyInv'
  OBVIOUS
<1>1. CASE UNCHANGED vars
  BY <1>1, KeySame DEF vars, cabinetVars, applyVars, cardVars, Owning
<1> QED BY <1>1, KeyLaunching, KeyCard, KeyCreating DEF Next

LEMMA KeyCorrect == Spec => []KeyInv
  BY KeyInit, KeyStep, TypeCorrect, PTL DEF Spec

\* createOneCampaign inserts the key before it asks the cabinet and gives it back
\* only when the cabinet refused, so a campaign that may exist has its key for
\* ever, whatever fails and however many processes apply cards.
THEOREM CreationRemembered == Spec => []CreatedIsRemembered
  BY KeyCorrect, PTL DEF KeyInv

-----------------------------------------------------------------------------
(* The generations' invariant *)

\* A set of addresses of one slot up to generation n has at most n + 1 members.
LEMMA AddressesOfSlot ==
    ASSUME NEW s \in Slots, NEW n \in Nat, NEW A \in SUBSET Addresses,
           \A k \in A : k[1] = s /\ k[2] <= n
    PROVE  IsFiniteSet(A) /\ Cardinality(A) \in Nat /\ Cardinality(A) <= n + 1
<1> DEFINE f == [k \in A |-> k[2]]
<1>1. f \in Injection(A, 0 .. n)
  <2>1. \A k \in A : k[2] \in 0 .. n
    BY LaunchAssumption DEF Addresses, Generations
  <2>2. \A j, k \in A : j[2] = k[2] => j = k
    BY DEF Addresses
  <2> QED BY <2>1, <2>2, Fun_IsInj DEF Injection, IsInjective
<1>2. IsFiniteSet(0 .. n) /\ Cardinality(0 .. n) = n + 1
  BY FS_Interval
<1>3. IsFiniteSet(A) /\ Cardinality(A) <= Cardinality(0 .. n)
  BY <1>1, <1>2, FS_Injection
<1> QED BY <1>2, <1>3, FS_CardinalityType

LEMMA GenerationInit == Init => GenerationInv
<1> SUFFICES ASSUME Init PROVE GenerationInv
  OBVIOUS
<1>1. Waiting = {}
  BY DEF Init, Waiting
<1>2. IsFiniteSet(Waiting) /\ Cardinality(Waiting) = 0
  BY <1>1, FS_EmptySet
<1> QED BY <1>2 DEF Init, GenerationInv, Within

\* While nobody starts to wait, everything stays within the asks.
LEMMA Budget ==
    ASSUME TypeOK, GenerationInv, Waiting' \subseteq Waiting, UNCHANGED freshAsks
    PROVE  IsFiniteSet(Waiting') /\ \A g \in Nat : Within(g) => Within(g)'
<1>1. /\ IsFiniteSet(Waiting)
      /\ freshAsks \in Nat
  BY DEF GenerationInv, TypeOK, OutsideOK
<1>2. IsFiniteSet(Waiting') /\ Cardinality(Waiting') <= Cardinality(Waiting)
  BY <1>1, FS_Subset
<1>3. Cardinality(Waiting') \in Nat /\ Cardinality(Waiting) \in Nat
  BY <1>1, <1>2, FS_CardinalityType
<1> QED BY <1>1, <1>2, <1>3 DEF Within

LEMMA GenerationsAreNatural == \A k \in Addresses : k[2] \in Nat
  BY LaunchAssumption DEF Addresses, Generations

\* What is in play after a step was in play before it, or is within the asks anyway.
LEMMA StaysWithin ==
    ASSUME TypeOK, GenerationInv, IsFiniteSet(Waiting'), \A g \in Nat : Within(g) => Within(g)',
           \A l \in Launches : stage'[l] = "idle" => ~fresh'[l],
           \A k \in Addresses : key'[k] # "free" =>
              key[k] # "free" \/ \E c \in Cards : decision[c] # "none" /\ address[c] = k,
           \A c \in Cards : decision'[c] # "none" =>
              (decision[c] # "none" /\ address'[c] = address[c]) \/ Within(address[c][2])',
           latest' = latest \/ \A s \in Slots : Within(latest.generation[s])',
           \A l \in Launches : plan'[l] # NoPlan =>
              \/ plan'[l] = plan[l]
              \/ plan'[l] = latest
              \/ \A s \in Slots : Within(plan[l].generation[s])',
           \A l \in Launches : taken'[l] = taken[l] \/ \A k \in taken'[l] : k \in Addresses /\ key[k] # "free"
    PROVE  GenerationInv'
<1> USE DEF TypeOK, RowsOK, LaunchesOK
<1>1. Within(0)'
  BY DEF GenerationInv
<1>2. \A k \in Addresses : key'[k] # "free" => Within(k[2])'
  BY GenerationsAreNatural DEF GenerationInv
<1>3. \A c \in Cards : decision'[c] # "none" => Within(address[c][2])'
  <2> SUFFICES ASSUME NEW c \in Cards, decision[c] # "none", address'[c] = address[c]
               PROVE  Within(address[c][2])'
    OBVIOUS
  <2>1. PICK g \in Nat : g = address[c][2] /\ Within(g)
    BY GenerationsAreNatural DEF GenerationInv
  <2>2. Within(g)'
    BY <2>1
  <2> QED BY <2>1, <2>2 DEF Within
<1>4. latest' # NoPlan => \A s \in Slots : Within(latest.generation[s])'
  <2> SUFFICES ASSUME latest' = latest, latest # NoPlan, NEW s \in Slots
               PROVE  Within(latest.generation[s])'
    OBVIOUS
  <2>1. latest.generation[s] \in Nat /\ Within(latest.generation[s])
    BY LaunchAssumption DEF GenerationInv, Plans, Generations
  <2> QED BY <2>1 DEF Within
<1>5. \A l \in Launches : plan'[l] # NoPlan => \A s \in Slots : Within(plan[l].generation[s])'
  <2> SUFFICES ASSUME NEW l \in Launches, plan'[l] # NoPlan, NEW s \in Slots,
                      plan'[l] = plan[l] \/ plan'[l] = latest
               PROVE  Within(plan[l].generation[s])'
    OBVIOUS
  <2>1. PICK p \in Plans : p = plan'[l] /\ (p = plan[l] \/ p = latest)
    OBVIOUS
  <2>2. p.generation[s] \in Nat
    BY LaunchAssumption DEF Plans, Generations
  <2>3. Within(p.generation[s])
    BY <2>1 DEF GenerationInv
  <2>4. Within(p.generation[s])'
    BY <2>2, <2>3
  <2> QED BY <2>1, <2>4 DEF Within
<1>6. \A l \in Launches : \A k \in taken'[l] : Within(k[2])'
  BY GenerationsAreNatural DEF GenerationInv
<1> QED BY <1>1, <1>2, <1>3, <1>4, <1>5, <1>6 DEF GenerationInv

LEMMA GenerationCreating ==
    ASSUME TypeOK, GenerationInv, NEW w \in Appliers, Creating(w)
    PROVE  GenerationInv'
<1> DEFINE k == address[job[w]]
<1>1. UNCHANGED <<launchVars, askVars, latest, address>>
  BY DEF Creating, Reserve, Create, Release, Complete, Populate, ApplyCrash, Settle, Over, PutDown, Proceed, cardVars
<1>2. job[w] \in Cards /\ decision[job[w]] # "none"
  BY DEF TypeOK, AppliersOK, Creating, Reserve, Create, Release, Complete, Populate, ApplyCrash
<1>3. \A a \in Addresses : key'[a] # "free" => key[a] # "free" \/ a = k
  BY DEF Creating, Reserve, Create, Release, Complete, Populate, ApplyCrash, TypeOK, RowsOK
<1>4. \A c \in Cards : decision'[c] # "none" => decision[c] # "none"
  BY <1>2 DEF Creating, Reserve, Create, Release, Complete, Populate, ApplyCrash, Settle, Over, PutDown, Proceed,
              cardVars, TypeOK, RowsOK
<1>5. Waiting' = Waiting
  BY <1>1 DEF Waiting, launchVars
<1>6. \A l \in Launches : stage[l] = "idle" => ~fresh[l]
  BY DEF GenerationInv
<1> QED BY <1>1, <1>2, <1>3, <1>4, <1>5, <1>6, Budget, StaysWithin DEF launchVars, askVars

LEMMA GenerationCard ==
    ASSUME TypeOK, GenerationInv,
           \/ EditBrief
           \/ \E c \in Cards : Press(c) \/ Close(c) \/ Overdue(c) \/ MarkStuck(c)
           \/ \E w \in Appliers, c \in Cards : Start(w, c)
    PROVE  GenerationInv'
<1>1. UNCHANGED <<launchVars, askVars, latest, key, address>>
  BY DEF EditBrief, Press, Close, Overdue, MarkStuck, Over, Start, cardVars
<1>2. \A c \in Cards : decision'[c] # "none" => decision[c] # "none"
  BY DEF EditBrief, Press, Close, Overdue, MarkStuck, Undecided, Over, Start, cardVars, TypeOK,
         RowsOK
<1>3. Waiting' = Waiting
  BY <1>1 DEF Waiting, launchVars
<1>4. \A l \in Launches : stage[l] = "idle" => ~fresh[l]
  BY DEF GenerationInv
<1> QED BY <1>1, <1>2, <1>3, <1>4, Budget, StaysWithin DEF launchVars, askVars

\* The steps of a launch that start nothing, plan nothing and issue nothing.
LEMMA GenerationReading ==
    ASSUME TypeOK, GenerationInv, NEW l \in Launches,
           ReadLive(l) \/ ReadCreated(l) \/ ReadLatest(l) \/ Supersede(l) \/ LaunchCrash(l)
    PROVE  GenerationInv'
<1>1. UNCHANGED <<askVars, latest, key, address>>
  BY DEF ReadLive, ReadCreated, ReadLatest, Supersede, LaunchCrash, cardVars
<1>2. \A c \in Cards : decision'[c] # "none" => decision[c] # "none"
  <2>1. CASE Supersede(l)
    BY <2>1 DEF Supersede, Undecided, Over, TypeOK, RowsOK, LaunchesOK
  <2>2. CASE ~Supersede(l)
    BY <2>2 DEF ReadLive, ReadCreated, ReadLatest, LaunchCrash, cardVars
  <2> QED BY <2>1, <2>2
<1>3. /\ stage[l] # "idle"
      /\ \A m \in Launches : m # l => stage'[m] = stage[m] /\ fresh'[m] = fresh[m]
      /\ \/ stage'[l] = "idle" /\ ~fresh'[l]
         \/ fresh'[l] = fresh[l] /\ stage'[l] # "idle" /\
            (stage'[l] \in {"live", "created", "latest", "brief"} =>
                stage[l] \in {"live", "created", "latest", "brief"})
  <2> USE DEF TypeOK, LaunchesOK
  <2>1. CASE ReadLive(l)  BY <2>1 DEF ReadLive, EndLaunch
  <2>2. CASE ReadCreated(l)  BY <2>2 DEF ReadCreated, EndLaunch
  <2>3. CASE ReadLatest(l)  BY <2>3 DEF ReadLatest
  <2>4. CASE Supersede(l)  BY <2>4 DEF Supersede
  <2>5. CASE LaunchCrash(l)  BY <2>5 DEF LaunchCrash, EndLaunch
  <2> QED BY <2>1, <2>2, <2>3, <2>4, <2>5
<1>4. Waiting' \subseteq Waiting
  BY <1>3 DEF Waiting
<1>5. \A m \in Launches : stage'[m] = "idle" => ~fresh'[m]
  BY <1>3 DEF GenerationInv
<1>6. /\ \A m \in Launches : plan'[m] # NoPlan => plan'[m] = plan[m] \/ plan'[m] = latest
      /\ \A m \in Launches : taken'[m] = taken[m] \/ \A k \in taken'[m] : k \in Addresses /\ key[k] # "free"
  <2> USE DEF TypeOK, LaunchesOK
  <2>1. CASE ReadLive(l)  BY <2>1 DEF ReadLive, EndLaunch
  <2>2. CASE ReadCreated(l)  BY <2>2 DEF ReadCreated, EndLaunch
  <2>3. CASE ReadLatest(l)  BY <2>3 DEF ReadLatest
  <2>4. CASE Supersede(l)  BY <2>4 DEF Supersede
  <2>5. CASE LaunchCrash(l)  BY <2>5 DEF LaunchCrash, EndLaunch
  <2> QED BY <2>1, <2>2, <2>3, <2>4, <2>5
<1> QED BY <1>1, <1>2, <1>4, <1>5, <1>6, Budget, StaysWithin DEF askVars

LEMMA GenerationAsk ==
    ASSUME TypeOK, GenerationInv, NEW l \in Launches, Ask(l)
    PROVE  GenerationInv'
<1>1. UNCHANGED <<latest, key, cardVars, plan, taken>>
  BY DEF Ask
<1>2. PICK again \in BOOLEAN :
         /\ fresh' = [fresh EXCEPT ![l] = again]
         /\ freshAsks' = IF again THEN freshAsks + 1 ELSE freshAsks
  BY DEF Ask
<1>3. stage[l] = "idle" /\ stage' = [stage EXCEPT ![l] = "live"]
  BY DEF Ask
<1>4. \A m \in Launches : stage'[m] = "idle" => ~fresh'[m]
  BY <1>2, <1>3 DEF GenerationInv, TypeOK, LaunchesOK
<1>5. IsFiniteSet(Waiting') /\ \A g \in Nat : Within(g) => Within(g)'
  <2>1. CASE ~again
    <3>1. Waiting' \subseteq Waiting
      BY <1>2, <1>3, <2>1 DEF Waiting, TypeOK, LaunchesOK
    <3> QED BY <1>2, <2>1, <3>1, Budget
  <2>2. CASE again
    <3>1. l \notin Waiting
      BY <1>3 DEF Waiting
    <3>2. Waiting' = Waiting \cup {l}
      BY <1>2, <1>3, <2>2 DEF Waiting, TypeOK, LaunchesOK
    <3>3. IsFiniteSet(Waiting) /\ freshAsks \in Nat
      BY DEF GenerationInv, TypeOK, OutsideOK
    <3>4. IsFiniteSet(Waiting') /\ Cardinality(Waiting') = Cardinality(Waiting) + 1
      BY <3>1, <3>2, <3>3, FS_AddElement
    <3>5. Cardinality(Waiting) \in Nat
      BY <3>3, FS_CardinalityType
    <3> QED BY <1>2, <2>2, <3>3, <3>4, <3>5 DEF Within
  <2> QED BY <2>1, <2>2
<1> QED BY <1>1, <1>4, <1>5, StaysWithin DEF cardVars

\* One more campaign of a slot gets a generation that the ask for it pays for.
LEMMA GenerationLoadBrief ==
    ASSUME TypeOK, GenerationInv, NEW l \in Launches, LoadBrief(l)
    PROVE  GenerationInv'
<1> USE DEF TypeOK, LaunchesOK
<1>1. /\ UNCHANGED <<latest, key, cardVars, taken, fresh, freshAsks>>
      /\ stage[l] = "brief"
      /\ stage' = [stage EXCEPT ![l] = "build"]
  BY DEF LoadBrief, askVars
<1>2. Waiting' \subseteq Waiting
  BY <1>1 DEF Waiting
<1>3. IsFiniteSet(Waiting') /\ \A g \in Nat : Within(g) => Within(g)'
  BY <1>1, <1>2, Budget
<1>4. ASSUME NEW s \in Slots PROVE Within(Generation(l, s))'
  <2> DEFINE A == {k \in taken[l] : k[1] = s}
  <2>1. CASE ~fresh[l]
    <3>1. Within(0)' /\ Generation(l, s) = 0 /\ Generation(l, s)' = 0
      BY <1>1, <1>3, <2>1 DEF GenerationInv, Generation
    <3> QED BY <3>1 DEF Within
  <2>2. CASE fresh[l]
    <3>1. l \in Waiting /\ Waiting' = Waiting \ {l}
      BY <1>1, <2>2 DEF Waiting
    <3>2. IsFiniteSet(Waiting) /\ freshAsks \in Nat /\ Within(0)
      BY DEF GenerationInv, OutsideOK
    <3>3. Cardinality(Waiting) \in Nat /\ Cardinality(Waiting') = Cardinality(Waiting) - 1
      BY <3>1, <3>2, FS_CardinalityType, FS_RemoveElement
    <3>4. PICK n \in Nat : n = freshAsks - Cardinality(Waiting)
      BY <3>2, <3>3 DEF Within
    <3>5. \A k \in A : k[1] = s /\ k[2] <= n
      BY <3>2, <3>3, <3>4, GenerationsAreNatural DEF GenerationInv, Within
    <3>6. Cardinality(A) \in Nat /\ Cardinality(A) <= n + 1
      BY <3>5, AddressesOfSlot
    <3>7. Generation(l, s)' = Cardinality(A)
      BY <1>1, <2>2 DEF Generation
    <3> HIDE DEF A
    <3> QED BY <1>1, <3>2, <3>3, <3>4, <3>6, <3>7 DEF Within
  <2> QED BY <2>1, <2>2
<1>5. \A s \in Slots : Generation(l, s)' = Generation(l, s)
  BY <1>1 DEF Generation
<1>6. \A s \in Slots : plan'[l].generation[s] = Generation(l, s)
  BY DEF LoadBrief
<1>7. \A s \in Slots : Within(plan[l].generation[s])'
  BY <1>4, <1>5, <1>6 DEF Within
<1>8. \A m \in Launches : m # l => plan'[m] = plan[m]
  BY DEF LoadBrief
<1>9. \A m \in Launches : stage'[m] = "idle" => ~fresh'[m]
  BY <1>1 DEF GenerationInv
<1> QED BY <1>1, <1>3, <1>7, <1>8, <1>9, StaysWithin DEF cardVars

LEMMA GenerationSavePlan ==
    ASSUME TypeOK, GenerationInv, NEW l \in Launches, SavePlan(l)
    PROVE  GenerationInv'
<1> USE DEF TypeOK, LaunchesOK
<1>1. UNCHANGED <<key, cardVars, freshAsks>> /\ stage[l] = "build" /\ plan[l] \in Plans
  BY DEF SavePlan, askVars
<1>2. CASE EndLaunch(l) /\ UNCHANGED latest
  <2>1. Waiting' \subseteq Waiting
    BY <1>2 DEF EndLaunch, Waiting
  <2>2. IsFiniteSet(Waiting') /\ \A g \in Nat : Within(g) => Within(g)'
    BY <1>1, <2>1, Budget
  <2>3. /\ \A m \in Launches : stage'[m] = "idle" => ~fresh'[m]
        /\ \A m \in Launches : plan'[m] # NoPlan => plan'[m] = plan[m]
        /\ \A m \in Launches : taken'[m] = taken[m] \/ taken'[m] = {}
    BY <1>2 DEF EndLaunch, GenerationInv
  <2> QED BY <1>1, <1>2, <2>2, <2>3, StaysWithin DEF cardVars
<1>3. CASE ~(EndLaunch(l) /\ UNCHANGED latest)
  <2> DEFINE built == [plan[l] EXCEPT !.builtAt = brief]
  <2>1. /\ latest' = built
        /\ plan' = [plan EXCEPT ![l] = built]
        /\ stage' = [stage EXCEPT ![l] = "close"]
        /\ UNCHANGED <<fresh, taken>>
    BY <1>3 DEF SavePlan
  <2>2. built.generation = plan[l].generation
    BY <1>1 DEF Plans
  <2>3. Waiting' \subseteq Waiting
    BY <2>1 DEF Waiting
  <2>4. IsFiniteSet(Waiting') /\ \A g \in Nat : Within(g) => Within(g)'
    BY <1>1, <2>3, Budget
  <2> HIDE DEF built
  <2>5. ASSUME NEW s \in Slots
        PROVE  Within(latest.generation[s])' /\ Within(plan[l].generation[s])'
    <3>1. PICK g \in Nat : g = plan[l].generation[s]
      BY <1>1, LaunchAssumption DEF Plans, Generations
    <3>2. Within(g)
      BY <1>1, <3>1, LaunchAssumption DEF GenerationInv
    <3>3. Within(g)'
      BY <2>4, <3>2
    <3>4. latest'.generation[s] = g /\ plan'[l].generation[s] = g
      BY <2>1, <2>2, <3>1
    <3> QED BY <3>3, <3>4 DEF Within
  <2>6. /\ \A m \in Launches : stage'[m] = "idle" => ~fresh'[m]
        /\ \A m \in Launches : m # l => plan'[m] = plan[m]
    BY <2>1 DEF GenerationInv
  <2> QED BY <1>1, <2>1, <2>4, <2>5, <2>6, StaysWithin DEF cardVars
<1> QED BY <1>2, <1>3

LEMMA GenerationSubmit ==
    ASSUME TypeOK, GenerationInv, NEW l \in Launches, Submit(l)
    PROVE  GenerationInv'
<1> USE DEF TypeOK, LaunchesOK
<1>1. UNCHANGED <<key, latest, freshAsks>> /\ stage[l] = "submit" /\ plan[l] \in Plans
  BY DEF Submit, askVars
<1>2. CASE EndLaunch(l) /\ UNCHANGED <<decision, address, error>>
  <2>1. Waiting' \subseteq Waiting
    BY <1>2 DEF EndLaunch, Waiting
  <2>2. IsFiniteSet(Waiting') /\ \A g \in Nat : Within(g) => Within(g)'
    BY <1>1, <2>1, Budget
  <2>3. /\ \A m \in Launches : stage'[m] = "idle" => ~fresh'[m]
        /\ \A m \in Launches : plan'[m] # NoPlan => plan'[m] = plan[m]
        /\ \A m \in Launches : taken'[m] = taken[m] \/ taken'[m] = {}
    BY <1>2 DEF EndLaunch, GenerationInv
  <2> QED BY <1>1, <1>2, <2>2, <2>3, StaysWithin
<1>3. ASSUME NEW s \in positions[l], NEW c \in Cards,
             decision' = [decision EXCEPT ![c] = "pending"],
             address' = [address EXCEPT ![c] = <<s, plan[l].generation[s]>>],
             UNCHANGED <<stage, fresh, taken, plan>>
      PROVE  GenerationInv'
  <2>1. Waiting' \subseteq Waiting
    BY <1>3 DEF Waiting
  <2>2. IsFiniteSet(Waiting') /\ \A g \in Nat : Within(g) => Within(g)'
    BY <1>1, <2>1, Budget
  <2>3. PICK g \in Nat : g = plan[l].generation[s]
    BY <1>1, LaunchAssumption DEF Plans, Generations
  <2>4. Within(g)'
    BY <1>1, <2>2, <2>3, LaunchAssumption DEF GenerationInv
  <2>5. Within(address[c][2])'
    <3>1. address'[c][2] = g
      BY <1>3, <2>3 DEF RowsOK
    <3> QED BY <2>4, <3>1 DEF Within
  <2>6. \A d \in Cards : d # c => decision'[d] = decision[d] /\ address'[d] = address[d]
    BY <1>3 DEF RowsOK
  <2>7. \A m \in Launches : stage'[m] = "idle" => ~fresh'[m]
    BY <1>3 DEF GenerationInv
  <2> QED BY <1>1, <1>3, <2>2, <2>5, <2>6, <2>7, StaysWithin
<1> QED BY <1>2, <1>3 DEF Submit

LEMMA GenerationStep == TypeOK /\ GenerationInv /\ [Next]_vars => GenerationInv'
<1> SUFFICES ASSUME TypeOK, GenerationInv, [Next]_vars PROVE GenerationInv'
  OBVIOUS
<1>1. ASSUME NEW l \in Launches, Launching(l) PROVE GenerationInv'
  BY <1>1, GenerationAsk, GenerationReading, GenerationLoadBrief, GenerationSavePlan,
     GenerationSubmit DEF Launching
<1>2. CASE UNCHANGED vars
  BY <1>2 DEF vars, cardVars, askVars, launchVars, GenerationInv, Waiting, Within
<1> QED BY <1>1, <1>2, GenerationCard, GenerationCreating DEF Next

LEMMA GenerationCorrect == Spec => []GenerationInv
  BY GenerationInit, GenerationStep, TypeCorrect, PTL DEF Spec

LEMMA PaidFor == TypeOK /\ KeyInv /\ GenerationInv => OnePerAsk
<1> SUFFICES ASSUME TypeOK, KeyInv, GenerationInv, NEW s \in Slots
             PROVE  Cardinality({k \in Addresses : k[1] = s /\ campaigns[k] > 0}) <= 1 + freshAsks
  BY DEF OnePerAsk, KeyInv, OnePerAddress
<1> DEFINE A == {k \in Addresses : k[1] = s /\ campaigns[k] > 0}
<1>1. freshAsks \in Nat /\ Cardinality(Waiting) \in Nat
  BY FS_CardinalityType DEF TypeOK, OutsideOK, GenerationInv
<1>2. \A k \in A : k[1] = s /\ k[2] <= freshAsks
  BY <1>1, GenerationsAreNatural DEF KeyInv, CreatedIsRemembered, GenerationInv, Within
<1>3. A \in SUBSET Addresses
  OBVIOUS
<1> HIDE DEF A
<1>4. Cardinality(A) \in Nat /\ Cardinality(A) <= freshAsks + 1
  BY <1>1, <1>2, <1>3, AddressesOfSlot
<1> QED BY <1>1, <1>4 DEF A

\* However many launches overlap and cards are applied, an address has at most one
\* campaign, and the campaigns of a slot never outnumber the asks of a human.
THEOREM NeverOneTooMany == Spec => []OnePerAsk
  BY TypeCorrect, KeyCorrect, GenerationCorrect, PaidFor, PTL

-----------------------------------------------------------------------------
(* Without faults a pending key has an owner. *)

OwnedUnlessFaulty ==
    faults = 0 => \A k \in Addresses :
                     key[k] = "pending" => \E w \in Appliers : Owning(w) /\ address[job[w]] = k

\* A step that sets no key to pending and takes no owner away.
LEMMA OwnersStay ==
    ASSUME TypeOK, OwnedUnlessFaulty, faults' = 0 => faults = 0, UNCHANGED key,
           \A w \in Appliers : Owning(w) => Owning(w)' /\ job'[w] = job[w],
           \A c \in Cards : decision[c] # "none" => address'[c] = address[c]
    PROVE  OwnedUnlessFaulty'
<1>1. \A w \in Appliers : Owning(w) => address'[job'[w]] = address[job[w]]
  BY DEF TypeOK, AppliersOK, Owning
<1> QED BY <1>1 DEF OwnedUnlessFaulty

LEMMA OwnedCreating ==
    ASSUME TypeOK, KeyInv, OwnedUnlessFaulty, NEW w \in Appliers, Creating(w)
    PROVE  OwnedUnlessFaulty'
<1> DEFINE k == address[job[w]]
<1> SUFFICES ASSUME faults' = 0, NEW a \in Addresses, key'[a] = "pending"
             PROVE  (\E v \in Appliers : Owning(v) /\ address[job[v]] = a)'
  BY DEF OwnedUnlessFaulty
<1>1. faults = 0 /\ UNCHANGED faults
  <2>1. faults \in Nat
    BY DEF TypeOK, OutsideOK
  <2>2. UNCHANGED faults \/ Fault
    BY DEF Creating, Reserve, Create, Release, Complete, Populate, ApplyCrash
  <2> QED BY <2>1, <2>2 DEF Fault
<1>2. ~Fault
  BY <1>1 DEF Fault
<1>3. UNCHANGED address
  BY DEF Creating, Reserve, Create, Release, Complete, Populate, ApplyCrash, Settle, Over, PutDown, Proceed,
         cardVars
<1>4. ASSUME NEW v \in Appliers, v # w, Owning(v), address[job[v]] = a
      PROVE  (\E u \in Appliers : Owning(u) /\ address[job[u]] = a)'
  <2>1. at'[v] = at[v] /\ job'[v] = job[v]
    BY <1>4 DEF Creating, Reserve, Create, Release, Complete, Populate, ApplyCrash, Settle, Over, PutDown, Proceed,
                TypeOK, AppliersOK
  <2> QED BY <1>3, <1>4, <2>1 DEF Owning
<1>5. ASSUME Owning(w)', job'[w] = job[w], a = k
      PROVE  (\E u \in Appliers : Owning(u) /\ address[job[u]] = a)'
  BY <1>3, <1>5
<1>6. ASSUME key[a] = "pending" PROVE \E v \in Appliers : Owning(v) /\ address[job[v]] = a
  BY <1>1, <1>6 DEF OwnedUnlessFaulty
<1>7. CASE Reserve(w)
  <2>1. CASE a = k /\ key[k] = "free"
    <3>1. Proceed(w, "create")
      BY <1>2, <1>7, <2>1 DEF Reserve
    <3> QED BY <1>5, <2>1, <3>1 DEF Proceed, Owning, TypeOK, AppliersOK
  <2>2. CASE ~(a = k /\ key[k] = "free")
    <3>1. key[a] = "pending"
      BY <1>7, <2>2 DEF Reserve, TypeOK, RowsOK
    <3>2. ~Owning(w)
      BY <1>7 DEF Reserve, Owning
    <3> QED BY <1>4, <1>6, <3>1, <3>2
  <2> QED BY <2>1, <2>2
<1>8. CASE Create(w)
  <2>1. key[a] = "pending"
    BY <1>8 DEF Create
  <2>2. Owning(w)' /\ job'[w] = job[w]
    BY <1>2, <1>8 DEF Create, Proceed, Owning, TypeOK, AppliersOK
  <2> QED BY <1>4, <1>5, <1>6, <2>1, <2>2
<1>9. CASE Release(w) \/ Complete(w)
  <2>1. a # k /\ key[a] = "pending"
    <3>1. k \in Addresses
      BY <1>9 DEF Release, Complete, TypeOK, AppliersOK, RowsOK
    <3>2. key' = [key EXCEPT ![k] = "free"] \/ key' = [key EXCEPT ![k] = "done"]
      BY <1>2, <1>9 DEF Release, Complete
    <3> QED BY <3>1, <3>2 DEF TypeOK, RowsOK
  <2> QED BY <1>4, <1>6, <2>1
<1>10. CASE Populate(w)
  BY <1>4, <1>6, <1>10 DEF Populate, Owning
<1>11. CASE ApplyCrash(w)
  BY <1>2, <1>11 DEF ApplyCrash
<1> QED BY <1>7, <1>8, <1>9, <1>10, <1>11 DEF Creating

LEMMA OwnedStep == TypeOK /\ KeyInv /\ OwnedUnlessFaulty /\ [Next]_vars => OwnedUnlessFaulty'
<1> SUFFICES ASSUME TypeOK, KeyInv, OwnedUnlessFaulty, [Next]_vars PROVE OwnedUnlessFaulty'
  OBVIOUS
<1> USE DEF Owning
<1>1. ASSUME NEW l \in Launches, Launching(l) PROVE OwnedUnlessFaulty'
  <2>1. UNCHANGED <<key, at, job>>
    BY <1>1 DEF Launching, Ask, ReadLive, ReadCreated, ReadLatest, LoadBrief, SavePlan, Supersede,
                Submit, LaunchCrash, applyVars
  <2>2. \A c \in Cards : decision[c] # "none" => address'[c] = address[c]
    <3>1. CASE Submit(l)
      BY <3>1 DEF Submit, TypeOK, RowsOK
    <3>2. CASE ~Submit(l)
      BY <1>1, <3>2 DEF Launching, Ask, ReadLive, ReadCreated, ReadLatest, LoadBrief, SavePlan,
                        Supersede, LaunchCrash, cardVars
    <3> QED BY <3>1, <3>2
  <2>3. faults' = 0 => faults = 0
    <3>1. UNCHANGED faults \/ Fault
      BY <1>1 DEF Launching, Ask, ReadLive, ReadCreated, ReadLatest, LoadBrief, SavePlan, Supersede,
                  Submit, LaunchCrash
    <3> QED BY <3>1 DEF Fault, TypeOK, OutsideOK
  <2> QED BY <2>1, <2>2, <2>3, OwnersStay
<1>2. CASE EditBrief
  BY <1>2, OwnersStay DEF EditBrief, cardVars, applyVars
<1>3. CASE \E c \in Cards : Press(c) \/ Close(c) \/ Overdue(c) \/ MarkStuck(c)
  BY <1>3, OwnersStay DEF Press, Close, Overdue, MarkStuck, applyVars
<1>4. ASSUME NEW w \in Appliers, NEW c \in Cards, Start(w, c) PROVE OwnedUnlessFaulty'
  <2>1. \A v \in Appliers : Owning(v) => Owning(v)' /\ job'[v] = job[v]
    BY <1>4 DEF Start, TypeOK, AppliersOK
  <2> QED BY <1>4, <2>1, OwnersStay DEF Start
<1>5. CASE UNCHANGED vars
  BY <1>5, OwnersStay DEF vars, applyVars, cardVars
<1> QED BY <1>1, <1>2, <1>3, <1>4, <1>5, OwnedCreating DEF Next

\* While no reply is lost and no process dies, a client's launches are blocked by a
\* pending key only as long as somebody is creating that campaign.
THEOREM BlockedOnlyMeanwhile == Spec => []BlockedForAReason
<1>1. Init => OwnedUnlessFaulty
  BY DEF Init, OwnedUnlessFaulty
<1>2. OwnedUnlessFaulty => BlockedForAReason
  BY DEF OwnedUnlessFaulty, BlockedForAReason, Owning
<1> QED BY <1>1, <1>2, OwnedStep, TypeCorrect, KeyCorrect, PTL DEF Spec
=============================================================================
