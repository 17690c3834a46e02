--------------------------- MODULE ReportingProofs ---------------------------
(***************************************************************************)
(* What clients and the administrator may rely on, for any number of       *)
(* clients, cabinets, rows and faults, and for any cooldowns and caps: a    *)
(* client gets one text of a period, no client is passed over, and no      *)
(* reason falls silent that was not told.                                  *)
(***************************************************************************)
EXTENDS Reporting, FiniteSetTheorems, SequenceTheorems, TLAPS

-----------------------------------------------------------------------------
(* The administrator.  A key is in the limiter because a message of that tick
   covers it; what a scan tells of a reason depends on the cooldown its key
   stands for. *)

ReasonHeads == {"auth_error", "out_of_units", "approval_undelivered", "report_failed"}
CooldownOf(head) == IF head = "approval_undelivered" THEN LongCooldown ELSE Cooldown

\* The limiter holds a reason back as long as its kind says.
CooldownsFit ==
    \A key \in DOMAIN limiter :
        key[1] \in ReasonHeads => limiter[key].cooldown = CooldownOf(key[1])

\* What Heard says of a row once both its scans are over.
Covered(r) ==
    LET reason == ReasonOf(GroupOf(r))
    IN  \/ \E m \in told : /\ reason.key \in m.keys
                           /\ m.at <= r.at + 1
                           /\ m.at + reason.cooldown > r.at
        \/ \E x \in unheard : /\ x.at \in r.at .. r.at + 1
                              /\ x.why \in {"incomplete", "cut", "failed"}

\* Each scan that was due to see a row saw to it, or did not take place.
EachScanHears ==
    \A r \in log : r.code \in OneOffCodes =>
        \A t \in r.at .. r.at + 1 :
            t < clock => Covered(r) \/ [at |-> t, why |-> "missed"] \in unheard

LogShape ==
    /\ clock \in Nat
    /\ IsFiniteSet(log)
    /\ \A r \in log : r.at \in Nat
    /\ \A key \in DOMAIN limiter : limiter[key].at \in Nat /\ limiter[key].at < clock

AlertInv == LogShape /\ SilenceIsEarned /\ CooldownsFit /\ EachScanHears

-----------------------------------------------------------------------------
(* The clients. *)

Texts == [edition : Nat, review : Reviews]
Runs == [at : {"idle", "find", "build", "send", "mark", "failed"}, period : Nat,
         todo : Seq(Clients), text : Texts,
         code : {"none", "REPORT_FAILED", "REPORT_DELIVERY_FAILED"}]

ReportShape ==
    /\ job \in [Kinds -> Runs]
    /\ \A k \in Kinds : job[k].at # "idle" => job[k].todo # <<>>
    /\ \A key \in DOMAIN editions : editions[key] \in Nat
    /\ \A key \in DOMAIN report : report[key] \in [edition : Nat, review : Reviews, sent : BOOLEAN]
    /\ \A key \in DOMAIN letters : letters[key] \in Seq(Nat)

\* A report is built when there is none, and what is sent is what is stored.
BuiltOnce ==
    \A k \in Kinds :
        /\ job[k].at = "build" => Current(k) \notin DOMAIN report
        /\ job[k].at \in {"send", "mark"} =>
              /\ Current(k) \in DOMAIN report
              /\ job[k].text.edition = report[Current(k)].edition
              /\ ~report[Current(k)].sent

\* A letter is a copy of the stored text; one that is neither marked nor about to be is in doubt,
\* and so is every further one.
Marking(key) == \E k \in Kinds : job[k].at = "mark" /\ Current(k) = key
LettersAreCopies ==
    \A key \in DOMAIN letters :
        /\ key \in DOMAIN report
        /\ \A i \in DOMAIN letters[key] : letters[key][i] = report[key].edition
        /\ key \in doubtful \/ (Len(letters[key]) = 1 /\ (report[key].sent \/ Marking(key)))

LetterInv == ReportShape /\ BuiltOnce /\ LettersAreCopies

\* What Answered says of one client and one period.
AnsweredOnce(c, k, p) ==
    LET key == <<c, k, p>>
    IN  \/ key \in DOMAIN report /\ report[key].sent
        \/ key \in doubtful
        \/ \E r \in log : r.client = c /\ r.stage = k /\ r.at \div Length[k] = p

ToCome(k) == {job[k].todo[i] : i \in DOMAIN job[k].todo}

\* A period is answered but for those the run of today has before it.
AnsweredBut ==
    \A k \in Kinds :
        /\ job[k].at # "idle" => job[k].period = PeriodOf(k)
        /\ \A c \in Clients, p \in 0 .. PeriodOf(k) :
              \/ AnsweredOnce(c, k, p)
              \/ p = PeriodOf(k) /\ (k \in due \/ (job[k].at # "idle" /\ c \in ToCome(k)))
-----------------------------------------------------------------------------

\* markSent changes what it is given, and drops what is no longer silent.
LEMMA MarkSentKeeps ==
    ASSUME NEW lim, NEW alerts, NEW key \in DOMAIN MarkSent(lim, alerts)
    PROVE  \/ \E a \in alerts : /\ a.key = key
                                /\ MarkSent(lim, alerts)[key] = [at |-> clock, cooldown |-> a.cooldown]
           \/ /\ key \in DOMAIN lim
              /\ MarkSent(lim, alerts)[key] = lim[key]
<1> DEFINE keys == {a.key : a \in alerts}
           live == {k \in DOMAIN lim : Spoke(lim, k)}
<1>1. key \in live \cup keys
  BY DEF MarkSent
<1>2. MarkSent(lim, alerts)[key] =
         IF key \in keys
         THEN [at |-> clock, cooldown |-> (CHOOSE a \in alerts : a.key = key).cooldown]
         ELSE lim[key]
  BY <1>1 DEF MarkSent
<1>3. CASE key \in keys
  <2>1. \E a \in alerts : a.key = key
    BY <1>3
  <2>2. (CHOOSE a \in alerts : a.key = key) \in alerts /\ (CHOOSE a \in alerts : a.key = key).key = key
    BY <2>1
  <2> QED BY <1>2, <1>3, <2>2
<1>4. CASE key \notin keys
  BY <1>1, <1>2, <1>4
<1> QED BY <1>3, <1>4

\* What is found is found under the key of its kind.
LEMMA KindsOfAlerts ==
    ASSUME NEW found, NEW window, NEW incomplete, NEW checkSpend,
           NEW a \in Detected(found, window, incomplete, checkSpend),
           a.key[1] \in ReasonHeads
    PROVE  a.cooldown = CooldownOf(a.key[1])
<1> USE DEF Critical, Alert, ReasonHeads
<1>1. CASE a = Critical(<<"scan_incomplete">>) \/ a = Critical(PlatformKey)
  BY <1>1 DEF PlatformKey
<1>2. CASE a \in BurstAlerts(window, {Bucket(g) : g \in found})
  BY <1>2 DEF BurstAlerts
<1>3. CASE a \in SpendAlerts
  BY <1>3 DEF SpendAlerts, SpendKey
<1>4. CASE \E g \in found : g.code \in OneOffCodes /\ a = ReasonOf(g)
  BY <1>4 DEF ReasonOf, CooldownOf, OneOffCodes, AuthCodes, UnitsCodes, ApprovalCodes, ReportCodes
<1> QED BY <1>1, <1>2, <1>3, <1>4 DEF Detected

\* A reason by itself has a kind of its own, and is never folded into another.
LEMMA ReasonsStand ==
    ASSUME NEW g, g.code \in OneOffCodes
    PROVE  /\ ReasonOf(g).key[1] \in ReasonHeads
           /\ ReasonOf(g).cooldown = CooldownOf(ReasonOf(g).key[1])
           /\ ReasonOf(g).parent = NoParent
           /\ ReasonOf(g).key # SpendScanKey
BY DEF ReasonOf, Critical, Alert, ReasonHeads, CooldownOf, SpendScanKey, OneOffCodes, AuthCodes,
       UnitsCodes, ApprovalCodes, ReportCodes

LEMMA NoAlertIsNoParent ==
    ASSUME NEW found, NEW window, NEW incomplete, NEW checkSpend,
           NEW a \in Detected(found, window, incomplete, checkSpend)
    PROVE  a.key # NoParent
<1> USE DEF Critical, Alert, NoParent
<1>1. CASE a = Critical(<<"scan_incomplete">>) \/ a = Critical(PlatformKey)
  BY <1>1 DEF PlatformKey
<1>2. CASE a \in BurstAlerts(window, {Bucket(g) : g \in found})
  BY <1>2 DEF BurstAlerts
<1>3. CASE a \in SpendAlerts
  BY <1>3 DEF SpendAlerts, SpendKey
<1>4. CASE \E g \in found : g.code \in OneOffCodes /\ a = ReasonOf(g)
  BY <1>4 DEF ReasonOf, OneOffCodes, AuthCodes, UnitsCodes, ApprovalCodes, ReportCodes
<1> QED BY <1>1, <1>2, <1>3, <1>4 DEF Detected

\* With no more groups than the cap, none is left out.
LEMMA AllGroupsFound ==
    ASSUME NEW rows, IsFiniteSet(rows), NEW found \in GroupSelections(rows), MaxGroups \in Nat,
           ~(Cardinality({GroupOf(r) : r \in rows}) > MaxGroups)
    PROVE  found = {GroupOf(r) : r \in rows}
<1> DEFINE groups == {GroupOf(r) : r \in rows}
           f == [r \in rows |-> GroupOf(r)]
<1>1. f \in Surjection(rows, groups)
  BY DEF Surjection
<1>2. IsFiniteSet(groups) /\ Cardinality(groups) \in Nat
  BY <1>1, FS_Surjection, FS_CardinalityType
<1>3. Min({Cardinality(groups), MaxGroups}) = Cardinality(groups)
  BY <1>2 DEF Min
<1>4. found \subseteq groups /\ Cardinality(found) = Cardinality(groups)
  BY <1>3 DEF GroupSelections
<1> QED BY <1>2, <1>4, FS_Subset

-----------------------------------------------------------------------------

LEMMA AlertInit == Init => AlertInv
BY FS_EmptySet DEF Init, AlertInv, LogShape, SilenceIsEarned, CooldownsFit, EachScanHears

\* Rows are added that no scan has had to see; nothing else happens to the alerts.
LEMMA RowsAdded ==
    ASSUME AlertInv, NEW new, IsFiniteSet(new), log' = log \cup new,
           \A r \in new : r.at \in Nat /\ r.at >= clock',
           UNCHANGED <<clock, alertVars>>
    PROVE  AlertInv'
<1> USE DEF AlertInv, alertVars
<1>1. LogShape'
  BY FS_Union DEF LogShape
<1>2. EachScanHears'
  <2> SUFFICES ASSUME NEW r \in log', r.code \in OneOffCodes, NEW t \in r.at .. r.at + 1, t < clock
               PROVE  Covered(r)' \/ [at |-> t, why |-> "missed"] \in unheard'
    BY DEF EachScanHears
  <2>1. r \in log
    BY DEF LogShape
  <2> QED BY <2>1 DEF EachScanHears, Covered
<1> QED BY <1>1, <1>2 DEF SilenceIsEarned, CooldownsFit

LEMMA ScanKeeps ==
    ASSUME AlertInv, NEW fails \in BOOLEAN, RunAlertScan(fails) PROVE AlertInv'
<1> USE DEF AlertInv
<1> DEFINE checkSpend == IsAllowed(SpendScanKey)
           marked == IF checkSpend
                     THEN MarkSent(limiter, {[key |-> SpendScanKey, cooldown |-> SpendInterval]})
                     ELSE limiter
           unreadable == IF checkSpend THEN {c \in Cabinets : spend[c] = "unreadable"} ELSE {}
           back == RowsSince(Lookback)
           recent == RowsSince(BurstWindow)
<1>1. PICK found \in GroupSelections(back), heard \in GroupSelections(recent) :
        LET window == {r \in recent : GroupOf(r) \in heard}
            incomplete == Cardinality({GroupOf(r) : r \in back}) > MaxGroups
            allowed == {a \in Detected(found, window, incomplete, checkSpend) : IsAllowed(a.key)}
            folded == Folded(allowed)
            passing == allowed \ folded
        IN  \E sent \in ToSend(passing), failed \in IF fails THEN SUBSET passing \ {{}} ELSE {{}} :
            LET delivered == sent \ failed
            IN  /\ failed \subseteq sent
                /\ limiter' = MarkSent(marked, Spoken(delivered, folded, sent))
                /\ told' = told \cup
                     {[at |-> clock,
                       keys |-> {a.key} \cup {b.key : b \in {x \in folded : x.parent = a.key}}] :
                      a \in delivered}
                /\ unheard' = unheard \cup {[at |-> clock, why |-> w] :
                     w \in (IF incomplete THEN {"incomplete"} ELSE {})
                           \cup (IF sent # passing THEN {"cut"} ELSE {})
                           \cup (IF fails THEN {"failed"} ELSE {})}
                /\ log' = log \cup {[client |-> c, code |-> "REPORT_FAILED", stage |-> "alerts",
                                     at |-> clock + 1, n |-> 1] : c \in unreadable}
                /\ clock' = clock + 1
                /\ UNCHANGED spend
  BY DEF RunAlertScan
<1> DEFINE window == {r \in recent : GroupOf(r) \in heard}
           incomplete == Cardinality({GroupOf(r) : r \in back}) > MaxGroups
           detected == Detected(found, window, incomplete, checkSpend)
           allowed == {a \in detected : IsAllowed(a.key)}
           folded == Folded(allowed)
           passing == allowed \ folded
<1>2. PICK sent \in ToSend(passing), failed \in IF fails THEN SUBSET passing \ {{}} ELSE {{}} :
        /\ limiter' = MarkSent(marked, Spoken(sent \ failed, folded, sent))
        /\ told' = told \cup
             {[at |-> clock,
               keys |-> {a.key} \cup {b.key : b \in {x \in folded : x.parent = a.key}}] :
              a \in sent \ failed}
        /\ unheard' = unheard \cup {[at |-> clock, why |-> w] :
             w \in (IF incomplete THEN {"incomplete"} ELSE {})
                   \cup (IF sent # passing THEN {"cut"} ELSE {})
                   \cup (IF fails THEN {"failed"} ELSE {})}
        /\ log' = log \cup {[client |-> c, code |-> "REPORT_FAILED", stage |-> "alerts",
                             at |-> clock + 1, n |-> 1] : c \in unreadable}
        /\ clock' = clock + 1
  BY <1>1
<1> DEFINE delivered == sent \ failed
           spoken == Spoken(delivered, folded, sent)
<1>3. sent \subseteq passing /\ spoken \subseteq detected
  BY DEF ToSend, Spoken, Folded
<1> DEFINE message(a) ==
             [at |-> clock,
              keys |-> {a.key} \cup {b.key : b \in {x \in folded : x.parent = a.key}}]
<1>m. told' = told \cup {message(a) : a \in delivered}
  BY <1>2
<1> HIDE DEF detected, passing, marked, unreadable, back, window, incomplete, checkSpend
<1>4. clock' = clock + 1 /\ clock \in Nat
  BY <1>2 DEF LogShape
<1>5. \A a \in spoken : \E m \in told' : m.at = clock /\ a.key \in m.keys
  <2> SUFFICES ASSUME NEW a \in spoken PROVE \E m \in told' : m.at = clock /\ a.key \in m.keys
    OBVIOUS
  <2>1. CASE a \in delivered
    <3>1. message(a) \in told' /\ message(a).at = clock /\ a.key \in message(a).keys
      BY <1>m, <2>1
    <3> QED BY <3>1
  <2>2. CASE a \in folded /\ \E b \in delivered : b.key = a.parent
    <3>1. PICK b \in delivered : b.key = a.parent
      BY <2>2
    <3>2. message(b) \in told' /\ message(b).at = clock
      BY <1>m
    <3>3. a.key \in message(b).keys
      BY <2>2, <3>1
    <3> QED BY <3>2, <3>3
  <2> QED BY <2>1, <2>2 DEF Spoken
<1>6. \A key \in DOMAIN limiter' :
         \/ \E a \in spoken : /\ a.key = key
                              /\ limiter'[key] = [at |-> clock, cooldown |-> a.cooldown]
         \/ /\ key = SpendScanKey
            /\ limiter'[key].at = clock
         \/ /\ key \in DOMAIN limiter
            /\ limiter'[key] = limiter[key]
  <2> SUFFICES ASSUME NEW key \in DOMAIN limiter',
                      ~\E a \in spoken : /\ a.key = key
                                         /\ limiter'[key] = [at |-> clock, cooldown |-> a.cooldown]
               PROVE  \/ key = SpendScanKey /\ limiter'[key].at = clock
                      \/ key \in DOMAIN limiter /\ limiter'[key] = limiter[key]
    OBVIOUS
  <2>1. key \in DOMAIN marked /\ limiter'[key] = marked[key]
    <3>1. limiter' = MarkSent(marked, spoken)
      BY <1>2
    <3> HIDE DEF spoken
    <3> QED BY <3>1, MarkSentKeeps
  <2>2. CASE checkSpend
    <3> DEFINE scan == {[key |-> SpendScanKey, cooldown |-> SpendInterval]}
    <3>1. marked = MarkSent(limiter, scan)
      BY <2>2 DEF marked
    <3> HIDE DEF scan
    <3>2. \/ \E a \in scan : a.key = key /\ marked[key] = [at |-> clock, cooldown |-> a.cooldown]
          \/ key \in DOMAIN limiter /\ marked[key] = limiter[key]
      BY <2>1, <3>1, MarkSentKeeps
    <3> QED BY <2>1, <3>2 DEF scan
  <2>3. CASE ~checkSpend
    BY <2>1, <2>3 DEF marked
  <2> QED BY <2>2, <2>3
<1>7. told \subseteq told' /\ unheard \subseteq unheard'
  BY <1>2
<1>8. SilenceIsEarned'
  <2> SUFFICES ASSUME NEW key \in DOMAIN limiter' \ {SpendScanKey}
               PROVE  \E m \in told' : m.at = limiter'[key].at /\ key \in m.keys
    BY DEF SilenceIsEarned
  <2>1. CASE \E a \in spoken : a.key = key /\ limiter'[key] = [at |-> clock, cooldown |-> a.cooldown]
    BY <1>5, <2>1
  <2>2. CASE key \in DOMAIN limiter /\ limiter'[key] = limiter[key]
    BY <1>7, <2>2 DEF SilenceIsEarned
  <2> QED BY <1>6, <2>1, <2>2
<1>9. CooldownsFit'
  <2> SUFFICES ASSUME NEW key \in DOMAIN limiter', key[1] \in ReasonHeads
               PROVE  limiter'[key].cooldown = CooldownOf(key[1])
    BY DEF CooldownsFit, CooldownOf
  <2>1. CASE \E a \in spoken : a.key = key /\ limiter'[key] = [at |-> clock, cooldown |-> a.cooldown]
    BY <1>3, <2>1, KindsOfAlerts DEF detected
  <2>2. CASE key \in DOMAIN limiter /\ limiter'[key] = limiter[key]
    BY <2>2 DEF CooldownsFit
  <2>3. key # SpendScanKey
    BY DEF SpendScanKey, ReasonHeads
  <2> QED BY <1>6, <2>1, <2>2, <2>3
<1>10. LogShape'
  <2>1. unreadable \subseteq Cabinets
    BY DEF unreadable
  <2>2. IsFiniteSet(unreadable)
    BY <2>1, AlertsAssumption, FS_Subset
  <2> DEFINE rowOf(c) == [client |-> c, code |-> "REPORT_FAILED", stage |-> "alerts",
                          at |-> clock + 1, n |-> 1]
             new == {rowOf(c) : c \in unreadable}
             f == [c \in unreadable |-> rowOf(c)]
  <2>3. IsFiniteSet(log')
    <3>1. f \in Surjection(unreadable, new)
      BY DEF Surjection
    <3>2. IsFiniteSet(new)
      BY <2>2, <3>1, FS_Surjection
    <3>3. log' = log \cup new
      BY <1>2
    <3> HIDE DEF new
    <3> QED BY <3>2, <3>3, FS_Union DEF LogShape
  <2>4. \A r \in log' : r.at \in Nat
    BY <1>2, <1>4 DEF LogShape
  <2>5. \A key \in DOMAIN limiter' : limiter'[key].at \in Nat /\ limiter'[key].at < clock'
    <3> SUFFICES ASSUME NEW key \in DOMAIN limiter' PROVE limiter'[key].at \in Nat /\ limiter'[key].at <= clock
      BY <1>4
    <3>1. CASE limiter'[key].at = clock
      BY <1>4, <3>1
    <3>2. CASE key \in DOMAIN limiter /\ limiter'[key] = limiter[key]
      BY <1>4, <3>2 DEF LogShape
    <3>3. CASE \E a \in spoken : a.key = key /\ limiter'[key] = [at |-> clock, cooldown |-> a.cooldown]
      <4>1. limiter'[key].at = clock
        BY <3>3
      <4> QED BY <3>1, <4>1
    <3> QED BY <1>6, <3>1, <3>2, <3>3
  <2> QED BY <1>4, <2>3, <2>4, <2>5 DEF LogShape
<1>11. \A r : Covered(r) => Covered(r)'
  BY <1>7 DEF Covered
<1>12. ASSUME NEW r \in log, r.code \in OneOffCodes, clock \in r.at .. r.at + 1 PROVE Covered(r)'
  <2> DEFINE a == ReasonOf(GroupOf(r))
  <2>1. r.at \in Nat /\ r \in back
    BY <1>4, <1>12, AlertsAssumption DEF LogShape, back, RowsSince
  <2>2. \A why \in {"incomplete", "cut", "failed"} : [at |-> clock, why |-> why] \in unheard' => Covered(r)'
    BY <1>12 DEF Covered
  <2>3. CASE incomplete
    BY <1>2, <2>2, <2>3
  <2>4. CASE sent # passing
    BY <1>2, <2>2, <2>4
  <2>5. CASE fails
    BY <1>2, <2>2, <2>5
  <2>6. CASE ~incomplete /\ sent = passing /\ ~fails
    <3>1. IsFiniteSet(back)
      BY FS_Subset DEF LogShape, back, RowsSince
    <3>2. GroupOf(r) \in found
      BY <2>1, <2>6, <3>1, AllGroupsFound, AlertsAssumption DEF incomplete
    <3>3. /\ GroupOf(r).code \in OneOffCodes
          /\ a.key[1] \in ReasonHeads /\ a.cooldown = CooldownOf(a.key[1])
          /\ a.parent = NoParent /\ a.key # SpendScanKey
      BY <1>12, ReasonsStand DEF GroupOf
    <3>4. a \in detected
      BY <3>2, <3>3 DEF detected, Detected
    <3> HIDE DEF a
    <3>5. CASE IsAllowed(a.key)
      <4>1. a \in allowed
        BY <3>4, <3>5
      <4>2. a \notin folded
        BY <3>3, NoAlertIsNoParent DEF Folded, detected
      <4>3. a \in delivered
        BY <2>6, <4>1, <4>2 DEF passing
      <4>4. PICK m \in told' : m.at = clock /\ a.key \in m.keys
        BY <1>5, <4>3 DEF Spoken
      <4>5. a.cooldown \in Nat \ {0}
        BY <3>3, AlertsAssumption DEF CooldownOf
      <4>6. clock <= r.at + 1 /\ clock + a.cooldown > r.at
        BY <1>4, <1>12, <2>1, <4>5
      <4> QED BY <4>4, <4>6 DEF Covered, a
    <3>6. CASE ~IsAllowed(a.key)
      <4>1. /\ a.key \in DOMAIN limiter /\ clock - limiter[a.key].at < limiter[a.key].cooldown
        BY <3>6 DEF IsAllowed, Spoke
      <4>2. limiter[a.key].cooldown = a.cooldown
        BY <3>3, <4>1 DEF CooldownsFit
      <4>3. PICK m \in told : m.at = limiter[a.key].at /\ a.key \in m.keys
        BY <3>3, <4>1 DEF SilenceIsEarned
      <4>4. m.at \in Nat /\ m.at < clock /\ a.cooldown \in Nat
        BY <3>3, <4>1, <4>3, AlertsAssumption DEF LogShape, CooldownOf
      <4>5. m.at <= r.at + 1 /\ m.at + a.cooldown > r.at
        BY <1>4, <1>12, <2>1, <4>1, <4>2, <4>3, <4>4
      <4> QED BY <1>7, <4>3, <4>5 DEF Covered, a
    <3> QED BY <3>5, <3>6
  <2> QED BY <2>3, <2>4, <2>5, <2>6
<1>13. EachScanHears'
  <2> SUFFICES ASSUME NEW r \in log', r.code \in OneOffCodes, NEW t \in r.at .. r.at + 1, t < clock + 1
               PROVE  Covered(r)' \/ [at |-> t, why |-> "missed"] \in unheard'
    BY <1>4 DEF EachScanHears
  <2>1. CASE r \in log /\ t < clock
    BY <1>7, <1>11, <2>1 DEF EachScanHears
  <2>2. CASE r \in log /\ t = clock
    BY <1>12, <2>2
  <2>3. CASE r \notin log
    <3>1. r.at = clock + 1
      BY <1>2, <2>3
    <3> QED BY <1>4, <3>1
  <2>4. r \in log => r.at \in Nat
    BY DEF LogShape
  <2> QED BY <1>4, <2>1, <2>2, <2>3, <2>4
<1> QED BY <1>8, <1>9, <1>10, <1>13

\* A missed scan makes nothing silent, and is told of as missed.
LEMMA MissKeeps == ASSUME AlertInv, MissScan PROVE AlertInv'
<1> USE DEF AlertInv, MissScan
<1>1. LogShape'
  BY DEF LogShape
<1>2. EachScanHears'
  <2> SUFFICES ASSUME NEW r \in log, r.code \in OneOffCodes, NEW t \in r.at .. r.at + 1, t < clock + 1
               PROVE  Covered(r)' \/ [at |-> t, why |-> "missed"] \in unheard'
    BY DEF EachScanHears
  <2>1. CASE t < clock
    BY <2>1 DEF EachScanHears, Covered
  <2>2. CASE t = clock
    BY <2>2
  <2> QED BY <2>1, <2>2 DEF LogShape
<1> QED BY <1>1, <1>2 DEF SilenceIsEarned, CooldownsFit

\* A new process holds nothing back.
LEMMA RestartKeeps == ASSUME AlertInv, Restart PROVE AlertInv'
<1> USE DEF AlertInv, Restart
<1>1. LogShape' /\ SilenceIsEarned' /\ CooldownsFit'
  BY DEF LogShape, SilenceIsEarned, CooldownsFit
<1>2. EachScanHears'
  BY DEF EachScanHears, Covered
<1> QED BY <1>1, <1>2

\* A run of reports adds at most a row of the failure it is about.
LEMMA RunsLeaveAlerts ==
    ASSUME AlertInv, ReportsNext, UNCHANGED alertVars PROVE AlertInv'
<1>1. PICK k \in Kinds :
        \/ StartRun(k) \/ FindReport(k) \/ BuildReport(k) \/ FailToBuild(k)
        \/ SendReport(k) \/ SendFails(k) \/ MarkReportSent(k) \/ MarkFails(k)
        \/ RecordFailure(k) \/ CrashRun(k)
  BY DEF ReportsNext
<1>2. UNCHANGED clock
  BY <1>1 DEF StartRun, FindReport, BuildReport, FailToBuild, SendReport, SendFails,
              MarkReportSent, MarkFails, RecordFailure, CrashRun
<1>3. CASE log' = log
  <2>1. log' = log \cup {} /\ IsFiniteSet({})
    BY <1>3, FS_EmptySet
  <2> QED BY <1>2, <2>1, RowsAdded
<1>4. CASE log' = log \cup {Row(Head(job[k].todo), job[k].code, k)}
  <2> DEFINE row == Row(Head(job[k].todo), job[k].code, k)
  <2>1. row.at = clock /\ clock \in Nat
    BY DEF Row, AlertInv, LogShape
  <2> HIDE DEF row
  <2>2. IsFiniteSet({row})
    BY FS_Singleton
  <2> QED BY <1>2, <1>4, <2>1, <2>2, RowsAdded DEF row
<1> QED
  BY <1>1, <1>3, <1>4 DEF StartRun, FindReport, BuildReport, FailToBuild, SendReport, SendFails,
                          MarkReportSent, MarkFails, RecordFailure, CrashRun

\* What others write is for the scan of its tick and the next.
LEMMA ErrorsAdded == ASSUME AlertInv, LogErrors PROVE AlertInv'
<1>1. PICK c \in Cabinets, code \in OthersCodes, n \in Noise :
        log' = log \cup {[client |-> c, code |-> code, stage |-> "others", at |-> clock, n |-> n]}
  BY DEF LogErrors
<1> DEFINE row == [client |-> c, code |-> code, stage |-> "others", at |-> clock, n |-> n]
<1>2. row.at = clock /\ clock \in Nat
  BY DEF AlertInv, LogShape
<1>3. UNCHANGED <<clock, alertVars>> /\ log' = log \cup {row}
  BY <1>1 DEF LogErrors, alertVars
<1> HIDE DEF row
<1>4. IsFiniteSet({row})
  BY FS_Singleton
<1> QED BY <1>2, <1>3, <1>4, RowsAdded

\* No step breaks what is said of the alerts.
LEMMA AlertStep == ASSUME AlertInv, [Next]_vars PROVE AlertInv'
<1>1. CASE ReportsNext /\ UNCHANGED alertVars
  BY <1>1, RunsLeaveAlerts
<1>2. CASE Tick
  <2>1. RunAlertScan(FALSE) \/ RunAlertScan(TRUE) \/ MissScan
    BY <1>2 DEF Tick
  <2> QED BY <2>1, ScanKeeps, MissKeeps
<1>3. CASE Others
  BY <1>3, ErrorsAdded, RestartKeeps DEF Others
<1>4. CASE UNCHANGED vars
  BY <1>4 DEF vars, alertVars, AlertInv, LogShape, SilenceIsEarned, CooldownsFit, EachScanHears, Covered
<1> QED BY <1>1, <1>2, <1>3, <1>4 DEF Next

\* What the limiter holds back was told when its silence began, a row has been heard by each
\* scan that was due to see it, and the cooldown of a reason is that of its kind.
THEOREM AlertsAreKept == Spec => []AlertInv
<1>1. AlertInv /\ [Next]_vars => AlertInv'
  BY AlertStep
<1> QED BY AlertInit, <1>1, PTL DEF Spec

\* No reason falls silent that was not told: for every key the limiter holds there is a message
\* of that very tick that says it, in its own words or in those of the platform it was folded
\* into, whatever fails, is cut, or is restarted in between.
THEOREM SilenceIsAlwaysEarned == Spec => []SilenceIsEarned
<1>1. AlertInv => SilenceIsEarned
  BY DEF AlertInv
<1> QED BY AlertsAreKept, <1>1, PTL

\* A row that is a reason by itself is heard with one of the two scans that see it, or was told
\* within its cooldown; else both scans were missed, or one of them said that it did not see
\* everything, cut its messages, or could not deliver them.
THEOREM RowsAreHeard == Spec => []Heard
<1>1. AlertInv => Heard
  <2> SUFFICES ASSUME AlertInv, NEW r \in log, r.code \in OneOffCodes, r.at + 2 <= clock
               PROVE  LET reason == ReasonOf(GroupOf(r))
                          whys == {x.why : x \in {y \in unheard : y.at \in r.at .. r.at + 1}}
                      IN  \/ \E m \in told : /\ reason.key \in m.keys
                                             /\ m.at <= r.at + 1
                                             /\ m.at + reason.cooldown > r.at
                          \/ \A t \in r.at .. r.at + 1 : [at |-> t, why |-> "missed"] \in unheard
                          \/ whys \cap {"incomplete", "cut", "failed"} # {}
    BY DEF Heard
  <2>1. \A t \in r.at .. r.at + 1 : t < clock
    BY DEF AlertInv, LogShape
  <2>2. Covered(r) \/ \A t \in r.at .. r.at + 1 : [at |-> t, why |-> "missed"] \in unheard
    BY <2>1 DEF AlertInv, EachScanHears
  <2> QED BY <2>2 DEF Covered
<1> QED BY AlertsAreKept, <1>1, PTL

-----------------------------------------------------------------------------

(* The clients.  A step moves one run and leaves the others where they are. *)

Moved(k) ==
    /\ job' \in [Kinds -> Runs]
    /\ \A j \in Kinds : job'[j].at # "idle" => job'[j].todo # <<>>
    /\ \A j \in Kinds \ {k} : job'[j] = job[j]

LEMMA MovedTo ==
    ASSUME ReportShape, NEW k \in Kinds, NEW run \in Runs, run.at # "idle" => run.todo # <<>>,
           job' = [job EXCEPT ![k] = run]
    PROVE  Moved(k) /\ job'[k] = run
BY DEF ReportShape, Moved

\* The next client of a run is found in the rest of it.
LEMMA Continued ==
    ASSUME ReportShape, NEW k \in Kinds, job[k].at # "idle", Continue(k)
    PROVE  /\ Moved(k)
           /\ \/ job'[k].at = "idle" /\ Len(job[k].todo) = 1
              \/ /\ Len(job[k].todo) # 1
                 /\ job'[k].at = "find"
                 /\ job'[k].period = job[k].period
                 /\ job'[k].todo = Tail(job[k].todo)
<1>1. job[k] \in Runs /\ job[k].todo \in Seq(Clients) /\ job[k].todo # <<>>
  BY DEF ReportShape, Runs
<1>2. Unread \in Texts /\ Idle \in Runs /\ Idle.at = "idle"
  BY DEF Unread, Texts, Reviews, Idle, Runs
<1>3. CASE Len(job[k].todo) = 1
  <2>1. job' = [job EXCEPT ![k] = Idle]
    BY <1>3 DEF Continue, NextClient
  <2> QED BY <1>2, <1>3, <2>1, MovedTo
<1>4. CASE Len(job[k].todo) # 1
  <2>1. job' = [job EXCEPT ![k] = Advance(k)]
    BY <1>4 DEF Continue, NextClient
  <2>2. Tail(job[k].todo) \in Seq(Clients) /\ Tail(job[k].todo) # <<>>
    <3>1. Len(job[k].todo) \in Nat /\ Len(job[k].todo) # 0
      BY <1>1
    <3>2. Tail(job[k].todo) \in Seq(Clients) /\ Len(Tail(job[k].todo)) = Len(job[k].todo) - 1
      BY <1>1, <3>1
    <3>3. Len(Tail(job[k].todo)) # 0
      BY <1>4, <3>1, <3>2
    <3> QED BY <3>2, <3>3, EmptySeq
  <2>3. job[k].period \in Nat
    BY <1>1 DEF Runs
  <2>4. /\ Advance(k).at = "find" /\ Advance(k).period = job[k].period
        /\ Advance(k).todo = Tail(job[k].todo)
    BY DEF Advance, Idle
  <2>5. Advance(k) \in Runs
    BY <1>2, <2>2, <2>3 DEF Advance, Idle, Runs
  <2>6. Moved(k) /\ job'[k] = Advance(k)
    BY <2>1, <2>2, <2>4, <2>5, MovedTo
  <2> QED BY <1>4, <2>4, <2>6
<1> QED BY <1>3, <1>4

LEMMA Went ==
    ASSUME ReportShape, NEW k \in Kinds, job[k].at # "idle",
           NEW at \in {"find", "build", "send", "mark", "failed"}, Goto(k, at)
    PROVE  Moved(k) /\ job'[k] = [job[k] EXCEPT !.at = at]
<1>1. job' = [job EXCEPT ![k] = [job[k] EXCEPT !.at = at]]
  BY DEF Goto, ReportShape
<1>2. [job[k] EXCEPT !.at = at] \in Runs /\ [job[k] EXCEPT !.at = at].todo # <<>>
  BY DEF ReportShape, Runs
<1> QED BY <1>1, <1>2, MovedTo

LEMMA Threw ==
    ASSUME ReportShape, NEW k \in Kinds, job[k].at # "idle",
           NEW code \in {"REPORT_FAILED", "REPORT_DELIVERY_FAILED"}, Throw(k, code)
    PROVE  Moved(k) /\ job'[k] = [job[k] EXCEPT !.at = "failed", !.code = code]
<1> DEFINE run == [job[k] EXCEPT !.at = "failed", !.code = code]
<1>1. job' = [job EXCEPT ![k] = run]
  BY Zenon DEF Throw, ReportShape
<1>2. run \in Runs /\ run.todo # <<>>
  BY DEF ReportShape, Runs
<1> QED BY <1>1, <1>2, MovedTo

\* The text of the letter is the one that is looked up or built.
LEMMA ToSendIt ==
    ASSUME ReportShape, NEW k \in Kinds, job[k].at # "idle", NEW text \in Texts,
           job' = [job EXCEPT ![k].at = "send", ![k].text = text]
    PROVE  Moved(k) /\ job'[k] = [job[k] EXCEPT !.at = "send", !.text = text]
<1> DEFINE run == [job[k] EXCEPT !.at = "send", !.text = text]
<1>1. job' = [job EXCEPT ![k] = run]
  BY Zenon DEF ReportShape
<1>2. run \in Runs /\ run.todo # <<>>
  BY DEF ReportShape, Runs
<1> QED BY <1>1, <1>2, MovedTo

\* Two runs are never about the same report.
LEMMA RunsApart ==
    ASSUME NEW j \in Kinds, NEW k \in Kinds, Current(j) = Current(k) PROVE j = k
BY DEF Current

LEMMA OthersStay ==
    ASSUME NEW k \in Kinds, Moved(k), NEW j \in Kinds \ {k}
    PROVE  job'[j] = job[j] /\ Current(j)' = Current(j)
BY DEF Moved, Current

LEMMA LetterInit == Init => LetterInv
<1> SUFFICES ASSUME Init PROVE LetterInv
  OBVIOUS
<1>1. Idle \in Runs
  BY DEF Idle, Runs, Unread, Texts, Reviews
<1> QED BY <1>1 DEF Init, ReportsInit, LetterInv, ReportShape, BuiltOnce, LettersAreCopies, Idle

\* A run that looks a report up, fails, ends or dies leaves the letters as they are; what was
\* about to be marked is in doubt.
LEMMA TurnKeeps ==
    ASSUME LetterInv, NEW k \in Kinds, Moved(k), UNCHANGED <<report, editions, letters>>,
           job'[k].at \in {"idle", "find", "failed"}, doubtful \subseteq doubtful',
           job[k].at = "mark" => Current(k) \in doubtful'
    PROVE  LetterInv'
<1> USE DEF LetterInv
<1>1. ReportShape'
  BY DEF ReportShape, Moved
<1>2. BuiltOnce'
  <2> SUFFICES ASSUME NEW j \in Kinds
               PROVE  /\ job'[j].at = "build" => Current(j)' \notin DOMAIN report
                      /\ job'[j].at \in {"send", "mark"} =>
                            /\ Current(j)' \in DOMAIN report
                            /\ job'[j].text.edition = report[Current(j)'].edition
                            /\ ~report[Current(j)'].sent
    BY DEF BuiltOnce
  <2>1. CASE j = k
    BY <2>1
  <2>2. CASE j # k
    BY <2>2, OthersStay DEF BuiltOnce
  <2> QED BY <2>1, <2>2
<1>3. LettersAreCopies'
  <2> SUFFICES ASSUME NEW key \in DOMAIN letters
               PROVE  /\ key \in DOMAIN report
                      /\ \A i \in DOMAIN letters[key] : letters[key][i] = report[key].edition
                      /\ key \in doubtful' \/ (Len(letters[key]) = 1 /\ (report[key].sent \/ Marking(key)'))
    BY DEF LettersAreCopies
  <2>1. Marking(key) => key \in doubtful' \/ Marking(key)'
    BY OthersStay DEF Marking
  <2> QED BY <2>1 DEF LettersAreCopies
<1> QED BY <1>1, <1>2, <1>3

\* A run that found what it has to do.
LEMMA LookedUp ==
    ASSUME LetterInv, NEW k \in Kinds, Moved(k), UNCHANGED <<report, editions, letters, doubtful>>,
           job[k].at = "find", Current(k)' = Current(k),
           \/ job'[k].at = "build" /\ Current(k) \notin DOMAIN report
           \/ /\ job'[k].at = "send" /\ Current(k) \in DOMAIN report
              /\ ~report[Current(k)].sent
              /\ job'[k].text.edition = report[Current(k)].edition
    PROVE  LetterInv'
<1> USE DEF LetterInv
<1>1. ReportShape'
  BY DEF ReportShape, Moved
<1>2. BuiltOnce'
  <2> SUFFICES ASSUME NEW j \in Kinds
               PROVE  /\ job'[j].at = "build" => Current(j)' \notin DOMAIN report
                      /\ job'[j].at \in {"send", "mark"} =>
                            /\ Current(j)' \in DOMAIN report
                            /\ job'[j].text.edition = report[Current(j)'].edition
                            /\ ~report[Current(j)'].sent
    BY DEF BuiltOnce
  <2>1. CASE j = k
    BY <2>1
  <2>2. CASE j # k
    BY <2>2, OthersStay DEF BuiltOnce
  <2> QED BY <2>1, <2>2
<1>3. LettersAreCopies'
  <2>1. \A key : Marking(key) => Marking(key)'
    BY OthersStay DEF Marking
  <2> QED BY <2>1 DEF LettersAreCopies
<1> QED BY <1>1, <1>2, <1>3

\* What a run is about is what its client and its period are.
LEMMA SameTurn ==
    ASSUME NEW k, UNCHANGED <<job[k].todo, job[k].period>> PROVE Current(k)' = Current(k)
BY DEF Current

LEMMA FindKeeps == ASSUME LetterInv, NEW k \in Kinds, FindReport(k) PROVE LetterInv'
<1> DEFINE key == Current(k)
           text == [edition |-> report[key].edition, review |-> report[key].review]
<1>1. /\ job[k].at = "find" /\ ReportShape
      /\ UNCHANGED <<report, editions, letters, doubtful>>
  BY DEF FindReport, LetterInv
<1>2. CASE key \notin DOMAIN report
  <2>1. Goto(k, "build")
    BY <1>2 DEF FindReport
  <2>2. Moved(k) /\ job'[k] = [job[k] EXCEPT !.at = "build"] /\ job[k] \in Runs
    BY <1>1, <2>1, Went DEF ReportShape
  <2>3. job'[k].at = "build" /\ Current(k)' = key
    BY <2>2, SameTurn DEF Runs
  <2> QED BY <1>1, <1>2, <2>2, <2>3, LookedUp
<1>3. CASE key \in DOMAIN report /\ report[key].sent
  <2>1. Continue(k)
    BY <1>3 DEF FindReport
  <2>2. Moved(k) /\ job'[k].at \in {"idle", "find"}
    BY <1>1, <2>1, Continued
  <2> QED BY <1>1, <2>2, TurnKeeps
<1>4. CASE key \in DOMAIN report /\ ~report[key].sent
  <2>1. job' = [job EXCEPT ![k].at = "send", ![k].text = text]
    BY <1>4 DEF FindReport, Reusable
  <2>2. text \in Texts /\ text.edition = report[key].edition
    BY <1>1, <1>4 DEF ReportShape, Texts
  <2> HIDE DEF text
  <2>3. Moved(k) /\ job'[k] = [job[k] EXCEPT !.at = "send", !.text = text] /\ job[k] \in Runs
    BY <1>1, <2>1, <2>2, ToSendIt DEF ReportShape
  <2>4. job'[k].at = "send" /\ job'[k].text = text /\ Current(k)' = key
    BY <2>3, SameTurn DEF Runs
  <2> QED BY <1>1, <1>4, <2>2, <2>3, <2>4, LookedUp
<1> QED BY <1>2, <1>3, <1>4

\* A report is stored before it is sent, and no letter of it is out yet.
LEMMA BuildKeeps == ASSUME LetterInv, NEW k \in Kinds, BuildReport(k) PROVE LetterInv'
<1> DEFINE key == Current(k)
           edition == Held(editions, key) + 1
<1>1. PICK review \in IF k = "weekly" THEN Reviews \ {"none"} ELSE {"none"} :
        /\ editions' = Extend(editions, key, edition)
        /\ report' = Extend(report, key,
                        [edition |-> edition, review |-> review,
                         sent |-> key \in DOMAIN report /\ report[key].sent])
        /\ job' = [job EXCEPT ![k].at = "send",
                      ![k].text = [edition |-> edition, review |-> review]]
  BY DEF BuildReport
<1> DEFINE row == [edition |-> edition, review |-> review, sent |-> FALSE]
           text == [edition |-> edition, review |-> review]
<1>2. job[k].at = "build" /\ ReportShape /\ UNCHANGED <<letters, doubtful>> /\ key \notin DOMAIN report
  BY DEF BuildReport, LetterInv, BuiltOnce
<1>3. edition \in Nat /\ review \in Reviews
  BY <1>2 DEF ReportShape, Held, Reviews
<1>4. report' = Extend(report, key, row)
  BY <1>1, <1>2
<1>5. /\ row \in [edition : Nat, review : Reviews, sent : BOOLEAN] /\ text \in Texts
      /\ row.edition = edition /\ text.edition = edition /\ row.sent = FALSE
  BY <1>3 DEF Texts
<1> HIDE DEF row, text
<1>6. Moved(k) /\ job'[k] = [job[k] EXCEPT !.at = "send", !.text = text] /\ job[k] \in Runs
  BY <1>1, <1>2, <1>5, ToSendIt DEF ReportShape, text
<1>7. job'[k].at = "send" /\ job'[k].text = text /\ Current(k)' = key
  BY <1>6, SameTurn DEF Runs
<1> HIDE DEF key, edition
<1>8. /\ DOMAIN report' = DOMAIN report \cup {key} /\ report'[key] = row
      /\ \A x \in DOMAIN report : report'[x] = report[x]
  BY <1>2, <1>4 DEF Extend
<1>9. ReportShape'
  <2>1. \A x \in DOMAIN editions' : editions'[x] \in Nat
    BY <1>1, <1>2, <1>3 DEF ReportShape, Extend
  <2> QED BY <1>2, <1>5, <1>6, <1>8, <2>1 DEF ReportShape, Moved
<1>10. BuiltOnce'
  <2> SUFFICES ASSUME NEW j \in Kinds
               PROVE  /\ job'[j].at = "build" => Current(j)' \notin DOMAIN report'
                      /\ job'[j].at \in {"send", "mark"} =>
                            /\ Current(j)' \in DOMAIN report'
                            /\ job'[j].text.edition = report'[Current(j)'].edition
                            /\ ~report'[Current(j)'].sent
    BY DEF BuiltOnce
  <2>1. CASE j = k
    BY <1>5, <1>7, <1>8, <2>1
  <2>2. CASE j # k
    <3>1. Current(j) # key
      BY <2>2, RunsApart DEF key
    <3> QED BY <1>6, <1>8, <2>2, <3>1, OthersStay DEF LetterInv, BuiltOnce
  <2> QED BY <2>1, <2>2
<1>11. LettersAreCopies'
  <2> SUFFICES ASSUME NEW x \in DOMAIN letters
               PROVE  /\ x \in DOMAIN report'
                      /\ \A i \in DOMAIN letters[x] : letters[x][i] = report'[x].edition
                      /\ x \in doubtful \/ (Len(letters[x]) = 1 /\ (report'[x].sent \/ Marking(x)'))
    BY <1>2 DEF LettersAreCopies
  <2>1. Marking(x) => Marking(x)'
    BY <1>2, <1>6, OthersStay DEF Marking
  <2> QED BY <1>8, <2>1 DEF LetterInv, LettersAreCopies
<1> QED BY <1>9, <1>10, <1>11 DEF LetterInv

\* What arrives is appended.
LEMMA MoreCopies ==
    ASSUME NEW s \in Seq(Nat), NEW e \in Nat, NEW n \in {1, 2}, \A i \in DOMAIN s : s[i] = e
    PROVE  /\ s \o [i \in 1 .. n |-> e] \in Seq(Nat)
           /\ Len(s \o [i \in 1 .. n |-> e]) = Len(s) + n
           /\ \A i \in DOMAIN (s \o [j \in 1 .. n |-> e]) : (s \o [j \in 1 .. n |-> e])[i] = e
<1> DEFINE t == [i \in 1 .. n |-> e]
<1>1. n \in Nat
  OBVIOUS
<1>2. t \in Seq(Nat) /\ Len(t) = n /\ DOMAIN t = 1 .. n
  <2>1. t \in [1 .. n -> Nat]
    OBVIOUS
  <2>2. t \in Seq(Nat)
    BY <1>1, <2>1, IsASeq
  <2> QED BY <1>1, <2>1, <2>2
<1>3. \A i \in 1 .. n : t[i] = e
  OBVIOUS
<1> HIDE DEF t
<1>4. /\ s \o t \in Seq(Nat) /\ Len(s \o t) = Len(s) + Len(t)
      /\ \A i \in 1 .. Len(s) + Len(t) :
            (s \o t)[i] = IF i <= Len(s) THEN s[i] ELSE t[i - Len(s)]
  BY <1>2, ConcatProperties
<1>5. Len(s) \in Nat /\ DOMAIN s = 1 .. Len(s) /\ DOMAIN (s \o t) = 1 .. Len(s) + n
  BY <1>2, <1>4, LenProperties
<1>6. ASSUME NEW i \in DOMAIN (s \o t) PROVE (s \o t)[i] = e
  <2>1. i \in 1 .. Len(s) + n /\ i \in Int
    BY <1>5
  <2>2. CASE i <= Len(s)
    <3>1. i \in DOMAIN s
      BY <1>5, <2>1, <2>2
    <3> QED BY <1>2, <1>4, <2>1, <2>2, <3>1
  <2>3. CASE ~(i <= Len(s))
    <3>1. i - Len(s) \in 1 .. n
      BY <1>1, <1>5, <2>1, <2>3
    <3> QED BY <1>2, <1>3, <1>4, <2>1, <2>3, <3>1
  <2> QED BY <2>2, <2>3
<1> QED BY <1>2, <1>4, <1>6 DEF t

\* A client receives a copy of what is stored; a second one only of what is in doubt.
LEMMA ReceivedIsCopy ==
    ASSUME LetterInv, NEW k \in Kinds, job[k].at = "send", NEW n \in {1, 2},
           Received(Current(k), n, job[k].text.edition)
    PROVE  /\ DOMAIN letters' = DOMAIN letters \cup {Current(k)}
           /\ \A x \in DOMAIN letters : x # Current(k) => letters'[x] = letters[x]
           /\ letters'[Current(k)] \in Seq(Nat)
           /\ \A i \in DOMAIN letters'[Current(k)] :
                 letters'[Current(k)][i] = report[Current(k)].edition
           /\ Current(k) \in doubtful \/ Len(letters'[Current(k)]) = n
<1> DEFINE key == Current(k)
           e == job[k].text.edition
           old == IF key \in DOMAIN letters THEN letters[key] ELSE <<>>
<1>1. key \in DOMAIN report /\ e = report[key].edition /\ ~report[key].sent
  BY DEF LetterInv, BuiltOnce
<1>2. e \in Nat
  BY <1>1 DEF LetterInv, ReportShape
<1>3. old \in Seq(Nat) /\ \A i \in DOMAIN old : old[i] = e
  <2>1. CASE key \in DOMAIN letters
    BY <1>1, <2>1 DEF LetterInv, LettersAreCopies, ReportShape
  <2>2. CASE key \notin DOMAIN letters
    <3>1. old = <<>> /\ <<>> \in Seq(Nat) /\ DOMAIN <<>> = {}
      BY <2>2, EmptySeq
    <3> QED BY <3>1
  <2> QED BY <2>1, <2>2
<1>4. key \in doubtful \/ old = <<>>
  <2>1. ~Marking(key)
    BY RunsApart DEF Marking
  <2>2. key \in DOMAIN letters => key \in doubtful
    BY <1>1, <2>1 DEF LetterInv, LettersAreCopies
  <2> QED BY <2>2
<1>5. letters' = Extend(letters, key, old \o [i \in 1 .. n |-> e])
  BY DEF Received
<1> HIDE DEF old
<1>6. /\ old \o [i \in 1 .. n |-> e] \in Seq(Nat)
      /\ Len(old \o [i \in 1 .. n |-> e]) = Len(old) + n
      /\ \A i \in DOMAIN (old \o [j \in 1 .. n |-> e]) : (old \o [j \in 1 .. n |-> e])[i] = e
  BY <1>2, <1>3, MoreCopies
<1> DEFINE new == old \o [i \in 1 .. n |-> e]
<1> HIDE DEF new
<1>7. letters' = Extend(letters, key, new)
  BY <1>5 DEF new
<1>8. /\ DOMAIN letters' = DOMAIN letters \cup {key} /\ letters'[key] = new
      /\ \A x \in DOMAIN letters : x # key => letters'[x] = letters[x]
  BY <1>7 DEF Extend
<1>9. key \in doubtful \/ Len(new) = n
  BY <1>4, <1>6, EmptySeq DEF new
<1> QED BY <1>1, <1>6, <1>8, <1>9 DEF new

\* After a letter the run marks it, or the letter is in doubt.
LEMMA LetterOut ==
    ASSUME LetterInv, NEW k \in Kinds, job[k].at = "send", NEW n \in {1, 2}, Moved(k),
           Received(Current(k), n, job[k].text.edition), UNCHANGED <<report, editions>>,
           job'[k].at \in {"mark", "failed"}, UNCHANGED <<job[k].todo, job[k].period, job[k].text>>,
           doubtful \subseteq doubtful',
           Current(k) \in doubtful' \/ (n = 1 /\ job'[k].at = "mark")
    PROVE  LetterInv'
<1>1. Current(k)' = Current(k)
  BY SameTurn
<1> DEFINE key == Current(k)
<1>2. /\ DOMAIN letters' = DOMAIN letters \cup {key}
      /\ \A x \in DOMAIN letters : x # key => letters'[x] = letters[x]
      /\ letters'[key] \in Seq(Nat)
      /\ \A i \in DOMAIN letters'[key] : letters'[key][i] = report[key].edition
      /\ key \in doubtful \/ Len(letters'[key]) = n
  BY ReceivedIsCopy
<1>3. key \in DOMAIN report /\ job[k].text.edition = report[key].edition /\ ~report[key].sent
  BY DEF LetterInv, BuiltOnce
<1> HIDE DEF key
<1>4. ReportShape'
  BY <1>2 DEF LetterInv, ReportShape, Moved
<1>5. BuiltOnce'
  <2> SUFFICES ASSUME NEW j \in Kinds
               PROVE  /\ job'[j].at = "build" => Current(j)' \notin DOMAIN report
                      /\ job'[j].at \in {"send", "mark"} =>
                            /\ Current(j)' \in DOMAIN report
                            /\ job'[j].text.edition = report[Current(j)'].edition
                            /\ ~report[Current(j)'].sent
    BY DEF BuiltOnce
  <2>1. CASE j = k
    BY <1>1, <1>3, <2>1 DEF key
  <2>2. CASE j # k
    BY <2>2, OthersStay DEF LetterInv, BuiltOnce
  <2> QED BY <2>1, <2>2
<1>6. LettersAreCopies'
  <2> SUFFICES ASSUME NEW x \in DOMAIN letters'
               PROVE  /\ x \in DOMAIN report
                      /\ \A i \in DOMAIN letters'[x] : letters'[x][i] = report[x].edition
                      /\ \/ x \in doubtful'
                         \/ Len(letters'[x]) = 1 /\ (report[x].sent \/ Marking(x)')
    BY DEF LettersAreCopies
  <2>1. CASE x = key
    <3>1. job'[k].at = "mark" => Marking(x)'
      BY <1>1, <2>1 DEF Marking, key
    <3>2. x \in doubtful' \/ (Len(letters'[x]) = 1 /\ Marking(x)')
      <4>1. x \in doubtful' \/ (n = 1 /\ Marking(x)')
        BY <2>1, <3>1 DEF key
      <4>2. x \in doubtful' \/ Len(letters'[x]) = n
        BY <1>2, <2>1
      <4> QED BY <4>1, <4>2
    <3>3. x \in DOMAIN report /\ \A i \in DOMAIN letters'[x] : letters'[x][i] = report[x].edition
      BY <1>2, <1>3, <2>1
    <3> QED BY <3>2, <3>3
  <2>2. CASE x # key
    <3>1. x \in DOMAIN letters /\ letters'[x] = letters[x]
      BY <1>2, <2>2
    <3>2. Marking(x) => Marking(x)'
      BY OthersStay DEF Marking
    <3> QED BY <3>1, <3>2 DEF LetterInv, LettersAreCopies
  <2> QED BY <2>1, <2>2
<1> QED BY <1>4, <1>5, <1>6 DEF LetterInv

Started(k) == [Idle EXCEPT !.at = "find", !.period = PeriodOf(k), !.todo = Recipients]

\* A run starts with all clients and the period of its day.
LEMMA RunStarts ==
    ASSUME ReportShape, clock \in Nat, NEW k \in Kinds, StartRun(k)
    PROVE  /\ Moved(k) /\ job'[k].at = "find" /\ job'[k].period = PeriodOf(k)
           /\ job'[k].todo = Recipients
<1>1. job' = [job EXCEPT ![k] = Started(k)]
  BY DEF StartRun, Started
<1>2. Recipients \in Seq(Clients) /\ Recipients # <<>> /\ Length[k] \in Nat \ {0}
  BY ReportsAssumption
<1>3. PeriodOf(k) \in Nat
  BY <1>2 DEF PeriodOf
<1>4. Unread \in Texts
  BY DEF Unread, Texts, Reviews
<1>5. Started(k).at = "find" /\ Started(k).period = PeriodOf(k) /\ Started(k).todo = Recipients
  BY DEF Started, Idle
<1>6. Started(k) \in Runs
  BY <1>2, <1>3, <1>4 DEF Started, Idle, Runs
<1>7. Moved(k) /\ job'[k] = Started(k)
  BY <1>1, <1>2, <1>5, <1>6, MovedTo
<1> QED BY <1>5, <1>7

LEMMA RunDies ==
    ASSUME ReportShape, NEW k \in Kinds, CrashRun(k) PROVE Moved(k) /\ job'[k].at = "idle"
<1>1. Idle \in Runs /\ Idle.at = "idle"
  BY DEF Unread, Texts, Reviews, Idle, Runs
<1>2. job' = [job EXCEPT ![k] = Idle]
  BY DEF CrashRun
<1> QED BY <1>1, <1>2, MovedTo

LEMMA SendKeeps == ASSUME LetterInv, NEW k \in Kinds, SendReport(k) PROVE LetterInv'
<1>1. /\ job[k].at = "send" /\ ReportShape /\ job[k] \in Runs
      /\ Received(Current(k), 1, job[k].text.edition) /\ Goto(k, "mark")
      /\ UNCHANGED <<report, editions, doubtful>>
  BY DEF SendReport, LetterInv, ReportShape
<1>2. Moved(k) /\ job'[k] = [job[k] EXCEPT !.at = "mark"]
  BY <1>1, Went
<1>3. job'[k].at = "mark" /\ UNCHANGED <<job[k].todo, job[k].period, job[k].text>>
  BY <1>1, <1>2 DEF Runs
<1> QED BY <1>1, <1>2, <1>3, LetterOut

LEMMA SendFailsKeeps == ASSUME LetterInv, NEW k \in Kinds, SendFails(k) PROVE LetterInv'
<1>1. /\ job[k].at = "send" /\ ReportShape /\ job[k] \in Runs
      /\ UNCHANGED <<report, editions>>
  BY DEF SendFails, LetterInv, ReportShape
<1>2. CASE Throw(k, "REPORT_DELIVERY_FAILED") /\ UNCHANGED <<letters, doubtful>>
  <2>1. Moved(k) /\ job'[k] = [job[k] EXCEPT !.at = "failed", !.code = "REPORT_DELIVERY_FAILED"]
    BY <1>1, <1>2, Threw
  <2>2. job'[k].at = "failed"
    BY <1>1, <2>1 DEF Runs
  <2> QED BY <1>1, <1>2, <2>1, <2>2, TurnKeeps
<1>3. ASSUME NEW again \in BOOLEAN,
             Received(Current(k), IF again THEN 2 ELSE 1, job[k].text.edition),
             doubtful' = doubtful \cup {Current(k)},
             IF again THEN Goto(k, "mark") ELSE Throw(k, "REPORT_DELIVERY_FAILED")
      PROVE  LetterInv'
  <2>1. CASE again
    <3>1. Moved(k) /\ job'[k] = [job[k] EXCEPT !.at = "mark"]
      BY <1>1, <1>3, <2>1, Went
    <3>2. job'[k].at = "mark" /\ UNCHANGED <<job[k].todo, job[k].period, job[k].text>>
      BY <1>1, <3>1 DEF Runs
    <3>3. Received(Current(k), 2, job[k].text.edition) /\ Current(k) \in doubtful'
      BY <1>3, <2>1
    <3> QED BY <1>1, <1>3, <3>1, <3>2, <3>3, LetterOut
  <2>2. CASE ~again
    <3>1. Moved(k) /\ job'[k] = [job[k] EXCEPT !.at = "failed", !.code = "REPORT_DELIVERY_FAILED"]
      BY <1>1, <1>3, <2>2, Threw
    <3>2. job'[k].at = "failed" /\ UNCHANGED <<job[k].todo, job[k].period, job[k].text>>
      BY <1>1, <3>1 DEF Runs
    <3>3. Received(Current(k), 1, job[k].text.edition) /\ Current(k) \in doubtful'
      BY <1>3, <2>2
    <3> QED BY <1>1, <1>3, <3>1, <3>2, <3>3, LetterOut
  <2> QED BY <2>1, <2>2
<1> QED BY <1>2, <1>3 DEF SendFails

\* The mark is all that changes of a stored report.
LEMMA MarkKeeps == ASSUME LetterInv, NEW k \in Kinds, MarkReportSent(k) PROVE LetterInv'
<1> DEFINE key == Current(k)
<1>1. /\ job[k].at = "mark" /\ ReportShape /\ Continue(k)
      /\ report' = [report EXCEPT ![key].sent = TRUE]
      /\ UNCHANGED <<editions, letters, doubtful>>
  BY DEF MarkReportSent, LetterInv
<1>2. Moved(k) /\ job'[k].at \in {"idle", "find"}
  BY <1>1, Continued
<1>3. /\ key \in DOMAIN report
      /\ report[key] \in [edition : Nat, review : Reviews, sent : BOOLEAN]
  BY <1>1 DEF LetterInv, BuiltOnce, ReportShape
<1>4. /\ DOMAIN report' = DOMAIN report
      /\ report'[key] = [report[key] EXCEPT !.sent = TRUE]
      /\ \A x \in DOMAIN report : x # key => report'[x] = report[x]
  BY <1>1, <1>3
<1>5. /\ report'[key] \in [edition : Nat, review : Reviews, sent : BOOLEAN]
      /\ report'[key].sent /\ report'[key].edition = report[key].edition
  BY <1>3, <1>4
<1>6. \A x \in DOMAIN report : /\ report'[x].edition = report[x].edition
                               /\ report[x].sent => report'[x].sent
  BY <1>4, <1>5
<1> HIDE DEF key
<1>7. ReportShape'
  BY <1>1, <1>2, <1>4, <1>5 DEF ReportShape, Moved
<1>8. BuiltOnce'
  <2> SUFFICES ASSUME NEW j \in Kinds
               PROVE  /\ job'[j].at = "build" => Current(j)' \notin DOMAIN report'
                      /\ job'[j].at \in {"send", "mark"} =>
                            /\ Current(j)' \in DOMAIN report'
                            /\ job'[j].text.edition = report'[Current(j)'].edition
                            /\ ~report'[Current(j)'].sent
    BY DEF BuiltOnce
  <2>1. CASE j = k
    BY <1>2, <2>1
  <2>2. CASE j # k
    <3>1. Current(j) # key
      BY <2>2, RunsApart DEF key
    <3> QED BY <1>2, <1>4, <2>2, <3>1, OthersStay DEF LetterInv, BuiltOnce
  <2> QED BY <2>1, <2>2
<1>9. LettersAreCopies'
  <2> SUFFICES ASSUME NEW x \in DOMAIN letters
               PROVE  /\ x \in DOMAIN report'
                      /\ \A i \in DOMAIN letters[x] : letters[x][i] = report'[x].edition
                      /\ x \in doubtful \/ (Len(letters[x]) = 1 /\ (report'[x].sent \/ Marking(x)'))
    BY <1>1 DEF LettersAreCopies
  <2>1. Marking(x) => x = key \/ Marking(x)'
    BY <1>2, OthersStay DEF Marking, key
  <2> QED BY <1>4, <1>5, <1>6, <2>1 DEF LetterInv, LettersAreCopies
<1> QED BY <1>7, <1>8, <1>9 DEF LetterInv

\* A run starts, fails, is recorded or dies.
LEMMA TurnsKeep ==
    ASSUME LetterInv, clock \in Nat, NEW k \in Kinds,
           StartRun(k) \/ FailToBuild(k) \/ MarkFails(k) \/ RecordFailure(k) \/ CrashRun(k)
    PROVE  LetterInv'
<1>1. ReportShape /\ job[k] \in Runs /\ UNCHANGED <<report, editions, letters>>
  BY DEF LetterInv, ReportShape, StartRun, FailToBuild, MarkFails, RecordFailure, CrashRun
<1>2. /\ doubtful \subseteq doubtful'
      /\ job[k].at = "mark" => Current(k) \in doubtful'
  BY DEF StartRun, FailToBuild, MarkFails, RecordFailure, CrashRun
<1>3. CASE StartRun(k)
  <2>1. Moved(k) /\ job'[k].at = "find"
    BY <1>1, <1>3, RunStarts
  <2> QED BY <1>1, <1>2, <2>1, TurnKeeps
<1>4. CASE FailToBuild(k) \/ MarkFails(k)
  <2>1. Throw(k, "REPORT_FAILED") /\ job[k].at # "idle"
    BY <1>4 DEF FailToBuild, MarkFails
  <2>2. Moved(k) /\ job'[k] = [job[k] EXCEPT !.at = "failed", !.code = "REPORT_FAILED"]
    BY <1>1, <2>1, Threw
  <2>3. job'[k].at = "failed"
    BY <1>1, <2>2 DEF Runs
  <2> QED BY <1>1, <1>2, <2>2, <2>3, TurnKeeps
<1>5. CASE RecordFailure(k)
  <2>1. Continue(k) /\ job[k].at # "idle"
    BY <1>5 DEF RecordFailure
  <2>2. Moved(k) /\ job'[k].at \in {"idle", "find"}
    BY <1>1, <2>1, Continued
  <2> QED BY <1>1, <1>2, <2>2, TurnKeeps
<1>6. CASE CrashRun(k)
  <2>1. Moved(k) /\ job'[k].at = "idle"
    BY <1>1, <1>6, RunDies
  <2> QED BY <1>1, <1>2, <2>1, TurnKeeps
<1> QED BY <1>3, <1>4, <1>5, <1>6

\* No step breaks what is said of the letters.
LEMMA LetterStep == ASSUME LetterInv, clock \in Nat, [Next]_vars PROVE LetterInv'
<1>1. CASE ReportsNext
  <2>1. PICK k \in Kinds :
          \/ StartRun(k) \/ FindReport(k) \/ BuildReport(k) \/ FailToBuild(k)
          \/ SendReport(k) \/ SendFails(k) \/ MarkReportSent(k) \/ MarkFails(k)
          \/ RecordFailure(k) \/ CrashRun(k)
    BY <1>1 DEF ReportsNext
  <2> QED BY <2>1, FindKeeps, BuildKeeps, SendKeeps, SendFailsKeeps, MarkKeeps, TurnsKeep
<1>2. CASE UNCHANGED <<job, report, editions, letters, doubtful>>
  BY <1>2 DEF LetterInv, ReportShape, BuiltOnce, LettersAreCopies, Marking, Current
<1> QED BY <1>1, <1>2 DEF Next, Tick, Others, vars, reportVars

\* What is sent is what is stored, a report is built once, and a letter that is neither marked
\* nor about to be is in doubt.
THEOREM LettersAreKept == Spec => []LetterInv
<1>1. LetterInv /\ AlertInv /\ [Next]_vars => LetterInv'
  BY LetterStep DEF AlertInv, LogShape
<1> QED BY AlertsAreKept, LetterInit, <1>1, PTL DEF Spec

\* A client receives the report of a period once, unless the process died or was misled between
\* sending and marking, and then the same text again, although the figures have moved since.
THEOREM OneTextOnly == Spec => []OneText
<1>1. LetterInv => OneText
  <2> SUFFICES ASSUME LetterInv, NEW key \in DOMAIN letters
               PROVE  /\ \A i, j \in DOMAIN letters[key] : letters[key][i] = letters[key][j]
                      /\ Len(letters[key]) > 1 => key \in doubtful
    BY DEF OneText
  <2>1. \A i \in DOMAIN letters[key] : letters[key][i] = report[key].edition
    BY DEF LetterInv, LettersAreCopies
  <2>2. key \in doubtful \/ Len(letters[key]) = 1
    BY DEF LetterInv, LettersAreCopies
  <2>3. \A i, j \in DOMAIN letters[key] : letters[key][i] = letters[key][j]
    BY <2>1
  <2>4. Len(letters[key]) > 1 => key \in doubtful
    BY <2>2
  <2> QED BY <2>3, <2>4
<1> QED BY LettersAreKept, <1>1, PTL

-----------------------------------------------------------------------------

(* No client is passed over. *)

\* A period ends at a tick at which the jobs are due.
LEMMA PeriodsEnd ==
    ASSUME NEW a \in Nat, NEW L \in Nat \ {0}
    PROVE  \/ (a + 1) \div L = a \div L
           \/ (a + 1) \div L = (a \div L) + 1 /\ (a + 1) % L = 0
<1>1. ASSUME NEW b \in Nat
      PROVE  b \div L \in Nat /\ b % L \in 0 .. L - 1 /\ (b \div L) * L + (b % L) = b
  <2>1. b \div L \in Nat
    OBVIOUS
  <2>2. b % L \in 0 .. L - 1
    OBVIOUS
  <2>3. (b \div L) * L + (b % L) = b
    OBVIOUS
  <2> QED BY <2>1, <2>2, <2>3
<1>2. ASSUME NEW q \in Nat, NEW p \in Nat, NEW r \in 0 .. L - 1, NEW s \in 0 .. L - 1,
             q * L + r + 1 = p * L + s
      PROVE  p = q \/ (p = q + 1 /\ s = 0)
  BY <1>2
<1>3. a \div L \in Nat /\ a % L \in 0 .. L - 1 /\ (a \div L) * L + (a % L) = a
  BY <1>1
<1>4. /\ (a + 1) \div L \in Nat /\ (a + 1) % L \in 0 .. L - 1
      /\ ((a + 1) \div L) * L + ((a + 1) % L) = a + 1
  BY <1>1
<1>5. (a \div L) * L + (a % L) + 1 = ((a + 1) \div L) * L + ((a + 1) % L)
  BY <1>3, <1>4
<1> QED BY <1>2, <1>3, <1>4, <1>5

LEMMA PeriodIsNat == ASSUME clock \in Nat, NEW k \in Kinds PROVE PeriodOf(k) \in Nat
<1>1. Length[k] \in Nat \ {0}
  BY ReportsAssumption
<1> QED BY <1>1 DEF PeriodOf

AnswersGrow ==
    /\ doubtful \subseteq doubtful' /\ log \subseteq log' /\ DOMAIN report \subseteq DOMAIN report'
    /\ \A key \in DOMAIN report : report[key].sent => report'[key].sent

\* What is answered stays answered.
LEMMA AnswersStay ==
    ASSUME AnswersGrow, NEW c, NEW k, NEW p, AnsweredOnce(c, k, p)
    PROVE  AnsweredOnce(c, k, p)'
BY DEF AnsweredOnce, AnswersGrow

\* The clients a run has before it, when it goes on.
LEMMA RestToCome ==
    ASSUME NEW s \in Seq(Clients), s # <<>>, NEW i \in DOMAIN s
    PROVE  s[i] = Head(s) \/ (Len(s) # 1 /\ \E j \in DOMAIN Tail(s) : Tail(s)[j] = s[i])
<1>1. Len(s) \in Nat /\ DOMAIN s = 1 .. Len(s) /\ Len(s) # 0
  BY LenProperties, EmptySeq
<1>2. CASE i = 1
  BY <1>2
<1>3. CASE i # 1
  <2>1. i \in 2 .. Len(s) /\ i - 1 \in 1 .. Len(s) - 1 /\ Len(s) # 1
    BY <1>1, <1>3
  <2>2. Tail(s) \in Seq(Clients) /\ Len(Tail(s)) = Len(s) - 1
    BY HeadTailProperties
  <2>3. DOMAIN Tail(s) = 1 .. Len(s) - 1
    BY <2>2, LenProperties
  <2>4. Tail(s)[i - 1] = s[i]
    BY <1>1, <2>1
  <2> QED BY <2>1, <2>3, <2>4
<1> QED BY <1>2, <1>3

\* What holds of a step of one run: the other runs are where they were, and its own has the
\* clients before it who are not answered.
Served(k) ==
    /\ job[k].at # "idle" => job[k].period = PeriodOf(k)
    /\ \A c \in Clients :
          \/ AnsweredOnce(c, k, PeriodOf(k))
          \/ k \in due \/ (job[k].at # "idle" /\ c \in ToCome(k))

LEMMA OneRunServes ==
    ASSUME AnsweredBut, NEW k \in Kinds, clock \in Nat, UNCHANGED clock, Moved(k), Served(k)',
           \A j \in Kinds \ {k} : j \in due => j \in due', AnswersGrow
    PROVE  AnsweredBut'
<1>1. \A j \in Kinds : PeriodOf(j)' = PeriodOf(j)
  BY DEF PeriodOf
<1> SUFFICES ASSUME NEW j \in Kinds
             PROVE  /\ job'[j].at # "idle" => job'[j].period = PeriodOf(j)
                    /\ \A c \in Clients, p \in 0 .. PeriodOf(j) :
                          \/ AnsweredOnce(c, j, p)'
                          \/ p = PeriodOf(j) /\ (j \in due' \/ (job'[j].at # "idle" /\ c \in ToCome(j)'))
  BY <1>1 DEF AnsweredBut
<1>2. \A c \in Clients, p \in 0 .. PeriodOf(j) :
         \/ AnsweredOnce(c, j, p)'
         \/ p = PeriodOf(j) /\ (j \in due \/ (job[j].at # "idle" /\ c \in ToCome(j)))
  BY AnswersStay DEF AnsweredBut
<1>3. CASE j = k
  <2>1. job'[j].at # "idle" => job'[j].period = PeriodOf(j)
    BY <1>1, <1>3 DEF Served
  <2>2. ASSUME NEW c \in Clients, NEW p \in 0 .. PeriodOf(j), ~AnsweredOnce(c, j, p)'
        PROVE  p = PeriodOf(j) /\ (j \in due' \/ (job'[j].at # "idle" /\ c \in ToCome(j)'))
    <3>1. p = PeriodOf(j)
      BY <1>2, <2>2
    <3>2. p = PeriodOf(j)'
      BY <1>1, <3>1
    <3> QED BY <1>3, <2>2, <3>1, <3>2 DEF Served
  <2> QED BY <2>1, <2>2
<1>4. CASE j # k
  <2>1. job'[j] = job[j] /\ ToCome(j)' = ToCome(j)
    BY <1>4 DEF Moved, ToCome
  <2>2. job[j].at # "idle" => job[j].period = PeriodOf(j)
    BY DEF AnsweredBut
  <2> QED BY <1>2, <1>4, <2>1, <2>2
<1> QED BY <1>3, <1>4

\* A run that goes on with its client.
LEMMA GoesOn ==
    ASSUME AnsweredBut, NEW k \in Kinds, clock \in Nat, job[k].at # "idle", job'[k].at # "idle",
           UNCHANGED <<clock, due, job[k].todo, job[k].period>>, AnswersGrow
    PROVE  Served(k)'
<1>1. PeriodOf(k)' = PeriodOf(k) /\ ToCome(k)' = ToCome(k) /\ PeriodOf(k) \in 0 .. PeriodOf(k)
  BY PeriodIsNat DEF PeriodOf, ToCome
<1>2. \A c \in Clients : AnsweredOnce(c, k, PeriodOf(k)) \/ k \in due \/ c \in ToCome(k)
  BY <1>1 DEF AnsweredBut
<1>3. \A c \in Clients : AnsweredOnce(c, k, PeriodOf(k))' \/ k \in due' \/ c \in ToCome(k)'
  <2> SUFFICES ASSUME NEW c \in Clients, AnsweredOnce(c, k, PeriodOf(k))
               PROVE  AnsweredOnce(c, k, PeriodOf(k))'
    BY <1>1, <1>2
  <2> DEFINE p == PeriodOf(k)
  <2>1. PICK q : q = PeriodOf(k)
    OBVIOUS
  <2>2. AnsweredOnce(c, k, q)'
    BY <2>1, AnswersStay
  <2> QED BY <1>1, <2>1, <2>2
<1> QED BY <1>1, <1>3 DEF Served, AnsweredBut

\* A run that goes on with the next: the one it leaves is answered.
LEMMA GoesToNext ==
    ASSUME AnsweredBut, ReportShape, NEW k \in Kinds, clock \in Nat, job[k].at # "idle",
           Continue(k), UNCHANGED <<clock, due>>, AnswersGrow,
           \A c, q : c = Head(job[k].todo) /\ q = PeriodOf(k) => AnsweredOnce(c, k, q)'
    PROVE  Served(k)'
<1>1. PeriodOf(k)' = PeriodOf(k) /\ PeriodOf(k) \in 0 .. PeriodOf(k)
  BY PeriodIsNat DEF PeriodOf
<1> DEFINE s == job[k].todo
<1>2. s \in Seq(Clients) /\ s # <<>>
  BY DEF ReportShape, Runs
<1>3. \/ job'[k].at = "idle" /\ Len(s) = 1
      \/ Len(s) # 1 /\ job'[k].at = "find" /\ job'[k].period = job[k].period /\ job'[k].todo = Tail(s)
  BY Continued
<1>4. job'[k].at # "idle" => job'[k].period = PeriodOf(k)'
  BY <1>1, <1>3 DEF AnsweredBut
<1>5. PICK q : q = PeriodOf(k)
  OBVIOUS
<1>6. ASSUME NEW c \in Clients
      PROVE  AnsweredOnce(c, k, q)' \/ k \in due' \/ (job'[k].at # "idle" /\ c \in ToCome(k)')
  <2>1. AnsweredOnce(c, k, q) \/ k \in due \/ c \in ToCome(k)
    BY <1>1, <1>5 DEF AnsweredBut
  <2>2. CASE AnsweredOnce(c, k, q)
    BY <2>2, AnswersStay
  <2>3. CASE c \in ToCome(k)
    <3>1. PICK i \in DOMAIN s : s[i] = c
      BY <2>3 DEF ToCome
    <3>2. c = Head(s) \/ (Len(s) # 1 /\ \E j \in DOMAIN Tail(s) : Tail(s)[j] = c)
      BY <1>2, <3>1, RestToCome
    <3>3. CASE c = Head(s)
      BY <1>5, <3>3
    <3>4. CASE Len(s) # 1 /\ \E j \in DOMAIN Tail(s) : Tail(s)[j] = c
      BY <1>3, <3>4 DEF ToCome
    <3> QED BY <3>2, <3>3, <3>4
  <2> QED BY <2>1, <2>2, <2>3
<1> QED BY <1>1, <1>4, <1>5, <1>6 DEF Served

LEMMA ContinuedServes ==
    ASSUME AnsweredBut, ReportShape, NEW k \in Kinds, clock \in Nat, job[k].at # "idle",
           Continue(k), UNCHANGED <<clock, due>>, AnswersGrow,
           \A c, q : c = Head(job[k].todo) /\ q = PeriodOf(k) => AnsweredOnce(c, k, q)'
    PROVE  AnsweredBut'
<1>1. Served(k)'
  BY GoesToNext
<1>2. Moved(k)
  BY Continued
<1> QED BY <1>1, <1>2, OneRunServes

LEMMA WentServes ==
    ASSUME AnsweredBut, ReportShape, NEW k \in Kinds, clock \in Nat, job[k].at # "idle",
           NEW at \in {"build", "mark"}, Goto(k, at), UNCHANGED <<clock, due>>, AnswersGrow
    PROVE  AnsweredBut'
<1>1. job[k] \in Runs
  BY DEF ReportShape
<1>2. Moved(k) /\ job'[k] = [job[k] EXCEPT !.at = at]
  BY Went
<1>3. job'[k].at # "idle" /\ UNCHANGED <<job[k].todo, job[k].period>>
  BY <1>1, <1>2 DEF Runs
<1> QED BY <1>2, <1>3, GoesOn, OneRunServes

LEMMA ThrewServes ==
    ASSUME AnsweredBut, ReportShape, NEW k \in Kinds, clock \in Nat, job[k].at # "idle",
           NEW code \in {"REPORT_FAILED", "REPORT_DELIVERY_FAILED"}, Throw(k, code),
           UNCHANGED <<clock, due>>, AnswersGrow
    PROVE  AnsweredBut'
<1>1. job[k] \in Runs
  BY DEF ReportShape
<1>2. Moved(k) /\ job'[k] = [job[k] EXCEPT !.at = "failed", !.code = code]
  BY Threw
<1>3. job'[k].at # "idle" /\ UNCHANGED <<job[k].todo, job[k].period>>
  BY <1>1, <1>2 DEF Runs
<1> QED BY <1>2, <1>3, GoesOn, OneRunServes

LEMMA SendingServes ==
    ASSUME AnsweredBut, ReportShape, NEW k \in Kinds, clock \in Nat, job[k].at # "idle",
           NEW text \in Texts, job' = [job EXCEPT ![k].at = "send", ![k].text = text],
           UNCHANGED <<clock, due>>, AnswersGrow
    PROVE  AnsweredBut'
<1>1. job[k] \in Runs
  BY DEF ReportShape
<1>2. Moved(k) /\ job'[k] = [job[k] EXCEPT !.at = "send", !.text = text]
  BY ToSendIt
<1>3. job'[k].at # "idle" /\ UNCHANGED <<job[k].todo, job[k].period>>
  <2>1. job'[k].at = "send"
    BY <1>1, <1>2 DEF Runs
  <2>2. job'[k].todo = job[k].todo
    BY <1>1, <1>2 DEF Runs
  <2>3. job'[k].period = job[k].period
    BY <1>1, <1>2 DEF Runs
  <2> QED BY <2>1, <2>2, <2>3
<1> QED BY <1>2, <1>3, GoesOn, OneRunServes

\* No step of a run passes a client over.
LEMMA RunsServe ==
    ASSUME AnsweredBut, LetterInv, clock \in Nat, NEW k \in Kinds,
           \/ StartRun(k) \/ FindReport(k) \/ BuildReport(k) \/ FailToBuild(k)
           \/ SendReport(k) \/ SendFails(k) \/ MarkReportSent(k) \/ MarkFails(k)
           \/ RecordFailure(k) \/ CrashRun(k)
    PROVE  AnsweredBut'
<1>1. ReportShape /\ job[k] \in Runs /\ PeriodOf(k) \in Nat
  BY PeriodIsNat DEF LetterInv, ReportShape
<1>2. job[k].at # "idle" => job[k].period = PeriodOf(k)
  BY DEF AnsweredBut
<1>3. UNCHANGED clock
  BY DEF StartRun, FindReport, BuildReport, FailToBuild, SendReport, SendFails, MarkReportSent,
         MarkFails, RecordFailure, CrashRun
<1>4. CASE StartRun(k)
  <2>1. Moved(k) /\ job'[k].at = "find" /\ job'[k].period = PeriodOf(k) /\ job'[k].todo = Recipients
    BY <1>1, <1>4, RunStarts
  <2>2. AnswersGrow /\ \A j \in Kinds \ {k} : j \in due => j \in due'
    BY <1>4 DEF StartRun, AnswersGrow
  <2>3. PeriodOf(k)' = PeriodOf(k) /\ \A c \in Clients : c \in ToCome(k)'
    BY <1>3, <2>1 DEF PeriodOf, ToCome, Clients
  <2>4. Served(k)'
    BY <2>1, <2>3 DEF Served
  <2> QED BY <1>3, <2>1, <2>2, <2>4, OneRunServes
<1>5. CASE FindReport(k)
  <2>1. job[k].at = "find" /\ AnswersGrow /\ UNCHANGED <<due, log, report, doubtful>>
    BY <1>5 DEF FindReport, AnswersGrow
  <2>2. CASE Current(k) \notin DOMAIN report
    <3>1. Goto(k, "build")
      BY <1>5, <2>2 DEF FindReport
    <3> QED BY <1>1, <1>3, <2>1, <3>1, WentServes
  <2>3. CASE Current(k) \in DOMAIN report /\ report[Current(k)].sent
    <3>1. Continue(k)
      BY <1>5, <2>3 DEF FindReport
    <3>2. \A c, q : c = Head(job[k].todo) /\ q = PeriodOf(k) => AnsweredOnce(c, k, q)'
      BY <1>2, <2>1, <2>3 DEF AnsweredOnce, Current
    <3> QED BY <1>1, <1>3, <2>1, <3>1, <3>2, ContinuedServes
  <2>4. CASE Current(k) \in DOMAIN report /\ ~report[Current(k)].sent
    <3> DEFINE row == report[Current(k)]
               text == [edition |-> row.edition, review |-> row.review]
    <3>1. job' = [job EXCEPT ![k].at = "send", ![k].text = text]
      BY <1>5, <2>4 DEF FindReport, Reusable
    <3>2. text \in Texts
      BY <1>1, <2>4 DEF ReportShape, Texts
    <3> HIDE DEF text
    <3> QED BY <1>1, <1>3, <2>1, <3>1, <3>2, SendingServes
  <2> QED BY <2>2, <2>3, <2>4
<1>6. CASE BuildReport(k)
  <2> DEFINE edition == Held(editions, Current(k)) + 1
  <2>1. PICK review \in Reviews :
          /\ report' = Extend(report, Current(k),
                          [edition |-> edition, review |-> review,
                           sent |-> Current(k) \in DOMAIN report /\ report[Current(k)].sent])
          /\ job' = [job EXCEPT ![k].at = "send",
                        ![k].text = [edition |-> edition, review |-> review]]
    BY <1>6 DEF BuildReport, Reviews
  <2> DEFINE text == [edition |-> edition, review |-> review]
  <2>2. text \in Texts
    BY <1>1 DEF ReportShape, Held, Texts
  <2>3. job[k].at = "build" /\ Current(k) \notin DOMAIN report /\ UNCHANGED <<due, log, doubtful>>
    BY <1>6 DEF BuildReport, LetterInv, BuiltOnce
  <2>4. job' = [job EXCEPT ![k].at = "send", ![k].text = text]
    BY <2>1
  <2> HIDE DEF text, edition
  <2>5. AnswersGrow
    BY <2>1, <2>3 DEF AnswersGrow, Extend
  <2> QED BY <1>1, <1>3, <2>2, <2>3, <2>4, <2>5, SendingServes
<1>7. CASE SendReport(k)
  <2>1. /\ job[k].at = "send" /\ Goto(k, "mark") /\ AnswersGrow /\ UNCHANGED due
    BY <1>7 DEF SendReport, AnswersGrow
  <2> QED BY <1>1, <1>3, <2>1, WentServes
<1>8. CASE FailToBuild(k) \/ MarkFails(k) \/ SendFails(k)
  <2>1. job[k].at # "idle" /\ AnswersGrow /\ UNCHANGED due
    BY <1>8 DEF FailToBuild, MarkFails, SendFails, AnswersGrow
  <2>2. \/ Goto(k, "mark")
        \/ Throw(k, "REPORT_FAILED") \/ Throw(k, "REPORT_DELIVERY_FAILED")
    BY <1>8 DEF FailToBuild, MarkFails, SendFails
  <2> QED BY <1>1, <1>3, <2>1, <2>2, WentServes, ThrewServes
<1>9. CASE MarkReportSent(k)
  <2>1. /\ job[k].at = "mark" /\ Continue(k) /\ UNCHANGED <<due, log, doubtful>>
        /\ report' = [report EXCEPT ![Current(k)].sent = TRUE]
    BY <1>9 DEF MarkReportSent
  <2>2. /\ Current(k) \in DOMAIN report
        /\ report[Current(k)] \in [edition : Nat, review : Reviews, sent : BOOLEAN]
    BY <1>1, <2>1 DEF LetterInv, BuiltOnce, ReportShape
  <2>3. /\ DOMAIN report' = DOMAIN report
        /\ report'[Current(k)] = [report[Current(k)] EXCEPT !.sent = TRUE]
        /\ \A x \in DOMAIN report : x # Current(k) => report'[x] = report[x]
    BY <2>1, <2>2
  <2>4. report'[Current(k)].sent
    BY <2>2, <2>3
  <2>5. AnswersGrow
    BY <2>1, <2>3, <2>4 DEF AnswersGrow
  <2>6. \A c, q : c = Head(job[k].todo) /\ q = PeriodOf(k) => AnsweredOnce(c, k, q)'
    BY <1>2, <2>1, <2>2, <2>3, <2>4 DEF AnsweredOnce, Current
  <2> QED BY <1>1, <1>3, <2>1, <2>5, <2>6, ContinuedServes
<1>10. CASE RecordFailure(k)
  <2>1. job[k].at = "failed" /\ Continue(k) /\ AnswersGrow /\ UNCHANGED <<due, report>>
    BY <1>10 DEF RecordFailure, AnswersGrow
  <2>2. CASE log' = log \cup {Row(Head(job[k].todo), job[k].code, k)}
    <3>1. \A c, q : c = Head(job[k].todo) /\ q = PeriodOf(k) => AnsweredOnce(c, k, q)'
      <4> SUFFICES ASSUME NEW c, NEW q, c = Head(job[k].todo), q = PeriodOf(k)
                   PROVE  \E r \in log' : r.client = c /\ r.stage = k /\ r.at \div Length[k] = q
        BY DEF AnsweredOnce
      <4>1. Row(c, job[k].code, k) \in log'
        BY <2>2
      <4> QED BY <4>1 DEF Row, PeriodOf
    <3> QED BY <1>1, <1>3, <2>1, <3>1, ContinuedServes
  <2>3. CASE doubtful' = doubtful \cup {Current(k)}
    <3>1. \A c, q : c = Head(job[k].todo) /\ q = PeriodOf(k) => AnsweredOnce(c, k, q)'
      BY <1>2, <2>1, <2>3 DEF AnsweredOnce, Current
    <3> QED BY <1>1, <1>3, <2>1, <3>1, ContinuedServes
  <2> QED BY <1>10, <2>2, <2>3 DEF RecordFailure
<1>11. CASE CrashRun(k)
  <2>1. Moved(k) /\ job'[k].at = "idle"
    BY <1>1, <1>11, RunDies
  <2>2. AnswersGrow /\ due \subseteq due' /\ k \in due'
    BY <1>11 DEF CrashRun, AnswersGrow
  <2>3. Served(k)'
    BY <2>1, <2>2 DEF Served
  <2> QED BY <1>3, <2>1, <2>2, <2>3, OneRunServes
<1> QED BY <1>4, <1>5, <1>6, <1>7, <1>8, <1>9, <1>10, <1>11

\* The clock goes on when every run is through: what ends is answered, and what begins is due.
LEMMA TickServes == ASSUME AnsweredBut, clock \in Nat, Tick PROVE AnsweredBut'
<1>1. /\ RunsDone /\ clock' = clock + 1 /\ log \subseteq log'
      /\ due' = DueAt(clock') /\ UNCHANGED <<job, report, doubtful>>
  BY DEF Tick, RunAlertScan, MissScan
<1>2. AnswersGrow
  BY <1>1 DEF AnswersGrow
<1> SUFFICES ASSUME NEW k \in Kinds
             PROVE  /\ job'[k].at # "idle" => job'[k].period = PeriodOf(k)'
                    /\ \A c \in Clients, p \in 0 .. PeriodOf(k)' :
                          \/ AnsweredOnce(c, k, p)'
                          \/ p = PeriodOf(k)' /\ (k \in due' \/ (job'[k].at # "idle" /\ c \in ToCome(k)'))
  BY DEF AnsweredBut
<1>3. job[k].at = "idle" /\ k \notin due
  BY <1>1 DEF RunsDone
<1>4. \A c \in Clients, p \in 0 .. PeriodOf(k) : AnsweredOnce(c, k, p)'
  BY <1>2, <1>3, AnswersStay DEF AnsweredBut
<1>5. \/ PeriodOf(k)' = PeriodOf(k)
      \/ PeriodOf(k)' = PeriodOf(k) + 1 /\ k \in due'
  <2>1. Length[k] \in Nat \ {0}
    BY ReportsAssumption
  <2>2. \/ (clock + 1) \div Length[k] = clock \div Length[k]
        \/ (clock + 1) \div Length[k] = (clock \div Length[k]) + 1 /\ (clock + 1) % Length[k] = 0
    BY <2>1, PeriodsEnd
  <2> QED BY <1>1, <2>2 DEF PeriodOf, DueAt
<1>6. PeriodOf(k) \in Nat
  BY PeriodIsNat
<1>7. ASSUME NEW c \in Clients, NEW p \in 0 .. PeriodOf(k)'
      PROVE  AnsweredOnce(c, k, p)' \/ (p = PeriodOf(k)' /\ k \in due')
  BY <1>4, <1>5, <1>6
<1> QED BY <1>1, <1>3, <1>7

LEMMA ServedStep == ASSUME AnsweredBut, LetterInv, clock \in Nat, [Next]_vars PROVE AnsweredBut'
<1>1. CASE ReportsNext
  BY <1>1, RunsServe DEF ReportsNext
<1>2. CASE Tick
  BY <1>2, TickServes
<1>3. CASE Others \/ UNCHANGED vars
  <2>1. UNCHANGED <<clock, due, job, report, doubtful>> /\ log \subseteq log'
    BY <1>3 DEF Others, LogErrors, Restart, vars, reportVars
  <2>2. AnswersGrow
    BY <2>1 DEF AnswersGrow
  <2>3. \A c, k, p : AnsweredOnce(c, k, p) => AnsweredOnce(c, k, p)'
    BY <2>2, AnswersStay
  <2> QED BY <2>1, <2>3 DEF AnsweredBut, PeriodOf, ToCome
<1> QED BY <1>1, <1>2, <1>3 DEF Next

LEMMA ServedInit == Init => AnsweredBut
<1> SUFFICES ASSUME Init, NEW k \in Kinds PROVE job[k].at = "idle" /\ k \in due /\ PeriodOf(k) = 0
  BY DEF AnsweredBut
<1>1. Length[k] \in Nat \ {0}
  BY ReportsAssumption
<1>2. PeriodOf(k) = 0
  <2>1. ASSUME NEW L \in Nat \ {0} PROVE 0 \div L = 0
    BY <2>1
  <2> QED BY <1>1, <2>1 DEF Init, PeriodOf
<1> QED BY <1>2 DEF Init, ReportsInit, Idle

\* Every client is answered for every period but those that the run of today has before it.
THEOREM RestIsToCome == Spec => []AnsweredBut
<1>1. AnsweredBut /\ LetterInv /\ AlertInv /\ [Next]_vars => AnsweredBut'
  BY ServedStep DEF AlertInv, LogShape
<1> QED BY ServedInit, AlertsAreKept, LettersAreKept, <1>1, PTL DEF Spec

\* No client's trouble is another's: whatever fails, when the run of a period has ended every
\* client's report is marked sent or in doubt, or ErrorLog says of that client, in that period,
\* that it failed.
THEOREM EveryoneIsAnswered == Spec => []Answered
<1>1. AnsweredBut /\ AlertInv => Answered
  <2> SUFFICES ASSUME AnsweredBut, clock \in Nat, NEW k \in Kinds, NEW c \in Clients,
                      NEW p \in 0 .. clock \div Length[k],
                      clock \div Length[k] > p \/ RunsDone
               PROVE  AnsweredOnce(c, k, p)
    BY DEF Answered, AnsweredOnce, AlertInv, LogShape
  <2>1. PeriodOf(k) = clock \div Length[k] /\ PeriodOf(k) \in Nat
    BY PeriodIsNat DEF PeriodOf
  <2>2. CASE RunsDone
    BY <2>1, <2>2 DEF AnsweredBut, RunsDone
  <2>3. CASE PeriodOf(k) > p
    BY <2>1, <2>3 DEF AnsweredBut
  <2> QED BY <2>1, <2>2, <2>3
<1> QED BY RestIsToCome, AlertsAreKept, <1>1, PTL
=============================================================================
