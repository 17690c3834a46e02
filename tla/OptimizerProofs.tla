--------------------------- MODULE OptimizerProofs ---------------------------
(***************************************************************************)
(* What the keys of a day are for, for any number of processes, entities   *)
(* and days: no change of a day comes twice, and no question on the same   *)
(* numbers, unless the platform or the database kept an answer to itself.  *)
(* For that nothing is assumed of the rules, the guardrails or the policy. *)
(* Then the types, and the window: seven small steps do not add up.        *)
(***************************************************************************)
EXTENDS Optimizer, FiniteSetTheorems, FoldProofs, TLAPS

\* A run is a record of its await and its locals, whatever these are.
RunShape ==
    /\ run = [w \in Workers |-> run[w]]
    /\ \A w \in Workers :
          run[w] = [at |-> run[w].at, now |-> run[w].now, stats |-> run[w].stats,
                    todo |-> run[w].todo, ask |-> run[w].ask, done |-> run[w].done]

\* The key of the change or of the card a run is about to write.
Holding(w) == run[w].at \in {"write", "issue"}
HeldKey(w) ==
    IF run[w].at = "write" THEN KeyFor(w, Head(run[w].todo)) ELSE CardKey(w, Head(run[w].todo))

\* It is reserved, and in the hands of one run only.
OneHand ==
    /\ \A w \in Workers : Holding(w) => HeldKey(w) \in keys
    /\ \A w, v \in Workers : Holding(w) /\ Holding(v) /\ HeldKey(w) = HeldKey(v) => w = v

\* What was done under a key leaves it reserved, unless the answer was lost; so a key that
\* could be reserved was not used.
Used == DOMAIN written \cup DOMAIN cards
UsedIsReserved == Used \ lost \subseteq keys
InHandIsUnused == \A w \in Workers : Holding(w) => HeldKey(w) \notin Used \ lost

KeyInv == RunShape /\ OneHand /\ UsedIsReserved /\ InHandIsUnused /\ WrittenOnce /\ AskedOnce

-----------------------------------------------------------------------------

LEMMA IncrementCounts ==
    ASSUME NEW f, NEW k
    PROVE  /\ DOMAIN Increment(f, k) = DOMAIN f \cup {k}
           /\ k \notin DOMAIN f => Increment(f, k)[k] = 1
           /\ \A j \in DOMAIN f : j # k => Increment(f, k)[j] = f[j]
BY DEF Increment, Count

\* What is counted once more under a key is, under any other key, what it was.
LEMMA OnceMore ==
    ASSUME NEW f, NEW k, NEW g, g = Increment(f, k), NEW free,
           \A j \in DOMAIN f : j \notin free => f[j] <= 1,
           k \in free \/ k \notin DOMAIN f
    PROVE  DOMAIN g = DOMAIN f \cup {k} /\ \A j \in DOMAIN g : j \notin free => g[j] <= 1
<1>1. DOMAIN g = DOMAIN f \cup {k} /\ \A j \in DOMAIN f : j # k => g[j] = f[j]
  BY IncrementCounts
<1>2. k \notin DOMAIN f => g[k] = 1
  BY IncrementCounts
<1>3. ASSUME NEW j \in DOMAIN g, j \notin free PROVE g[j] <= 1
  <2>1. CASE j = k  BY <2>1, <1>2, <1>3
  <2>2. CASE j # k  BY <2>2, <1>1, <1>3
  <2> QED BY <2>1, <2>2
<1> QED BY <1>1, <1>3

LEMMA KeyInit == Init => KeyInv
<1> SUFFICES ASSUME Init PROVE KeyInv  OBVIOUS
<1> USE DEF Init, Idle
<1>1. RunShape  BY DEF RunShape
<1>2. \A w \in Workers : ~Holding(w)  BY DEF Holding
<1>3. DOMAIN written = {} /\ DOMAIN cards = {}  OBVIOUS
<1> QED BY <1>1, <1>2, <1>3 DEF KeyInv, OneHand, Used, UsedIsReserved, InHandIsUnused, WrittenOnce, AskedOnce

\* A run puts its key down, or had none: whoever still holds one is not concerned.
LEMMA PutDown ==
    ASSUME KeyInv, NEW w \in Workers, RunShape', ~Holding(w)',
           \A v \in Workers \ {w} : run'[v] = run[v],
           keys' \subseteq keys,
           Holding(w) => keys \ {HeldKey(w)} \subseteq keys',
           ~Holding(w) => keys' = keys,
           lost \subseteq lost',
           Used' \ lost' \subseteq keys',
           Holding(w) => Used' \subseteq Used \cup {HeldKey(w)},
           ~Holding(w) => Used' = Used,
           WrittenOnce', AskedOnce'
    PROVE  KeyInv'
<1> USE DEF KeyInv
<1>1. \A v \in Workers : Holding(v)' => v # w /\ Holding(v) /\ HeldKey(v)' = HeldKey(v)
  BY DEF Holding, HeldKey, KeyFor, CardKey
<1>2. \A v \in Workers : Holding(v)' => HeldKey(v) \in keys'
  BY <1>1 DEF OneHand
<1>3. OneHand'
  BY <1>1, <1>2 DEF OneHand
<1>4. InHandIsUnused'
  BY <1>1 DEF InHandIsUnused, OneHand
<1> QED BY <1>3, <1>4 DEF UsedIsReserved
-----------------------------------------------------------------------------

\* A step of w is a step of no other run, and leaves every run a record.
LEMMA ShapeKept ==
    ASSUME RunShape, NEW w \in Workers, NEW r,
           run' = [run EXCEPT ![w] = r],
           r = [at |-> r.at, now |-> r.now, stats |-> r.stats,
                todo |-> r.todo, ask |-> r.ask, done |-> r.done]
    PROVE  RunShape' /\ run'[w] = r /\ \A v \in Workers \ {w} : run'[v] = run[v]
BY DEF RunShape

LEMMA Begun ==
    ASSUME NEW i, NEW t, NEW m, NEW ds, NEW r,
           i = [at |-> i.at, now |-> i.now, stats |-> i.stats,
                todo |-> i.todo, ask |-> i.ask, done |-> i.done],
           r = [i EXCEPT !.at = "history", !.now = t, !.stats = m, !.todo = ds]
    PROVE  r = [at |-> "history", now |-> t, stats |-> m,
                todo |-> ds, ask |-> i.ask, done |-> i.done]
OBVIOUS

LEMMA ProposeKeeps ==
    ASSUME KeyInv, NEW w \in Workers, Propose(w) PROVE KeyInv'
<1> USE DEF KeyInv
<1>1. PICK m, ds, r :
         /\ run' = [run EXCEPT ![w] = r]
         /\ r = [Idle EXCEPT !.at = "history", !.now = clock, !.stats = m, !.todo = ds]
  BY DEF Propose
<1>a. Idle = [at |-> Idle.at, now |-> Idle.now, stats |-> Idle.stats,
              todo |-> Idle.todo, ask |-> Idle.ask, done |-> Idle.done]
  BY DEF Idle
<1>b. r = [at |-> "history", now |-> clock, stats |-> m, todo |-> ds, ask |-> Idle.ask, done |-> Idle.done]
  BY <1>1, <1>a, Begun
<1>2. RunShape' /\ run'[w].at = "history" /\ \A v \in Workers \ {w} : run'[v] = run[v]
  BY <1>1, <1>b, ShapeKept
<1>3. ~Holding(w) /\ ~Holding(w)'
  BY <1>2 DEF Propose, Holding
<1>4. UNCHANGED <<keys, lost, written, cards>>
  BY DEF Propose, dbVars, historyVars
<1> QED BY <1>2, <1>3, <1>4, PutDown DEF Used, UsedIsReserved, WrittenOnce, AskedOnce

LEMMA DecideKeeps ==
    ASSUME KeyInv, NEW w \in Workers, Decide(w) PROVE KeyInv'
<1> USE DEF KeyInv
<1>1. PICK todo, ask :
         run' = [run EXCEPT ![w].at = "apply", ![w].stats = <<>>, ![w].todo = todo, ![w].ask = ask]
  BY DEF Decide
<1>a. /\ run'[w] = [run[w] EXCEPT !.at = "apply", !.stats = <<>>, !.todo = todo, !.ask = ask]
      /\ run' = [v \in Workers |-> run'[v]]
      /\ \A v \in Workers \ {w} : run'[v] = run[v]
  BY <1>1, Zenon DEF RunShape
<1>2. RunShape' /\ run'[w].at = "apply"
  BY <1>a DEF RunShape
<1>3. ~Holding(w) /\ ~Holding(w)'
  BY <1>2 DEF Decide, Holding
<1>4. UNCHANGED <<keys, lost, written, cards>>
  BY DEF Decide, dbVars
<1> QED BY <1>a, <1>2, <1>3, <1>4, PutDown DEF Used, UsedIsReserved, WrittenOnce, AskedOnce

\* A run picks a key up that nobody has and nothing was done under.
LEMMA PickUp ==
    ASSUME KeyInv, NEW w \in Workers, NEW k, RunShape', Holding(w)', HeldKey(w)' = k,
           \A v \in Workers \ {w} : run'[v] = run[v],
           ~Holding(w), k \notin keys, keys' = keys \cup {k},
           UNCHANGED <<lost, written, cards>>
    PROVE  KeyInv'
<1> USE DEF KeyInv
<1>1. \A v \in Workers \ {w} : Holding(v)' => Holding(v) /\ HeldKey(v)' = HeldKey(v)
  BY DEF Holding, HeldKey, KeyFor, CardKey
<1>2. \A v \in Workers \ {w} : Holding(v)' => HeldKey(v)' # k
  BY <1>1 DEF OneHand
<1>3. \A v \in Workers : Holding(v)' => HeldKey(v)' \in keys'
  BY <1>1 DEF OneHand
<1>4. ASSUME NEW u \in Workers, NEW v \in Workers,
             Holding(u)', Holding(v)', HeldKey(u)' = HeldKey(v)'
      PROVE  u = v
  BY <1>1, <1>2, <1>4 DEF OneHand
<1>5. OneHand'
  BY <1>3, <1>4 DEF OneHand
<1>6. Used' = Used
  BY DEF Used
<1>7. InHandIsUnused'
  BY <1>1, <1>6 DEF InHandIsUnused, UsedIsReserved
<1> QED BY <1>5, <1>6, <1>7 DEF UsedIsReserved, WrittenOnce, AskedOnce

LEMMA ReserveKeeps ==
    ASSUME KeyInv, NEW w \in Workers, Reserve(w) PROVE KeyInv'
<1> USE DEF KeyInv
<1> DEFINE k == KeyFor(w, Head(run[w].todo))
<1>1. ~Holding(w) /\ UNCHANGED <<lost, written, cards>>
  BY DEF Reserve, Holding, historyVars
<1>2. CASE Taken(k) /\ run' = [run EXCEPT ![w].todo = Tail(@)] /\ UNCHANGED keys
  <2>1. /\ run'[w] = [run[w] EXCEPT !.todo = Tail(@)]
        /\ run' = [v \in Workers |-> run'[v]]
        /\ \A v \in Workers \ {w} : run'[v] = run[v]
    BY <1>2, Zenon DEF RunShape
  <2>2. RunShape' /\ run'[w].at = run[w].at
    BY <2>1 DEF RunShape
  <2>3. ~Holding(w)'
    BY <1>1, <2>2 DEF Holding
  <2> QED BY <1>1, <1>2, <2>1, <2>2, <2>3, PutDown DEF Used, UsedIsReserved, WrittenOnce, AskedOnce
<1>3. CASE ~Taken(k) /\ run' = [run EXCEPT ![w].at = "write"] /\ keys' = keys \cup {k}
  <2>1. /\ run'[w] = [run[w] EXCEPT !.at = "write"]
        /\ run' = [v \in Workers |-> run'[v]]
        /\ \A v \in Workers \ {w} : run'[v] = run[v]
    BY <1>3, Zenon DEF RunShape
  <2>2. /\ RunShape'
        /\ run'[w].at = "write" /\ run'[w].now = run[w].now /\ run'[w].todo = run[w].todo
    BY <2>1 DEF RunShape
  <2>3. Holding(w)' /\ HeldKey(w)' = k
    BY <2>2 DEF Holding, HeldKey, KeyFor
  <2>4. k \notin keys
    BY <1>3 DEF Taken
  <2> HIDE DEF k
  <2> QED BY <1>1, <1>3, <2>1, <2>2, <2>3, <2>4, PickUp
<1> QED BY <1>2, <1>3 DEF Reserve

LEMMA WriteKeeps ==
    ASSUME KeyInv, NEW w \in Workers, Write(w) PROVE KeyInv'
<1> USE DEF KeyInv
<1> DEFINE k == KeyFor(w, Head(run[w].todo))
<1>1. /\ Holding(w) /\ HeldKey(w) = k
      /\ run' = [run EXCEPT ![w].at = "log"]
      /\ written' = Increment(written, k)
      /\ UNCHANGED <<keys, cards, lost>>
  BY DEF Write, Holding, HeldKey, CarryOut, dbVars
<1> HIDE DEF k
<1>2. /\ run'[w] = [run[w] EXCEPT !.at = "log"]
      /\ run' = [v \in Workers |-> run'[v]]
      /\ \A v \in Workers \ {w} : run'[v] = run[v]
  BY <1>1, Zenon DEF RunShape
<1>3. RunShape' /\ run'[w].at = "log"
  BY <1>2 DEF RunShape
<1>4. ~Holding(w)'
  BY <1>3 DEF Holding
<1>5. k \in keys /\ k \notin Used \ lost
  BY <1>1 DEF OneHand, InHandIsUnused
<1>6. DOMAIN written' = DOMAIN written \cup {k} /\ WrittenOnce'
  <2>1. k \in lost \/ k \notin DOMAIN written
    BY <1>5 DEF Used
  <2>2. /\ DOMAIN written' = DOMAIN written \cup {k}
        /\ \A j \in DOMAIN written' : j \notin lost => written'[j] <= 1
    <3>1. \A j \in DOMAIN written : j \notin lost => written[j] <= 1
      BY DEF WrittenOnce
    <3>2. written' = Increment(written, k)  BY <1>1
    <3> QED BY <2>1, <3>1, <3>2, OnceMore
  <2> QED BY <1>1, <2>2 DEF WrittenOnce
<1>7. Used' = Used \cup {k} /\ AskedOnce'
  BY <1>1, <1>6 DEF Used, AskedOnce
<1> QED BY <1>1, <1>2, <1>3, <1>4, <1>5, <1>6, <1>7, PutDown DEF UsedIsReserved

\* Advance goes back to the next change, whatever was done.
LEMMA AdvancePutsDown ==
    ASSUME KeyInv, NEW w \in Workers, NEW more, Advance(w, more)
    PROVE  RunShape' /\ ~Holding(w)' /\ \A v \in Workers \ {w} : run'[v] = run[v]
<1> USE DEF KeyInv
<1>1. /\ run'[w] = [run[w] EXCEPT !.at = "apply", !.todo = Tail(@), !.done = @ \cup more]
      /\ run' = [v \in Workers |-> run'[v]]
      /\ \A v \in Workers \ {w} : run'[v] = run[v]
  BY Zenon DEF RunShape, Advance
<1>2. RunShape' /\ run'[w].at = "apply"
  BY <1>1 DEF RunShape
<1> QED BY <1>1, <1>2 DEF Holding

LEMMA MissKeeps ==
    ASSUME KeyInv, NEW w \in Workers, Miss(w) PROVE KeyInv'
<1> USE DEF KeyInv
<1> DEFINE d == Head(run[w].todo)
           k == KeyFor(w, d)
<1>1. Holding(w) /\ HeldKey(w) = k /\ keys' = keys \ {k} /\ UNCHANGED cards
  BY DEF Miss, Holding, HeldKey
<1>2. RunShape' /\ ~Holding(w)' /\ \A v \in Workers \ {w} : run'[v] = run[v]
  BY AdvancePutsDown DEF Miss
<1>3. k \notin Used \ lost
  BY <1>1 DEF InHandIsUnused
<1>4. \/ UNCHANGED <<written, lost>>
      \/ written' = Increment(written, k) /\ lost' = lost \cup {k}
  BY DEF Miss, CarryOut
<1> HIDE DEF k
<1>5. CASE UNCHANGED <<written, lost>>
  BY <1>1, <1>2, <1>3, <1>5, PutDown DEF Used, UsedIsReserved, WrittenOnce, AskedOnce
<1>6. CASE written' = Increment(written, k) /\ lost' = lost \cup {k}
  <2>1. DOMAIN written' = DOMAIN written \cup {k} /\ WrittenOnce'
    <3>1. /\ DOMAIN written' = DOMAIN written \cup {k}
          /\ \A j \in DOMAIN written' : j \notin lost' => written'[j] <= 1
      <4>1. \A j \in DOMAIN written : j \notin lost' => written[j] <= 1
        BY <1>6 DEF WrittenOnce
      <4> QED BY <1>6, <4>1, OnceMore
    <3> QED BY <3>1 DEF WrittenOnce
  <2>2. Used' = Used \cup {k} /\ AskedOnce'
    BY <1>1, <1>6, <2>1 DEF Used, AskedOnce
  <2> QED BY <1>1, <1>2, <1>3, <1>6, <2>1, <2>2, PutDown DEF UsedIsReserved
<1> QED BY <1>4, <1>5, <1>6

LEMMA LogChangeKeeps ==
    ASSUME KeyInv, NEW w \in Workers, LogChange(w) PROVE KeyInv'
<1> USE DEF KeyInv
<1>1. ~Holding(w) /\ UNCHANGED <<keys, lost, written, cards>>
  BY DEF LogChange, Holding
<1>2. RunShape' /\ ~Holding(w)' /\ \A v \in Workers \ {w} : run'[v] = run[v]
  BY AdvancePutsDown DEF LogChange
<1> QED BY <1>1, <1>2, PutDown DEF Used, UsedIsReserved, WrittenOnce, AskedOnce

\* ToCards goes on to a question, or ends the run.
LEMMA ToCardsPutsDown ==
    ASSUME KeyInv, NEW w \in Workers, NEW rest, ToCards(w, rest)
    PROVE  RunShape' /\ ~Holding(w)' /\ \A v \in Workers \ {w} : run'[v] = run[v]
<1> USE DEF KeyInv
<1>1. CASE rest = {}
  <2>1. run' = [run EXCEPT ![w] = Idle]
    BY <1>1 DEF ToCards
  <2>2. Idle = [at |-> Idle.at, now |-> Idle.now, stats |-> Idle.stats,
                todo |-> Idle.todo, ask |-> Idle.ask, done |-> Idle.done] /\ Idle.at = "idle"
    BY DEF Idle
  <2> QED BY <2>1, <2>2, ShapeKept DEF Holding
<1>2. CASE rest # {}
  <2>1. /\ run'[w] = [run[w] EXCEPT !.at = "ask", !.ask = rest, !.todo = <<>>, !.done = {}]
        /\ run' = [v \in Workers |-> run'[v]]
        /\ \A v \in Workers \ {w} : run'[v] = run[v]
    BY <1>2, Zenon DEF RunShape, ToCards
  <2>2. RunShape' /\ run'[w].at = "ask"
    BY <2>1 DEF RunShape
  <2> QED BY <2>1, <2>2 DEF Holding
<1> QED BY <1>1, <1>2

LEMMA SyncLocalKeeps ==
    ASSUME KeyInv, NEW w \in Workers, SyncLocal(w) PROVE KeyInv'
<1> USE DEF KeyInv
<1>1. ~Holding(w) /\ UNCHANGED <<keys, lost, written, cards>>
  BY DEF SyncLocal, Holding, historyVars
<1>2. RunShape' /\ ~Holding(w)' /\ \A v \in Workers \ {w} : run'[v] = run[v]
  <2>1. CASE ToCards(w, run[w].ask)
    BY <2>1, ToCardsPutsDown
  <2>2. CASE run' = [run EXCEPT ![w].at = "negate"]
    <3>1. /\ run'[w] = [run[w] EXCEPT !.at = "negate"]
          /\ run' = [v \in Workers |-> run'[v]]
          /\ \A v \in Workers \ {w} : run'[v] = run[v]
      BY <2>2, Zenon DEF RunShape
    <3>2. RunShape' /\ run'[w].at = "negate"
      BY <3>1 DEF RunShape
    <3> QED BY <3>1, <3>2 DEF Holding
  <2> QED BY <2>1, <2>2 DEF SyncLocal
<1> QED BY <1>1, <1>2, PutDown DEF Used, UsedIsReserved, WrittenOnce, AskedOnce

LEMMA MarkNegatedKeeps ==
    ASSUME KeyInv, NEW w \in Workers, MarkNegated(w) PROVE KeyInv'
<1> USE DEF KeyInv
<1>1. ~Holding(w) /\ UNCHANGED <<keys, lost, written, cards>>
  BY DEF MarkNegated, Holding, historyVars
<1>2. RunShape' /\ ~Holding(w)' /\ \A v \in Workers \ {w} : run'[v] = run[v]
  BY ToCardsPutsDown DEF MarkNegated
<1> QED BY <1>1, <1>2, PutDown DEF Used, UsedIsReserved, WrittenOnce, AskedOnce

LEMMA ReserveCardKeeps ==
    ASSUME KeyInv, NEW w \in Workers, ReserveCard(w) PROVE KeyInv'
<1> USE DEF KeyInv
<1>1. ~Holding(w) /\ UNCHANGED <<lost, written, cards>>
  BY DEF ReserveCard, Holding, historyVars
<1>2. PICK card \in run[w].ask :
         \/ ToCards(w, run[w].ask \ {card}) /\ UNCHANGED keys
         \/ /\ CardKey(w, card) \notin keys
            /\ keys' = keys \cup {CardKey(w, card)}
            /\ run' = [run EXCEPT ![w].at = "issue", ![w].todo = <<card>>]
  BY DEF ReserveCard, Taken
<1>3. CASE ToCards(w, run[w].ask \ {card}) /\ UNCHANGED keys
  <2>1. RunShape' /\ ~Holding(w)' /\ \A v \in Workers \ {w} : run'[v] = run[v]
    BY <1>3, ToCardsPutsDown
  <2> QED BY <1>1, <1>3, <2>1, PutDown DEF Used, UsedIsReserved, WrittenOnce, AskedOnce
<1>4. CASE /\ CardKey(w, card) \notin keys
           /\ keys' = keys \cup {CardKey(w, card)}
           /\ run' = [run EXCEPT ![w].at = "issue", ![w].todo = <<card>>]
  <2>1. /\ run'[w] = [run[w] EXCEPT !.at = "issue", !.todo = <<card>>]
        /\ run' = [v \in Workers |-> run'[v]]
        /\ \A v \in Workers \ {w} : run'[v] = run[v]
    BY <1>4, Zenon DEF RunShape
  <2>2. /\ RunShape'
        /\ run'[w].at = "issue" /\ run'[w].now = run[w].now /\ run'[w].todo = <<card>>
    BY <2>1 DEF RunShape
  <2>3. Holding(w)' /\ HeldKey(w)' = CardKey(w, card)
    BY <2>2 DEF Holding, HeldKey, CardKey
  <2> QED BY <1>1, <1>4, <2>1, <2>2, <2>3, PickUp
<1> QED BY <1>2, <1>3, <1>4

LEMMA IssueKeeps ==
    ASSUME KeyInv, NEW w \in Workers, Issue(w) PROVE KeyInv'
<1> USE DEF KeyInv
<1> DEFINE k == CardKey(w, Head(run[w].todo))
<1>1. Holding(w) /\ HeldKey(w) = k /\ UNCHANGED written
  BY DEF Issue, Holding, HeldKey
<1>2. RunShape' /\ ~Holding(w)' /\ \A v \in Workers \ {w} : run'[v] = run[v]
  BY ToCardsPutsDown DEF Issue
<1>3. \/ cards' = Increment(cards, k) /\ UNCHANGED <<keys, lost>>
      \/ cards' = Increment(cards, k) /\ keys' = keys \ {k} /\ lost' = lost \cup {k}
      \/ keys' = keys \ {k} /\ UNCHANGED <<cards, lost>>
  BY DEF Issue
<1>4. k \in keys /\ k \notin Used \ lost
  BY <1>1 DEF OneHand, InHandIsUnused
<1> HIDE DEF k
<1>5. CASE keys' = keys \ {k} /\ UNCHANGED <<cards, lost>>
  BY <1>1, <1>2, <1>4, <1>5, PutDown DEF Used, UsedIsReserved, WrittenOnce, AskedOnce
<1>6. CASE /\ cards' = Increment(cards, k)
           /\ \/ UNCHANGED <<keys, lost>>
              \/ keys' = keys \ {k} /\ lost' = lost \cup {k}
  <2>1. \A j \in DOMAIN cards : j \notin lost' => cards[j] <= 1
    BY <1>6 DEF AskedOnce
  <2>2. k \in lost' \/ k \notin DOMAIN cards
    BY <1>4, <1>6 DEF Used
  <2>3. DOMAIN cards' = DOMAIN cards \cup {k} /\ \A j \in DOMAIN cards' : j \notin lost' => cards'[j] <= 1
    BY <1>6, <2>1, <2>2, OnceMore
  <2>4. Used' = Used \cup {k} /\ WrittenOnce' /\ AskedOnce'
    BY <1>1, <1>6, <2>3 DEF Used, WrittenOnce, AskedOnce
  <2> QED BY <1>1, <1>2, <1>4, <1>6, <2>4, PutDown DEF UsedIsReserved
<1> QED BY <1>3, <1>5, <1>6

\* A run that dies leaves its key where it is: the day is over for that change.
LEMMA CrashKeeps ==
    ASSUME KeyInv, NEW w \in Workers, Crash(w) PROVE KeyInv'
<1> USE DEF KeyInv
<1>1. run' = [run EXCEPT ![w] = Idle] /\ UNCHANGED <<keys, lost, written, cards>>
  BY DEF Crash, dbVars
<1>2. Idle = [at |-> Idle.at, now |-> Idle.now, stats |-> Idle.stats,
              todo |-> Idle.todo, ask |-> Idle.ask, done |-> Idle.done] /\ Idle.at = "idle"
  BY DEF Idle
<1>3. RunShape' /\ run'[w].at = "idle" /\ \A v \in Workers \ {w} : run'[v] = run[v]
  BY <1>1, <1>2, ShapeKept
<1>4. ~Holding(w)'
  BY <1>3 DEF Holding
<1> QED BY <1>1, <1>3, <1>4, PutDown DEF Used, UsedIsReserved, WrittenOnce, AskedOnce

LEMMA KeyStep == KeyInv /\ [Next]_vars => KeyInv'
<1> SUFFICES ASSUME KeyInv, [Next]_vars PROVE KeyInv'  OBVIOUS
<1>1. ASSUME NEW w \in Workers, Step(w) PROVE KeyInv'
  BY <1>1, ProposeKeeps, DecideKeeps, ReserveKeeps, WriteKeeps, MissKeeps, LogChangeKeeps,
     SyncLocalKeeps, MarkNegatedKeeps, ReserveCardKeeps, IssueKeeps DEF Step
<1>2. ASSUME NEW w \in Workers, Crash(w) PROVE KeyInv'
  BY <1>2, CrashKeeps
<1>3. CASE Sync \/ HumanEdit \/ Tick \/ UNCHANGED vars
  <2>1. UNCHANGED <<run, keys, written, cards, lost>>
    BY <1>3 DEF Sync, HumanEdit, Tick, vars, dbVars, historyVars
  <2> QED BY <2>1 DEF KeyInv, RunShape, OneHand, Holding, HeldKey, KeyFor, CardKey, Used,
                      UsedIsReserved, InHandIsUnused, WrittenOnce, AskedOnce
<1> QED BY <1>1, <1>2, <1>3 DEF Next

-----------------------------------------------------------------------------

LEMMA KeysHold == Spec => []KeyInv
BY KeyInit, KeyStep, PTL DEF Spec

\* runScheduledOptimization in any number of processes, any number of times a day: a change
\* is carried out once a day, whatever the rules proposed, unless the platform's answer was
\* lost and the key given back for it.
THEOREM ChangesComeOnce == Spec => []WrittenOnce
<1>1. KeyInv => WrittenOnce  BY DEF KeyInv
<1> QED BY <1>1, KeysHold, PTL

\* approvalIdempotencyKey: for the same numbers a question is put to the human once a day,
\* although every run of the day finds it anew, unless its insert seemed to have failed.
THEOREM QuestionsComeOnce == Spec => []AskedOnce
<1>1. KeyInv => AskedOnce  BY DEF KeyInv
<1> QED BY <1>1, KeysHold, PTL

-----------------------------------------------------------------------------
(***************************************************************************)
(* The operators a decision is built from: they go through a finite        *)
(* sequence of changes with a fold, or put a set in some order.            *)
(***************************************************************************)

LEMMA AutoApplyType ==
    ASSUME NEW S, NEW ds \in Seq(S), NEW m
    PROVE  AutoApply(ds, m) \in Seq(S)
<1> DEFINE N == Len(ds)
           Then(kept, d) == IF ApprovalKindFor(d, m, IsMassPause(ds)) = "none" THEN Append(kept, d) ELSE kept
           Is(h) == h = [T \in SUBSET DOMAIN ds |->
                           IF T = {} THEN <<>> ELSE Then(h[T \ {Max(T)}], ds[Max(T)])]
           G == [p \in Seq(S) \X (1 .. N) |-> Then(p[1], ds[p[2]])]
           fold == CHOOSE h : Is(h)
<1>1. AutoApply(ds, m) = fold[DOMAIN ds]
  BY DEF AutoApply, FoldLeft, MapThenFoldSet
<1>2. N \in Nat /\ DOMAIN ds = 1 .. N /\ \A i \in 1 .. N : ds[i] \in S
  OBVIOUS
<1>3. <<>> \in Seq(S) /\ \A kept \in Seq(S), d \in S : Then(kept, d) \in Seq(S)
  OBVIOUS
<1> HIDE DEF Then
<1>4. \A kept \in Seq(S), i \in 1 .. N : G[<<kept, i>>] = Then(kept, ds[i]) /\ G[<<kept, i>>] \in Seq(S)
  BY <1>2, <1>3
<1> HIDE DEF G, N
<1>5. PICK h : FoldsWith(h, N, Seq(S), <<>>, G)
  BY <1>2, <1>3, <1>4, FoldExists
<1>6. Is(h)
  <2>1. \A T \in SUBSET (1 .. N) : T # {} => Max(T) \in 1 .. N /\ T \ {Max(T)} \in SUBSET (1 .. N)
    BY <1>2, LargestOf
  <2>2. \A T \in SUBSET (1 .. N) : T # {} => h[T] = Then(h[T \ {Max(T)}], ds[Max(T)])
    BY <1>4, <1>5, <2>1 DEF FoldsWith
  <2> QED BY <1>2, <1>5, <2>2 DEF FoldsWith
<1>7. Is(fold)
  BY <1>6
<1> HIDE DEF fold
<1>8. fold[{}] \in Seq(S)
  BY <1>3, <1>7
<1>9. ASSUME NEW n \in 1 .. N, fold[1 .. n - 1] \in Seq(S) PROVE fold[1 .. n] \in Seq(S)
  <2>1. n \in Nat /\ n # 0 /\ 1 .. n \in SUBSET DOMAIN ds
    BY <1>2
  <2>2. 1 .. n # {} /\ Max(1 .. n) = n /\ (1 .. n) \ {n} = 1 .. n - 1
    BY <2>1, UpTo
  <2>3. fold[1 .. n] = Then(fold[1 .. n - 1], ds[n])
    BY <1>7, <2>1, <2>2
  <2> QED BY <1>2, <1>3, <1>9, <2>3
<1> HIDE DEF Is
<1>10. fold[1 .. N] \in Seq(S)
  BY <1>2, <1>8, <1>9, FoldStays
<1> QED BY <1>1, <1>2, <1>10

\* A change is open if it is no bid of what is being paused; the j-th is kept, or an earlier one
\* about the same thing is.
OpenIn(ds, d) == ~(d.action \in BidActions /\ d.entity \in {ds[i].entity : i \in {j \in DOMAIN ds : ds[j].action = "PAUSE"}})
KeptOrYields(ds, j, kept) ==
    \E i \in DOMAIN kept, k \in 1 .. j : kept[i] = ds[k] /\ (k = j \/ SameSubject(ds[j], ds[k]))
\* What resolveConflicts has kept of the first n changes.
Resolved(ds, n, kept) ==
    /\ \A i \in DOMAIN kept : \E j \in 1 .. n : kept[i] = ds[j] /\ OpenIn(ds, ds[j])
    /\ \A i, j \in DOMAIN kept : i # j => ~SameSubject(kept[i], kept[j])
    /\ \A j \in 1 .. n : OpenIn(ds, ds[j]) => KeptOrYields(ds, j, kept)

\* Whatever the rules propose, of the changes that remain no two are about one thing, no bid is
\* set for what is being paused, and each that is given up gives way to an earlier one about the
\* same thing, or to a pause.  (resolveConflicts, optimizer/engine.ts.)
THEOREM ConflictsAreResolved ==
    ASSUME NEW S, NEW ds \in Seq(S)
    PROVE  ResolveConflicts(ds) \in Seq(S) /\ Resolved(ds, Len(ds), ResolveConflicts(ds))
<1> DEFINE N == Len(ds)
           Open(d) == OpenIn(ds, d)
           Then(kept, d) == IF Open(d) /\ \A i \in DOMAIN kept : ~SameSubject(d, kept[i])
                            THEN Append(kept, d)
                            ELSE kept
           Is(h) == h = [T \in SUBSET DOMAIN ds |->
                           IF T = {} THEN <<>> ELSE Then(h[T \ {Max(T)}], ds[Max(T)])]
           G == [p \in Seq(S) \X (1 .. N) |-> Then(p[1], ds[p[2]])]
           Q == [n \in 0 .. N |-> {kept \in Seq(S) : Resolved(ds, n, kept)}]
           fold == CHOOSE h : Is(h)
<1>1. ResolveConflicts(ds) = fold[DOMAIN ds]
  BY DEF ResolveConflicts, FoldLeft, MapThenFoldSet, OpenIn
<1>2. N \in Nat /\ DOMAIN ds = 1 .. N /\ \A i \in 1 .. N : ds[i] \in S
  OBVIOUS
<1>3. <<>> \in Seq(S) /\ \A kept \in Seq(S), d \in S : Then(kept, d) \in Seq(S)
  OBVIOUS
<1>a. <<>> \in Q[0]
  <2>1. Resolved(ds, 0, <<>>)
    BY DEF Resolved
  <2> QED BY <1>2, <2>1
<1>b. ASSUME NEW n \in 1 .. N, NEW kept \in Q[n - 1] PROVE Then(kept, ds[n]) \in Q[n]
  <2> DEFINE d == ds[n]
  <2>1. n - 1 \in 0 .. N /\ n \in 0 .. N /\ kept \in Seq(S) /\ Resolved(ds, n - 1, kept) /\ d \in S
    BY <1>2
  <2>2. \A j \in 1 .. n : j \in 1 .. n - 1 \/ j = n
    OBVIOUS
  <2>3. CASE Open(d) /\ \A i \in DOMAIN kept : ~SameSubject(d, kept[i])
    <3> DEFINE more == Append(kept, d)
    <3>1. /\ more \in Seq(S) /\ Len(more) = Len(kept) + 1 /\ Len(kept) \in Nat
          /\ DOMAIN kept = 1 .. Len(kept) /\ DOMAIN more = 1 .. Len(kept) + 1
          /\ \A i \in DOMAIN kept : more[i] = kept[i]
          /\ more[Len(kept) + 1] = d
      BY <2>1
    <3> HIDE DEF more
    <3>2. \A i \in DOMAIN more : i \in DOMAIN kept \/ i = Len(kept) + 1
      BY <3>1
    <3>3. ASSUME NEW i \in DOMAIN more PROVE \E j \in 1 .. n : more[i] = ds[j] /\ Open(ds[j])
      <4>1. CASE i \in DOMAIN kept
        <5>1. PICK j \in 1 .. n - 1 : kept[i] = ds[j] /\ Open(ds[j])
          BY <2>1, <4>1 DEF Resolved
        <5>2. j \in 1 .. n
          OBVIOUS
        <5> QED BY <3>1, <4>1, <5>1, <5>2
      <4>2. CASE i = Len(kept) + 1
        <5>1. n \in 1 .. n /\ Open(ds[n])
          BY <2>3
        <5> HIDE DEF Open
        <5> QED BY <3>1, <4>2, <5>1
      <4> QED BY <3>2, <4>1, <4>2
    <3>4. \A i, j \in DOMAIN more : i # j => ~SameSubject(more[i], more[j])
      <4>1. \A c \in S : SameSubject(d, c) <=> SameSubject(c, d)
        BY DEF SameSubject
      <4>2. \A i \in DOMAIN kept : kept[i] \in S
        BY <2>1
      <4> QED BY <2>1, <2>3, <3>1, <3>2, <4>1, <4>2 DEF Resolved
    <3>5. ASSUME NEW j \in 1 .. n, Open(ds[j])
          PROVE KeptOrYields(ds, j, more)
      <4>1. CASE j = n
        <5>1. Len(kept) + 1 \in DOMAIN more /\ more[Len(kept) + 1] = ds[n] /\ n \in 1 .. n
          BY <3>1
        <5> QED BY <4>1, <5>1 DEF KeptOrYields
      <4>2. CASE j \in 1 .. n - 1
        <5>1. PICK i \in DOMAIN kept, k \in 1 .. j : kept[i] = ds[k] /\ (k = j \/ SameSubject(ds[j], ds[k]))
          BY <2>1, <3>5, <4>2 DEF Resolved, KeptOrYields
        <5> QED BY <3>1, <5>1 DEF KeptOrYields
      <4> QED BY <2>2, <4>1, <4>2
    <3>6. Then(kept, d) = more
      BY <2>3 DEF more
    <3> QED BY <2>1, <3>1, <3>3, <3>4, <3>5, <3>6 DEF Resolved
  <2>4. CASE ~(Open(d) /\ \A i \in DOMAIN kept : ~SameSubject(d, kept[i]))
    <3>1. Then(kept, d) = kept
      BY <2>4
    <3>2. \A i \in DOMAIN kept : \E j \in 1 .. n : kept[i] = ds[j] /\ Open(ds[j])
      BY <2>1 DEF Resolved
    <3>3. ASSUME NEW j \in 1 .. n, Open(ds[j])
          PROVE KeptOrYields(ds, j, kept)
      <4>1. CASE j = n
        <5>1. PICK i \in DOMAIN kept : SameSubject(ds[j], kept[i])
          BY <2>4, <3>3, <4>1
        <5>2. PICK k \in 1 .. n : kept[i] = ds[k]
          BY <3>2, <5>1
        <5> QED BY <4>1, <5>1, <5>2 DEF KeptOrYields
      <4>2. CASE j \in 1 .. n - 1
        BY <2>1, <3>3, <4>2 DEF Resolved
      <4> QED BY <2>2, <4>1, <4>2
    <3> QED BY <2>1, <3>1, <3>2, <3>3 DEF Resolved
  <2> QED BY <2>3, <2>4
<1>c. \A n \in 0 .. N : Q[n] \subseteq Seq(S) /\ \A kept \in Q[n] : Resolved(ds, n, kept)
  OBVIOUS
<1> HIDE DEF Then, Q
<1>4. \A kept \in Seq(S), i \in 1 .. N : G[<<kept, i>>] = Then(kept, ds[i]) /\ G[<<kept, i>>] \in Seq(S)
  BY <1>2, <1>3
<1> HIDE DEF G, N
<1>5. PICK h : FoldsWith(h, N, Seq(S), <<>>, G)
  BY <1>2, <1>3, <1>4, FoldExists
<1>6. Is(h)
  <2>1. \A T \in SUBSET (1 .. N) : T # {} => Max(T) \in 1 .. N /\ T \ {Max(T)} \in SUBSET (1 .. N)
    BY <1>2, LargestOf
  <2>2. \A T \in SUBSET (1 .. N) : T # {} => h[T] = Then(h[T \ {Max(T)}], ds[Max(T)])
    BY <1>4, <1>5, <2>1 DEF FoldsWith
  <2> QED BY <1>2, <1>5, <2>2 DEF FoldsWith
<1>7. Is(fold)
  BY <1>6
<1> HIDE DEF fold
<1>8. fold[{}] \in Q[0]
  BY <1>a, <1>7
<1>9. ASSUME NEW n \in 1 .. N, fold[1 .. n - 1] \in Q[n - 1] PROVE fold[1 .. n] \in Q[n]
  <2>1. n \in Nat /\ n # 0 /\ 1 .. n \in SUBSET DOMAIN ds
    BY <1>2
  <2>2. 1 .. n # {} /\ Max(1 .. n) = n /\ (1 .. n) \ {n} = 1 .. n - 1
    BY <2>1, UpTo
  <2>3. fold[1 .. n] = Then(fold[1 .. n - 1], ds[n])
    BY <1>7, <2>1, <2>2
  <2> QED BY <1>b, <1>9, <2>3
<1> HIDE DEF Is
<1>10. fold[1 .. N] \in Q[N]
  BY <1>2, <1>8, <1>9, FoldClimbs
<1> QED BY <1>1, <1>2, <1>10, <1>c DEF N

\* What the guardrails let pass is, of each change, what limitValue lets pass.
LEMMA ApplyGuardrailsType ==
    ASSUME NEW S, NEW ds, NEW n \in Nat, DOMAIN ds = 1 .. n, NEW m, NEW history,
           \A i \in 1 .. n : LimitValue(ds[i], history) \subseteq S
    PROVE  ApplyGuardrails(ds, m, history) \in Seq(S)
<1> DEFINE Accs == [allowed : Seq(S), touched : SUBSET {d.entity : d \in {ds[i] : i \in 1 .. n}}]
           Limited(acc, d) == IF Observed(d, m) /\ WithinCap(d, acc.touched, m)
                              THEN LimitValue(d, history)
                              ELSE {}
           Then(acc, d) == IF Limited(acc, d) = {} THEN acc
                           ELSE [allowed |-> Append(acc.allowed, CHOOSE l \in Limited(acc, d) : TRUE),
                                 touched |-> IF SpendsQuota(d) THEN acc.touched \cup {d.entity}
                                             ELSE acc.touched]
           none == [allowed |-> <<>>, touched |-> {}]
           Is(h) == h = [T \in SUBSET DOMAIN ds |->
                           IF T = {} THEN none ELSE Then(h[T \ {Max(T)}], ds[Max(T)])]
           G == [p \in Accs \X (1 .. n) |-> Then(p[1], ds[p[2]])]
           fold == CHOOSE h : Is(h)
<1>1. ApplyGuardrails(ds, m, history) = fold[DOMAIN ds].allowed
  BY DEF ApplyGuardrails, FoldLeft, MapThenFoldSet
<1>3. none \in Accs /\ \A acc \in Accs, i \in 1 .. n : Then(acc, ds[i]) \in Accs
  <2>1. none \in Accs
    OBVIOUS
  <2>2. ASSUME NEW acc \in Accs, NEW i \in 1 .. n PROVE Then(acc, ds[i]) \in Accs
    <3> DEFINE d == ds[i]
               lim == Limited(acc, d)
               l == CHOOSE x \in lim : TRUE
    <3>1. lim \subseteq S
      OBVIOUS
    <3> HIDE DEF lim
    <3>2. CASE lim = {}
      BY <3>2 DEF lim
    <3>3. CASE lim # {}
      <4>1. l \in S
        BY <3>1, <3>3
      <4>2. acc.allowed \in Seq(S) /\ acc.touched \in SUBSET {c.entity : c \in {ds[j] : j \in 1 .. n}}
        OBVIOUS
      <4>3. Append(acc.allowed, l) \in Seq(S)
        BY <4>1, <4>2
      <4>4. (IF SpendsQuota(d) THEN acc.touched \cup {d.entity} ELSE acc.touched)
               \in SUBSET {c.entity : c \in {ds[j] : j \in 1 .. n}}
        BY <4>2
      <4>5. Then(acc, d) = [allowed |-> Append(acc.allowed, l),
                            touched |-> IF SpendsQuota(d) THEN acc.touched \cup {d.entity} ELSE acc.touched]
        BY <3>3 DEF lim
      <4> HIDE DEF l, d, Then
      <4> QED BY <4>3, <4>4, <4>5 DEF d
    <3> QED BY <3>2, <3>3
  <2> QED BY <2>1, <2>2
<1> HIDE DEF Then, Accs, none
<1>4. \A acc \in Accs, i \in 1 .. n : G[<<acc, i>>] = Then(acc, ds[i]) /\ G[<<acc, i>>] \in Accs
  BY <1>3
<1> HIDE DEF G
<1>5. PICK h : FoldsWith(h, n, Accs, none, G)
  BY <1>3, <1>4, FoldExists
<1>6. Is(h)
  <2>1. \A T \in SUBSET (1 .. n) : T # {} => Max(T) \in 1 .. n /\ T \ {Max(T)} \in SUBSET (1 .. n)
    BY LargestOf
  <2>2. \A T \in SUBSET (1 .. n) : T # {} => h[T] = Then(h[T \ {Max(T)}], ds[Max(T)])
    BY <1>4, <1>5, <2>1 DEF FoldsWith
  <2> QED BY <1>5, <2>2 DEF FoldsWith
<1>7. Is(fold)
  BY <1>6
<1> HIDE DEF fold
<1>8. fold[{}] \in Accs
  BY <1>3, <1>7
<1>9. ASSUME NEW k \in 1 .. n, fold[1 .. k - 1] \in Accs PROVE fold[1 .. k] \in Accs
  <2>1. k \in Nat /\ k # 0 /\ 1 .. k \in SUBSET DOMAIN ds
    OBVIOUS
  <2>2. 1 .. k # {} /\ Max(1 .. k) = k /\ (1 .. k) \ {k} = 1 .. k - 1
    BY <2>1, UpTo
  <2>3. fold[1 .. k] = Then(fold[1 .. k - 1], ds[k])
    BY <1>7, <2>1, <2>2
  <2> QED BY <1>3, <1>9, <2>3
<1> HIDE DEF Is
<1>10. fold[1 .. n] \in Accs
  BY <1>8, <1>9, FoldStays
<1> QED BY <1>1, <1>10 DEF Accs

LEMMA LimitKeeps ==
    ASSUME NEW d \in Decisions, NEW history, NEW l \in LimitValue(d, history)
    PROVE  l.entity = d.entity /\ l.action = d.action
<1>1. \A x : [d EXCEPT !.next = x].entity = d.entity /\ [d EXCEPT !.next = x].action = d.action
  BY DEF Decisions
<1>2. CASE d.action \notin BidActions
  BY <1>2 DEF LimitValue
<1>3. CASE d.action \in BidActions
  <2> DEFINE anchor == IF d.entity \in DOMAIN history.anchor THEN history.anchor[d.entity] ELSE d.prev
             amount == ClampBid(d.prev, anchor, d.next)
  <2>1. LimitValue(d, history) \subseteq {[d EXCEPT !.next = amount]}
    BY <1>3 DEF LimitValue
  <2> HIDE DEF amount
  <2> QED BY <1>1, <2>1
<1> QED BY <1>2, <1>3

LEMMA CapType == ASSUME NEW p \in Nat PROVE EntityCap(p) \in Nat
<1>1. MaxShare \in Nat /\ p * MaxShare \in Nat
  BY GuardrailsAssumption
<1>2. \A x \in Nat : x \div 100 \in Nat
  OBVIOUS
<1> QED BY <1>1, <1>2 DEF EntityCap

\* The entities that changes which count against the share are about.
Touched(ds) == {ds[i].entity : i \in {j \in DOMAIN ds : SpendsQuota(ds[j])}}

LEMMA TouchedMore ==
    ASSUME NEW S, NEW ds \in Seq(S), NEW d \in S
    PROVE  /\ Append(ds, d) \in Seq(S)
           /\ DOMAIN Append(ds, d) = DOMAIN ds \cup {Len(ds) + 1}
           /\ \A i \in DOMAIN ds : Append(ds, d)[i] = ds[i]
           /\ Append(ds, d)[Len(ds) + 1] = d
           /\ Touched(Append(ds, d)) = Touched(ds) \cup (IF SpendsQuota(d) THEN {d.entity} ELSE {})
<1> DEFINE more == Append(ds, d)
<1>1. /\ more \in Seq(S)
      /\ Len(ds) + 1 \notin DOMAIN ds
      /\ DOMAIN more = DOMAIN ds \cup {Len(ds) + 1}
      /\ \A i \in DOMAIN ds : more[i] = ds[i]
      /\ more[Len(ds) + 1] = d
  OBVIOUS
<1> HIDE DEF more
<1>2. ASSUME NEW e PROVE e \in Touched(more) <=> e \in Touched(ds) \/ (SpendsQuota(d) /\ e = d.entity)
  BY <1>1 DEF Touched
<1>3. Touched(more) = Touched(ds) \cup (IF SpendsQuota(d) THEN {d.entity} ELSE {})
  BY <1>2
<1> QED BY <1>1, <1>3 DEF more

\* Whatever the rules propose, in whatever order, no more entities are touched than the share
\* of the campaign's own allows, nothing is changed that was hardly observed, and what
\* passes is one of the changes proposed, of the same kind and about the same entity.
\* (applyGuardrails, optimizer/guardrails.ts.)
THEOREM ShareIsKept ==
    ASSUME NEW ds \in Seq(Decisions), NEW m, NEW history,
           IsFiniteSet(Population(m)), Population(m) # {}
    PROVE  LET made == ApplyGuardrails(ds, m, history)
           IN  /\ IsFiniteSet(Touched(made))
               /\ Cardinality(Touched(made)) <= EntityCap(Cardinality(Population(m)))
               /\ \A i \in DOMAIN made :
                     /\ Observed(made[i], m)
                     /\ \E j \in DOMAIN ds : made[i] \in LimitValue(ds[j], history)
<1> DEFINE N == Len(ds)
           L == UNION {LimitValue(ds[j], history) : j \in 1 .. N}
           Accs == [allowed : Seq(L), touched : SUBSET {d.entity : d \in {ds[i] : i \in 1 .. N}}]
           cap == EntityCap(Cardinality(Population(m)))
           Fine(acc) == /\ acc.touched = Touched(acc.allowed)
                        /\ IsFiniteSet(acc.touched)
                        /\ Cardinality(acc.touched) <= cap
                        /\ \A i \in DOMAIN acc.allowed : Observed(acc.allowed[i], m)
           S == {acc \in Accs : Fine(acc)}
           Limited(acc, d) == IF Observed(d, m) /\ WithinCap(d, acc.touched, m)
                              THEN LimitValue(d, history)
                              ELSE {}
           Then(acc, d) == IF Limited(acc, d) = {} THEN acc
                           ELSE [allowed |-> Append(acc.allowed, CHOOSE l \in Limited(acc, d) : TRUE),
                                 touched |-> IF SpendsQuota(d) THEN acc.touched \cup {d.entity}
                                             ELSE acc.touched]
           none == [allowed |-> <<>>, touched |-> {}]
           Is(h) == h = [T \in SUBSET DOMAIN ds |->
                           IF T = {} THEN none ELSE Then(h[T \ {Max(T)}], ds[Max(T)])]
           G == [p \in S \X (1 .. N) |-> Then(p[1], ds[p[2]])]
           fold == CHOOSE h : Is(h)
<1>1. ApplyGuardrails(ds, m, history) = fold[DOMAIN ds].allowed
  BY DEF ApplyGuardrails, FoldLeft, MapThenFoldSet
<1>2. N \in Nat /\ DOMAIN ds = 1 .. N /\ \A i \in 1 .. N : ds[i] \in Decisions
  OBVIOUS
<1>c. cap \in Nat
  BY FS_CardinalityType, CapType
<1>3. none \in S
  <2>1. none \in Accs /\ none.allowed = <<>> /\ none.touched = {}
    OBVIOUS
  <2>2. Touched(<<>>) = {} /\ DOMAIN <<>> = {}
    BY DEF Touched
  <2>3. IsFiniteSet({}) /\ Cardinality({}) = 0
    BY FS_EmptySet
  <2> HIDE DEF cap, none, Accs
  <2>4. Cardinality(none.touched) <= cap
    BY <1>c, <2>1, <2>3
  <2>5. Fine(none)
    BY <2>1, <2>2, <2>3, <2>4
  <2> HIDE DEF Fine
  <2> QED BY <2>1, <2>5
<1>4. ASSUME NEW acc \in S, NEW i \in 1 .. N PROVE Then(acc, ds[i]) \in S
  <2> DEFINE d == ds[i]
             lim == Limited(acc, d)
             l == CHOOSE x \in lim : TRUE
             more == Append(acc.allowed, l)
             next == IF SpendsQuota(d) THEN acc.touched \cup {d.entity} ELSE acc.touched
  <2>0. /\ acc.allowed \in Seq(L) /\ acc.touched \in SUBSET {c.entity : c \in {ds[j] : j \in 1 .. N}}
        /\ Fine(acc) /\ d \in Decisions
    BY <1>2
  <2>1. lim \subseteq LimitValue(d, history) /\ (lim # {} => Observed(d, m) /\ WithinCap(d, acc.touched, m))
    OBVIOUS
  <2>2. Then(acc, d) = IF lim = {} THEN acc ELSE [allowed |-> more, touched |-> next]
    OBVIOUS
  <2> HIDE DEF lim, Then
  <2>3. CASE lim = {}
    BY <2>2, <2>3
  <2>4. CASE lim # {}
    <3>1. l \in LimitValue(d, history) /\ l \in L
      BY <2>1, <2>4
    <3> HIDE DEF l
    <3>2. l.entity = d.entity /\ (SpendsQuota(l) <=> SpendsQuota(d)) /\ Observed(l, m)
      BY <2>0, <2>1, <2>4, <3>1, LimitKeeps DEF SpendsQuota, Observed
    <3>3. /\ more \in Seq(L)
          /\ DOMAIN more = DOMAIN acc.allowed \cup {Len(acc.allowed) + 1}
          /\ \A k \in DOMAIN acc.allowed : more[k] = acc.allowed[k]
          /\ more[Len(acc.allowed) + 1] = l
          /\ Touched(more) = next
      <4>1. /\ more \in Seq(L)
            /\ DOMAIN more = DOMAIN acc.allowed \cup {Len(acc.allowed) + 1}
            /\ \A k \in DOMAIN acc.allowed : more[k] = acc.allowed[k]
            /\ more[Len(acc.allowed) + 1] = l
            /\ Touched(more) = Touched(acc.allowed) \cup (IF SpendsQuota(l) THEN {l.entity} ELSE {})
        <5> HIDE DEF L
        <5> QED BY <2>0, <3>1, TouchedMore
      <4>2. next = acc.touched \cup (IF SpendsQuota(l) THEN {l.entity} ELSE {})
        BY <3>2
      <4>3. acc.touched = Touched(acc.allowed)
        BY <2>0
      <4> HIDE DEF more, next
      <4> QED BY <4>1, <4>2, <4>3
    <3>4. next \in SUBSET {c.entity : c \in {ds[j] : j \in 1 .. N}}
      <4>1. d.entity \in {c.entity : c \in {ds[j] : j \in 1 .. N}}
        OBVIOUS
      <4> QED BY <2>0, <4>1
    <3>5. IsFiniteSet(next) /\ Cardinality(next) <= cap
      <4>1. CASE next = acc.touched
        BY <2>0, <4>1
      <4>2. CASE next # acc.touched
        <5>1. SpendsQuota(d) /\ d.entity \notin acc.touched /\ next = acc.touched \cup {d.entity}
          BY <4>2
        <5>2. Cardinality(acc.touched) < cap
          BY <2>1, <2>4, <5>1 DEF WithinCap
        <5>3. IsFiniteSet(next) /\ Cardinality(next) = Cardinality(acc.touched) + 1 /\ Cardinality(acc.touched) \in Nat
          BY <2>0, <5>1, FS_AddElement, FS_CardinalityType
        <5> HIDE DEF next, cap
        <5> QED BY <1>c, <5>2, <5>3
      <4> QED BY <4>1, <4>2
    <3> DEFINE new == [allowed |-> more, touched |-> next]
    <3>6. new \in Accs /\ new.allowed = more /\ new.touched = next
      <4> HIDE DEF more, next
      <4> QED BY <3>3, <3>4
    <3>7. \A k \in DOMAIN more : Observed(more[k], m)
      <4> HIDE DEF more
      <4> QED BY <2>0, <3>2, <3>3
    <3>8. Fine(new)
      <4> HIDE DEF more, next, new, cap
      <4> QED BY <3>3, <3>5, <3>6, <3>7
    <3> HIDE DEF new, Accs
    <3> QED BY <2>2, <2>4, <3>6, <3>8 DEF new
  <2> QED BY <2>3, <2>4
<1>5. \A acc \in S : Fine(acc) /\ acc.allowed \in Seq(L)
  OBVIOUS
<1> HIDE DEF Then, S, none
<1>6. \A acc \in S, i \in 1 .. N : G[<<acc, i>>] = Then(acc, ds[i]) /\ G[<<acc, i>>] \in S
  BY <1>4
<1> HIDE DEF G
<1>7. PICK h : FoldsWith(h, N, S, none, G)
  BY <1>2, <1>3, <1>6, FoldExists
<1>8. Is(h)
  <2>1. \A T \in SUBSET (1 .. N) : T # {} => Max(T) \in 1 .. N /\ T \ {Max(T)} \in SUBSET (1 .. N)
    BY <1>2, LargestOf
  <2>2. \A T \in SUBSET (1 .. N) : T # {} => h[T] = Then(h[T \ {Max(T)}], ds[Max(T)])
    BY <1>6, <1>7, <2>1 DEF FoldsWith
  <2> HIDE DEF N
  <2> QED BY <1>2, <1>7, <2>2 DEF FoldsWith
<1>9. Is(fold)
  BY <1>8
<1> HIDE DEF fold, N
<1>10. fold[{}] \in S
  BY <1>3, <1>9
<1>11. ASSUME NEW k \in 1 .. N, fold[1 .. k - 1] \in S PROVE fold[1 .. k] \in S
  <2>1. k \in Nat /\ k # 0 /\ 1 .. k \in SUBSET DOMAIN ds
    BY <1>2
  <2>2. 1 .. k # {} /\ Max(1 .. k) = k /\ (1 .. k) \ {k} = 1 .. k - 1
    BY <2>1, UpTo
  <2>3. fold[1 .. k] = Then(fold[1 .. k - 1], ds[k])
    BY <1>9, <2>1, <2>2
  <2> QED BY <1>4, <1>11, <2>3
<1> HIDE DEF Is
<1>12. fold[1 .. N] \in S
  BY <1>2, <1>10, <1>11, FoldStays
<1> DEFINE made == ApplyGuardrails(ds, m, history)
<1>13. Fine(fold[1 .. N]) /\ made = fold[1 .. N].allowed /\ made \in Seq(L)
  BY <1>1, <1>2, <1>5, <1>12
<1>14. \A i \in DOMAIN made : \E j \in DOMAIN ds : made[i] \in LimitValue(ds[j], history)
  <2> HIDE DEF made
  <2>1. ASSUME NEW i \in DOMAIN made PROVE made[i] \in L
    BY <1>13
  <2> QED BY <1>2, <2>1
<1> HIDE DEF made, L
<1> QED BY <1>13, <1>14 DEF made

\* Of the changes of a run, each is either made without a human, and then the policy asks for
\* none, or on one card, and then it asks for that kind of approval; what is only observed
\* makes nothing by itself.  (autoApply and toApprovalActions, optimizer/scheduled.ts.)
THEOREM EveryChangeIsGoverned ==
    ASSUME NEW S, NEW ds \in Seq(S), NEW policy
    PROVE  LET made == AutoApply(ds, policy)
               onCards == Approvals(ds, policy)
               KindOf(d) == ApprovalKindFor(d, policy, IsMassPause(ds))
           IN  /\ \A i \in DOMAIN made : KindOf(made[i]) = "none"
               /\ \A card \in onCards : \E kind : kind # "none" /\ \A d \in card : KindOf(d) = kind
               /\ {ds[i] : i \in DOMAIN ds} = {made[i] : i \in DOMAIN made} \cup UNION onCards
               /\ \A a, b \in onCards : a # b => a \cap b = {}
               /\ policy = "OBSERVER" => made = <<>>
<1> DEFINE N == Len(ds)
           KindOf(d) == ApprovalKindFor(d, policy, IsMassPause(ds))
           Then(kept, d) == IF KindOf(d) = "none" THEN Append(kept, d) ELSE kept
           Is(h) == h = [T \in SUBSET DOMAIN ds |->
                           IF T = {} THEN <<>> ELSE Then(h[T \ {Max(T)}], ds[Max(T)])]
           G == [p \in Seq(S) \X (1 .. N) |-> Then(p[1], ds[p[2]])]
           Free(n) == {ds[i] : i \in {j \in 1 .. n : KindOf(ds[j]) = "none"}}
           Members(kept) == {kept[i] : i \in DOMAIN kept}
           Q == [n \in 0 .. N |-> {kept \in Seq(S) : Members(kept) = Free(n)}]
           fold == CHOOSE h : Is(h)
<1>1. AutoApply(ds, policy) = fold[DOMAIN ds]
  BY DEF AutoApply, FoldLeft, MapThenFoldSet
<1>2. N \in Nat /\ DOMAIN ds = 1 .. N /\ \A i \in 1 .. N : ds[i] \in S
  OBVIOUS
<1> HIDE DEF KindOf
<1>3. <<>> \in Seq(S) /\ \A kept \in Seq(S), d \in S : Then(kept, d) \in Seq(S)
  OBVIOUS
<1>a. <<>> \in Q[0]
  <2>1. Members(<<>>) = {} /\ Free(0) = {}
    OBVIOUS
  <2> HIDE DEF Members, Free, N
  <2>2. 0 \in 0 .. N
    BY <1>2
  <2> QED BY <1>3, <2>1, <2>2
<1>b. ASSUME NEW n \in 1 .. N, NEW kept \in Q[n - 1] PROVE Then(kept, ds[n]) \in Q[n]
  <2>1. n - 1 \in 0 .. N /\ n \in 0 .. N /\ kept \in Seq(S) /\ Members(kept) = Free(n - 1) /\ ds[n] \in S
    BY <1>2
  <2>2. Free(n) = Free(n - 1) \cup (IF KindOf(ds[n]) = "none" THEN {ds[n]} ELSE {})
    <3>1. \A j : j \in 1 .. n <=> j \in 1 .. n - 1 \/ j = n
      OBVIOUS
    <3>2. {j \in 1 .. n : KindOf(ds[j]) = "none"}
            = {j \in 1 .. n - 1 : KindOf(ds[j]) = "none"} \cup (IF KindOf(ds[n]) = "none" THEN {n} ELSE {})
      BY <3>1
    <3> QED BY <3>2
  <2>3. Members(Append(kept, ds[n])) = Members(kept) \cup {ds[n]}
    <3> DEFINE more == Append(kept, ds[n])
    <3>1. /\ DOMAIN more = DOMAIN kept \cup {Len(kept) + 1}
          /\ \A i \in DOMAIN kept : more[i] = kept[i]
          /\ more[Len(kept) + 1] = ds[n]
          /\ Len(kept) + 1 \notin DOMAIN kept
      BY <2>1
    <3> HIDE DEF more
    <3>2. Members(more) = Members(kept) \cup {ds[n]}
      BY <3>1
    <3> QED BY <3>2 DEF more
  <2> HIDE DEF Members, Free
  <2> QED BY <1>3, <2>1, <2>2, <2>3
<1>c. \A kept \in Q[N] : kept \in Seq(S) /\ Members(kept) = Free(N)
  <2> HIDE DEF Members, Free, N
  <2>1. N \in 0 .. N
    BY <1>2
  <2> QED BY <2>1
<1> HIDE DEF Then, Q
<1>4. \A kept \in Seq(S), i \in 1 .. N : G[<<kept, i>>] = Then(kept, ds[i]) /\ G[<<kept, i>>] \in Seq(S)
  BY <1>2, <1>3
<1> HIDE DEF G, N
<1>5. PICK h : FoldsWith(h, N, Seq(S), <<>>, G)
  BY <1>2, <1>3, <1>4, FoldExists
<1>6. Is(h)
  <2>1. \A T \in SUBSET (1 .. N) : T # {} => Max(T) \in 1 .. N /\ T \ {Max(T)} \in SUBSET (1 .. N)
    BY <1>2, LargestOf
  <2>2. \A T \in SUBSET (1 .. N) : T # {} => h[T] = Then(h[T \ {Max(T)}], ds[Max(T)])
    BY <1>4, <1>5, <2>1 DEF FoldsWith
  <2> QED BY <1>2, <1>5, <2>2 DEF FoldsWith
<1>7. Is(fold)
  BY <1>6
<1> HIDE DEF fold
<1>8. fold[{}] \in Q[0]
  BY <1>a, <1>7
<1>9. ASSUME NEW n \in 1 .. N, fold[1 .. n - 1] \in Q[n - 1] PROVE fold[1 .. n] \in Q[n]
  <2>1. n \in Nat /\ n # 0 /\ 1 .. n \in SUBSET DOMAIN ds
    BY <1>2
  <2>2. 1 .. n # {} /\ Max(1 .. n) = n /\ (1 .. n) \ {n} = 1 .. n - 1
    BY <2>1, UpTo
  <2>3. fold[1 .. n] = Then(fold[1 .. n - 1], ds[n])
    BY <1>7, <2>1, <2>2
  <2> QED BY <1>b, <1>9, <2>3
<1> HIDE DEF Is
<1>10. fold[1 .. N] \in Q[N]
  BY <1>2, <1>8, <1>9, FoldClimbs
<1> DEFINE made == AutoApply(ds, policy)
           all == {ds[i] : i \in DOMAIN ds}
           asked == {d \in all : KindOf(d) # "none"}
           CardOf(d) == {c \in asked : KindOf(c) = KindOf(d) /\ CardSubject(c) = CardSubject(d)}
           onCards == Approvals(ds, policy)
<1>11. made \in Seq(S) /\ Members(made) = Free(N)
  BY <1>1, <1>2, <1>10, <1>c
<1>12. onCards = {CardOf(d) : d \in asked}
  BY DEF Approvals, KindOf
<1> HIDE DEF made, onCards
<1>13. Free(N) = {d \in all : KindOf(d) = "none"}
  BY <1>2
<1>14. \A i \in DOMAIN made : KindOf(made[i]) = "none"
  BY <1>11, <1>13
<1>15. \A card \in onCards : \E kind : kind # "none" /\ \A d \in card : KindOf(d) = kind
  <2>1. SUFFICES ASSUME NEW d \in asked PROVE \E kind : kind # "none" /\ \A c \in CardOf(d) : KindOf(c) = kind
    BY <1>12
  <2> QED OBVIOUS
<1>16. UNION onCards = asked
  <2>1. \A d \in asked : d \in CardOf(d) /\ CardOf(d) \subseteq asked
    OBVIOUS
  <2> HIDE DEF CardOf, asked
  <2> QED BY <1>12, <2>1
<1>17. \A a, b \in onCards : a # b => a \cap b = {}
  <2>1. ASSUME NEW d \in asked, NEW e \in asked, CardOf(d) \cap CardOf(e) # {} PROVE CardOf(d) = CardOf(e)
    BY <2>1
  <2> HIDE DEF CardOf, asked
  <2> QED BY <1>12, <2>1
<1>18. all = Members(made) \cup UNION onCards
  BY <1>11, <1>13, <1>16
<1>19. policy = "OBSERVER" => made = <<>>
  <2>1. SUFFICES ASSUME policy = "OBSERVER" PROVE made = <<>>
    OBVIOUS
  <2>2. \A d : KindOf(d) = "IMPORT_HANDOVER"
    <3>1. ASSUME NEW d, NEW massPause PROVE ApprovalKindFor(d, "OBSERVER", massPause) = "IMPORT_HANDOVER"
      BY Zenon DEF ApprovalKindFor
    <3> QED BY <2>1, <3>1 DEF KindOf
  <2>3. Members(made) = {}
    BY <1>11, <1>13, <2>2
  <2> QED BY <1>11, <2>3
<1> HIDE DEF Members, all
<1> QED BY <1>14, <1>15, <1>17, <1>18, <1>19 DEF made, onCards, KindOf, Members, all

-----------------------------------------------------------------------------
\* SetToSeq puts a finite set in some order.
LEMMA SetToSeqType ==
    ASSUME NEW T, IsFiniteSet(T)
    PROVE  SetToSeq(T) \in Seq(T)
<1>1. Cardinality(T) \in Nat /\ ExistsBijection(1 .. Cardinality(T), T)
  BY FS_CardinalityType
<1>2. \E f \in [1 .. Cardinality(T) -> T] : IsInjective(f)
  BY <1>1 DEF ExistsBijection, Bijection, Injection
<1>3. SetToSeq(T) \in [1 .. Cardinality(T) -> T]
  BY <1>2 DEF SetToSeq
<1> QED BY <1>1, <1>3

LEMMA MapType ==
    ASSUME NEW T, NEW H \in Seq(T), NEW S, NEW M, DOMAIN M = DOMAIN H,
           M = [i \in DOMAIN H |-> M[i]], \A i \in DOMAIN H : M[i] \in S
    PROVE  M \in Seq(S)
<1>1. Len(H) \in Nat /\ DOMAIN H = 1 .. Len(H)
  OBVIOUS
<1>2. M \in [1 .. Len(H) -> S]
  BY <1>1
<1> QED BY <1>1, <1>2

\* A bid the rules propose is for an entity that has one and names the one of its row.
Proposed(row) ==
    {d \in Decisions : d.action \in BidActions => Kind[d.entity] = BidLevel /\ d.prev = row[d.entity].bid}

LEMMA ProposalsType ==
    ASSUME NEW m, DOMAIN m \subseteq Entities, NEW row \in [Entities -> LocalRows], NEW target, NEW saving
    PROVE  Proposals(m, row, target, saving) \in Seq(Proposed(row))
<1> DEFINE R1(e) == PauseHighCpa(e, m, row, target)
           R2(e) == DecreaseBid(e, m, row, target)
           R3(e) == IncreaseBid(e, m, row, target, saving)
           R4(e) == AddNegative(e, m, row)
           H1 == SetToSeq({e \in DOMAIN m : R1(e)})
           H2 == SetToSeq({e \in DOMAIN m : R2(e)})
           H3 == SetToSeq({e \in DOMAIN m : R3(e)})
           H4 == SetToSeq({e \in DOMAIN m : R4(e)})
           M1 == [i \in DOMAIN H1 |-> Change("PAUSE", H1[i], 0, 0)]
           M2 == [i \in DOMAIN H2 |-> Change("BID_DECREASE", H2[i], row[H2[i]].bid, DecreasedBid(row[H2[i]].bid))]
           M3 == [i \in DOMAIN H3 |-> Change("BID_INCREASE", H3[i], row[H3[i]].bid, IncreasedBid(row[H3[i]].bid))]
           M4 == [i \in DOMAIN H4 |-> Change("ADD_NEGATIVE_KEYWORD", H4[i], 0, 0)]
<1>1. Proposals(m, row, target, saving) = M1 \o M2 \o M3 \o M4
  BY DEF Proposals
<1>2. /\ H1 \in Seq({e \in Entities : R1(e)}) /\ H2 \in Seq({e \in Entities : R2(e)})
      /\ H3 \in Seq({e \in Entities : R3(e)}) /\ H4 \in Seq({e \in Entities : R4(e)})
  <2>1. \A T \in SUBSET Entities : SetToSeq(T) \in Seq(T)
    BY GuardrailsAssumption, FS_Subset, SetToSeqType
  <2>2. /\ H1 \in Seq({e \in DOMAIN m : R1(e)}) /\ H2 \in Seq({e \in DOMAIN m : R2(e)})
        /\ H3 \in Seq({e \in DOMAIN m : R3(e)}) /\ H4 \in Seq({e \in DOMAIN m : R4(e)})
    BY <2>1
  <2> HIDE DEF R1, R2, R3, R4
  <2>3. \A T, U : T \subseteq U => Seq(T) \subseteq Seq(U)
    OBVIOUS
  <2>4. /\ {e \in DOMAIN m : R1(e)} \subseteq {e \in Entities : R1(e)}
        /\ {e \in DOMAIN m : R2(e)} \subseteq {e \in Entities : R2(e)}
        /\ {e \in DOMAIN m : R3(e)} \subseteq {e \in Entities : R3(e)}
        /\ {e \in DOMAIN m : R4(e)} \subseteq {e \in Entities : R4(e)}
    OBVIOUS
  <2> HIDE DEF H1, H2, H3, H4
  <2> QED BY <2>2, <2>3, <2>4
<1> HIDE DEF H1, H2, H3, H4
<1>3. /\ \A e \in Entities : Change("PAUSE", e, 0, 0) \in Proposed(row)
      /\ \A e \in Entities : Change("ADD_NEGATIVE_KEYWORD", e, 0, 0) \in Proposed(row)
  BY DEF Change, Proposed, Decisions, Actions, BidActions
<1>4. \A e \in Entities : R2(e) => Change("BID_DECREASE", e, row[e].bid, DecreasedBid(row[e].bid)) \in Proposed(row)
  <2>1. \A e \in Entities : row[e].bid \in Nat
    BY DEF LocalRows
  <2>2. \A b \in Nat : DecreasedBid(b) \in Nat
    BY DEF DecreasedBid, Round
  <2> QED BY <2>1, <2>2 DEF Change, Proposed, Decisions, Actions, BidActions, DecreaseBid, Biddable
<1>5. \A e \in Entities : R3(e) => Change("BID_INCREASE", e, row[e].bid, IncreasedBid(row[e].bid)) \in Proposed(row)
  <2>1. \A e \in Entities : row[e].bid \in Nat
    BY DEF LocalRows
  <2>2. \A b \in Nat : IncreasedBid(b) \in Nat
    BY DEF IncreasedBid, Round
  <2> QED BY <2>1, <2>2 DEF Change, Proposed, Decisions, Actions, BidActions, IncreaseBid, Biddable
<1> HIDE DEF R1, R2, R3, R4
<1>6. M1 \in Seq(Proposed(row)) /\ M2 \in Seq(Proposed(row)) /\ M3 \in Seq(Proposed(row)) /\ M4 \in Seq(Proposed(row))
  <2>1. M1 \in Seq(Proposed(row))
    <3>1. \A i \in DOMAIN H1 : H1[i] \in {e \in Entities : R1(e)}
      BY <1>2
    <3>2. \A i \in DOMAIN H1 : M1[i] \in Proposed(row)
      BY <1>3, <3>1
    <3>3. DOMAIN M1 = DOMAIN H1 /\ M1 = [i \in DOMAIN H1 |-> M1[i]]
      OBVIOUS
    <3> HIDE DEF M1
    <3> QED BY <1>2, <3>2, <3>3, MapType
  <2>2. M2 \in Seq(Proposed(row))
    <3>1. \A i \in DOMAIN H2 : H2[i] \in {e \in Entities : R2(e)}
      BY <1>2
    <3>2. \A i \in DOMAIN H2 : M2[i] \in Proposed(row)
      BY <1>4, <3>1
    <3>3. DOMAIN M2 = DOMAIN H2 /\ M2 = [i \in DOMAIN H2 |-> M2[i]]
      OBVIOUS
    <3> HIDE DEF M2
    <3> QED BY <1>2, <3>2, <3>3, MapType
  <2>3. M3 \in Seq(Proposed(row))
    <3>1. \A i \in DOMAIN H3 : H3[i] \in {e \in Entities : R3(e)}
      BY <1>2
    <3>2. \A i \in DOMAIN H3 : M3[i] \in Proposed(row)
      BY <1>5, <3>1
    <3>3. DOMAIN M3 = DOMAIN H3 /\ M3 = [i \in DOMAIN H3 |-> M3[i]]
      OBVIOUS
    <3> HIDE DEF M3
    <3> QED BY <1>2, <3>2, <3>3, MapType
  <2>4. M4 \in Seq(Proposed(row))
    <3>1. \A i \in DOMAIN H4 : H4[i] \in {e \in Entities : R4(e)}
      BY <1>2
    <3>2. \A i \in DOMAIN H4 : M4[i] \in Proposed(row)
      BY <1>3, <3>1
    <3>3. DOMAIN M4 = DOMAIN H4 /\ M4 = [i \in DOMAIN H4 |-> M4[i]]
      OBVIOUS
    <3> HIDE DEF M4
    <3> QED BY <1>2, <3>2, <3>3, MapType
  <2> QED BY <2>1, <2>2, <2>3, <2>4
<1> HIDE DEF M1, M2, M3, M4
<1> QED BY <1>1, <1>6

\* limitValue leaves a change what it is, and a new bid in the window of its anchor.
LEMMA LimitHolds ==
    ASSUME NEW d \in Decisions, NEW history, NEW l \in LimitValue(d, history),
           NEW anchor \in Nat,
           anchor = IF d.entity \in DOMAIN history.anchor THEN history.anchor[d.entity] ELSE d.prev
    PROVE  /\ l \in Decisions /\ l.action = d.action /\ l.entity = d.entity /\ l.prev = d.prev
           /\ d.action \in BidActions => InWindow(l, anchor)
<1>1. CASE d.action \notin BidActions
  BY <1>1 DEF LimitValue
<1>2. CASE d.action \in BidActions
  <2> DEFINE amount == ClampBid(d.prev, anchor, d.next)
  <2>1. l = [d EXCEPT !.next = amount] /\ amount # d.prev
    BY <1>2 DEF LimitValue
  <2>2. d.prev \in Nat /\ d.next \in Nat
    BY DEF Decisions
  <2>3. \A b \in Nat : /\ Floor(b * (100 + MaxBidChange)) \in Nat /\ Ceil(b * (100 - MaxBidChange)) \in Nat
                       /\ Floor(b * (100 + MaxBidChange)) >= b /\ Ceil(b * (100 - MaxBidChange)) <= b
    <3>1. \A b, c \in Nat : b * c \in Nat
      OBVIOUS
    <3>2. \A b \in Nat : b * MaxBidChange \in Nat /\ b * (100 - MaxBidChange) \in Nat
      BY <3>1, GuardrailsAssumption
    <3>3. \A b \in Nat : /\ b * (100 + MaxBidChange) = 100 * b + b * MaxBidChange
                         /\ b * (100 - MaxBidChange) = 100 * b - b * MaxBidChange
      BY GuardrailsAssumption
    <3>4. ASSUME NEW b \in Nat
          PROVE  /\ Floor(b * (100 + MaxBidChange)) \in Nat /\ Ceil(b * (100 - MaxBidChange)) \in Nat
                 /\ Floor(b * (100 + MaxBidChange)) >= b /\ Ceil(b * (100 - MaxBidChange)) <= b
      <4>1. \A x, y \in Nat : /\ Floor(100 * x + y) \in Nat /\ Floor(100 * x + y) >= x
                              /\ Ceil(100 * x - y) <= x /\ (100 * x - y \in Nat => Ceil(100 * x - y) \in Nat)
        BY DEF Floor, Ceil
      <4>2. b * MaxBidChange \in Nat /\ 100 * b - b * MaxBidChange \in Nat
        BY <3>2, <3>3
      <4> DEFINE x == b * MaxBidChange
      <4>3. b * (100 + MaxBidChange) = 100 * b + x /\ b * (100 - MaxBidChange) = 100 * b - x
        BY <3>3
      <4>4. x \in Nat /\ 100 * b - x \in Nat
        BY <4>2
      <4> HIDE DEF x
      <4>5. /\ Floor(b * (100 + MaxBidChange)) = Floor(100 * b + x)
            /\ Ceil(b * (100 - MaxBidChange)) = Ceil(100 * b - x)
        BY <4>3
      <4>6. /\ Floor(100 * b + x) \in Nat /\ Floor(100 * b + x) >= b
            /\ Ceil(100 * b - x) <= b /\ Ceil(100 * b - x) \in Nat
        BY <4>1, <4>4
      <4> QED BY <4>5, <4>6
    <3> QED BY <3>4
  <2>4. /\ Lower(d.prev, anchor) \in Nat /\ Upper(d.prev, anchor) \in Nat
        /\ Lower(d.prev, anchor) <= d.prev /\ d.prev <= Upper(d.prev, anchor)
    BY <2>2, <2>3 DEF Lower, Upper
  <2>5. amount \in Nat /\ Lower(d.prev, anchor) <= amount /\ amount <= Upper(d.prev, anchor)
    BY <2>2, <2>4 DEF ClampBid
  <2>6. amount > d.prev => amount <= Floor(anchor * (100 + MaxBidChange))
    BY <2>2, <2>3, <2>5 DEF Upper
  <2>7. amount < d.prev => amount >= Ceil(anchor * (100 - MaxBidChange))
    BY <2>2, <2>3, <2>5 DEF Lower
  <2> HIDE DEF amount
  <2>8. /\ l \in Decisions /\ l.action = d.action /\ l.entity = d.entity /\ l.prev = d.prev /\ l.next = amount
    BY <2>1, <2>5 DEF Decisions
  <2> QED BY <2>1, <2>2, <2>5, <2>6, <2>7, <2>8 DEF InWindow
<1> QED BY <1>1, <1>2

-----------------------------------------------------------------------------
(***************************************************************************)
(* Types.                                                                  *)
(***************************************************************************)

\* Cards about changes of S.
CardsOf(ask, S) == \A card \in ask : card.changes \subseteq S

\* What a run holds at an await.
Typed(at, now, todo, ask, done) ==
    /\ at \in Awaits
    /\ now \in 0 .. clock
    /\ done \in SUBSET Decisions
    /\ CardsOf(ask, Decisions)
    /\ at # "issue" => todo \in Seq(Decisions)
    /\ at = "issue" => \E card \in ask : todo = <<card>>
    /\ at \in {"write", "log"} => todo # <<>>

RunTyped(w) == Typed(run[w].at, run[w].now, run[w].todo, run[w].ask, run[w].done)

DbTyped ==
    /\ clock \in 0 .. LastTick
    /\ mode \in Modes
    /\ cabinet \in [Entities -> LocalRows]
    /\ mirror \in [Entities -> LocalRows]
    /\ log \in Seq(LogRows)
    /\ \A i \in DOMAIN log : log[i].at <= clock /\ (i > 1 => log[i - 1].at <= log[i].at)
    /\ past \in [0 .. clock -> [Entities -> LocalRows]]
    /\ untold \in SUBSET Entities
    /\ fresh \in BOOLEAN

TypeInv == DbTyped /\ \A w \in Workers : RunTyped(w)

LEMMA LogTimes ==
    ASSUME TypeInv
    PROVE  /\ \A i \in DOMAIN log : log[i] \in LogRows /\ log[i].at \in Nat /\ log[i].at <= clock
           /\ DOMAIN log \subseteq Nat
<1>1. log \in Seq(LogRows) /\ 0 .. LastTick \subseteq Nat
  BY OptimizerAssumption DEF TypeInv, DbTyped
<1>2. \A i \in DOMAIN log : log[i] \in LogRows
  BY <1>1
<1> QED BY <1>1, <1>2 DEF LogRows, TypeInv, DbTyped

\* A row since some moment is a row since an earlier one.
LEMMA RowsGrow ==
    ASSUME TypeInv, NEW e, NEW t \in Int, NEW u \in Int, u <= t
    PROVE  RowsSince(e, t) \subseteq RowsSince(e, u)
BY LogTimes DEF RowsSince

LEMMA TypeInit == Init => TypeInv
<1> SUFFICES ASSUME Init PROVE TypeInv  OBVIOUS
<1> USE DEF Init
<1>1. cabinet \in [Entities -> LocalRows]
  BY OptimizerAssumption DEF LocalRows
<1>2. DbTyped
  <2>1. clock \in 0 .. LastTick /\ mode \in Modes /\ mirror \in [Entities -> LocalRows]
    BY <1>1, OptimizerAssumption
  <2>2. log \in Seq(LogRows) /\ DOMAIN log = {}
    OBVIOUS
  <2>3. past \in [0 .. clock -> [Entities -> LocalRows]]
    <3>1. 0 .. clock = {0}
      OBVIOUS
    <3>2. past = [t \in {0} |-> cabinet]
      BY DEF Init
    <3> QED BY <1>1, <3>1, <3>2, Zenon
  <2>4. untold \in SUBSET Entities /\ fresh \in BOOLEAN
    OBVIOUS
  <2> QED BY <1>1, <2>1, <2>2, <2>3, <2>4 DEF DbTyped
<1>3. ASSUME NEW w \in Workers PROVE RunTyped(w)
  <2>1. run[w] = Idle
    OBVIOUS
  <2>2. /\ run[w].at = "idle" /\ run[w].now = 0 /\ run[w].todo = <<>> /\ run[w].ask = {} /\ run[w].done = {}
    BY <2>1 DEF Idle
  <2>3. 0 \in 0 .. clock
    OBVIOUS
  <2>4. <<>> \in Seq(Decisions)
    OBVIOUS
  <2> QED BY <2>2, <2>3, <2>4 DEF RunTyped, Typed, CardsOf, Awaits
<1> QED BY <1>2, <1>3 DEF TypeInv

\* The fields of a run after each of its steps.
Holds(r, at, now, todo, ask, done) ==
    r.at = at /\ r.now = now /\ r.todo = todo /\ r.ask = ask /\ r.done = done

LEMMA AfterPropose ==
    ASSUME RunShape, NEW w \in Workers, Propose(w)
    PROVE  \E m \in Statistics, campaign \in Spending :
              Holds(run'[w], "history", clock,
                    ResolveConflicts(Proposals(m, mirror, Target, Saving(campaign, Budget))), {}, {})
<1>1. PICK m \in Statistics, campaign \in Spending :
         LET ds == ResolveConflicts(Proposals(m, mirror, Target, Saving(campaign, Budget)))
         IN  run' = [run EXCEPT ![w] = [Idle EXCEPT !.at = "history", !.now = clock,
                                                   !.stats = [of |-> m, campaign |-> campaign], !.todo = ds]]
  BY DEF Propose
<1> DEFINE ds == ResolveConflicts(Proposals(m, mirror, Target, Saving(campaign, Budget)))
<1> HIDE DEF ds
<1>2. PICK stats : run' = [run EXCEPT ![w] = [Idle EXCEPT !.at = "history", !.now = clock,
                                                         !.stats = stats, !.todo = ds]]
  BY <1>1 DEF ds
<1>3. run'[w] = [Idle EXCEPT !.at = "history", !.now = clock, !.stats = stats, !.todo = ds]
  BY <1>2, Zenon DEF RunShape
<1>4. Holds(run'[w], "history", clock, ds, {}, {})
  BY <1>3 DEF Idle, Holds
<1> QED BY <1>4 DEF ds

LEMMA AfterAdvance ==
    ASSUME RunShape, NEW w \in Workers, NEW more, Advance(w, more)
    PROVE  Holds(run'[w], "apply", run[w].now, Tail(run[w].todo), run[w].ask, run[w].done \cup more)
<1>1. run'[w] = [run[w] EXCEPT !.at = "apply", !.todo = Tail(@), !.done = @ \cup more]
  BY Zenon DEF RunShape, Advance
<1> QED BY <1>1 DEF RunShape, Holds

LEMMA AfterToCards ==
    ASSUME RunShape, NEW w \in Workers, NEW rest, ToCards(w, rest)
    PROVE  \/ Holds(run'[w], "idle", 0, <<>>, {}, {})
           \/ Holds(run'[w], "ask", run[w].now, <<>>, rest, {})
<1>1. CASE rest = {}
  <2>1. run'[w] = Idle
    BY <1>1, Zenon DEF ToCards, RunShape
  <2> QED BY <2>1 DEF Idle, Holds
<1>2. CASE rest # {}
  <2>1. run'[w] = [run[w] EXCEPT !.at = "ask", !.ask = rest, !.todo = <<>>, !.done = {}]
    BY <1>2, Zenon DEF RunShape, ToCards
  <2> QED BY <2>1 DEF RunShape, Holds
<1> QED BY <1>1, <1>2

LEMMA AfterReserve ==
    ASSUME RunShape, NEW w \in Workers, Reserve(w)
    PROVE  \/ Holds(run'[w], "apply", run[w].now, Tail(run[w].todo), run[w].ask, run[w].done)
           \/ Holds(run'[w], "write", run[w].now, run[w].todo, run[w].ask, run[w].done)
<1>1. CASE run' = [run EXCEPT ![w].todo = Tail(@)]
  <2>1. run'[w] = [run[w] EXCEPT !.todo = Tail(@)]
    BY <1>1, Zenon DEF RunShape
  <2> QED BY <2>1 DEF RunShape, Holds, Reserve
<1>2. CASE run' = [run EXCEPT ![w].at = "write"]
  <2>1. run'[w] = [run[w] EXCEPT !.at = "write"]
    BY <1>2, Zenon DEF RunShape
  <2> QED BY <2>1 DEF RunShape, Holds
<1> QED BY <1>1, <1>2 DEF Reserve

LEMMA AfterWrite ==
    ASSUME RunShape, NEW w \in Workers, Write(w)
    PROVE  Holds(run'[w], "log", run[w].now, run[w].todo, run[w].ask, run[w].done)
<1>1. run'[w] = [run[w] EXCEPT !.at = "log"]
  BY Zenon DEF RunShape, Write
<1> QED BY <1>1 DEF RunShape, Holds

LEMMA AfterSyncLocal ==
    ASSUME RunShape, NEW w \in Workers, SyncLocal(w)
    PROVE  \/ Holds(run'[w], "idle", 0, <<>>, {}, {})
           \/ Holds(run'[w], "ask", run[w].now, <<>>, run[w].ask, {})
           \/ Holds(run'[w], "negate", run[w].now, <<>>, run[w].ask, run[w].done)
<1>1. CASE ToCards(w, run[w].ask)
  BY <1>1, AfterToCards
<1>2. CASE run' = [run EXCEPT ![w].at = "negate"]
  <2>1. run'[w] = [run[w] EXCEPT !.at = "negate"]
    BY <1>2, Zenon DEF RunShape
  <2>2. run[w].todo = <<>>
    BY DEF SyncLocal
  <2> QED BY <2>1, <2>2 DEF RunShape, Holds
<1> QED BY <1>1, <1>2 DEF SyncLocal

LEMMA AfterReserveCard ==
    ASSUME RunShape, NEW w \in Workers, ReserveCard(w)
    PROVE  \E card \in run[w].ask :
              \/ Holds(run'[w], "idle", 0, <<>>, {}, {})
              \/ Holds(run'[w], "ask", run[w].now, <<>>, run[w].ask \ {card}, {})
              \/ Holds(run'[w], "issue", run[w].now, <<card>>, run[w].ask, run[w].done)
<1>1. PICK card \in run[w].ask :
         \/ ToCards(w, run[w].ask \ {card})
         \/ run' = [run EXCEPT ![w].at = "issue", ![w].todo = <<card>>]
  BY DEF ReserveCard
<1>2. CASE ToCards(w, run[w].ask \ {card})
  BY <1>2, AfterToCards
<1>3. CASE run' = [run EXCEPT ![w].at = "issue", ![w].todo = <<card>>]
  <2>1. run'[w] = [run[w] EXCEPT !.at = "issue", !.todo = <<card>>]
    BY <1>3, Zenon DEF RunShape
  <2>2. Holds(run'[w], "issue", run[w].now, <<card>>, run[w].ask, run[w].done)
    BY <2>1 DEF RunShape, Holds
  <2> QED BY <2>2
<1> QED BY <1>1, <1>2, <1>3

LEMMA AfterIssue ==
    ASSUME RunShape, NEW w \in Workers, Issue(w)
    PROVE  \/ Holds(run'[w], "idle", 0, <<>>, {}, {})
           \/ \E rest \in SUBSET run[w].ask : Holds(run'[w], "ask", run[w].now, <<>>, rest, {})
<1>1. PICK rest \in SUBSET run[w].ask : ToCards(w, rest)
  BY DEF Issue
<1> QED BY <1>1, AfterToCards

\* A step of one run leaves the others what they are.
LEMMA OthersStay ==
    ASSUME KeyInv, NEW w \in Workers, Step(w) \/ Crash(w), NEW v \in Workers \ {w}
    PROVE  run'[v] = run[v]
<1> USE DEF KeyInv
<1>1. CASE Advance(w, {}) \/ \E more : Advance(w, more)
  BY <1>1, AdvancePutsDown
<1>2. CASE \E rest : ToCards(w, rest)
  BY <1>2, ToCardsPutsDown
<1>3. CASE \E r : run' = [run EXCEPT ![w] = r]
  BY <1>3, Zenon DEF RunShape
<1>4. CASE Propose(w) \/ Crash(w)
  BY <1>3, <1>4 DEF Propose, Crash
<1>5. CASE Decide(w)
  BY <1>5, Zenon DEF RunShape, Decide
<1>6. CASE Reserve(w)
  BY <1>6, Zenon DEF RunShape, Reserve
<1>7. CASE Write(w)
  BY <1>7, Zenon DEF RunShape, Write
<1>8. CASE Miss(w) \/ LogChange(w)
  BY <1>1, <1>8 DEF Miss, LogChange
<1>9. CASE SyncLocal(w)
  <2>1. CASE run' = [run EXCEPT ![w].at = "negate"]
    BY <2>1, Zenon DEF RunShape
  <2> QED BY <1>2, <1>9, <2>1 DEF SyncLocal
<1>10. CASE MarkNegated(w) \/ Issue(w)
  BY <1>2, <1>10 DEF MarkNegated, Issue
<1>11. CASE ReserveCard(w)
  <2>1. PICK card \in run[w].ask :
           \/ ToCards(w, run[w].ask \ {card})
           \/ run' = [run EXCEPT ![w].at = "issue", ![w].todo = <<card>>]
    BY <1>11 DEF ReserveCard
  <2>2. CASE run' = [run EXCEPT ![w].at = "issue", ![w].todo = <<card>>]
    BY <2>2, Zenon DEF RunShape
  <2> QED BY <1>2, <2>1, <2>2
<1> QED BY <1>4, <1>5, <1>6, <1>7, <1>8, <1>9, <1>10, <1>11 DEF Step

LEMMA RunTypedAfter ==
    ASSUME NEW w, NEW at, NEW now, NEW todo, NEW ask, NEW done,
           Holds(run'[w], at, now, todo, ask, done), UNCHANGED clock, Typed(at, now, todo, ask, done)
    PROVE  RunTyped(w)'
BY DEF RunTyped, Typed, Holds

LEMMA ChangedType ==
    ASSUME NEW row \in LocalRows, NEW d \in Decisions
    PROVE  Changed(row, d) \in LocalRows /\ (d.action \in BidActions => Changed(row, d).bid = d.next)
           /\ (d.action \notin BidActions => Changed(row, d).bid = row.bid)
BY DEF LocalRows, Decisions, Changed

LEMMA ProposeTyped ==
    ASSUME KeyInv, TypeInv, NEW w \in Workers, Propose(w)
    PROVE  RunTyped(w)' /\ DbTyped'
<1>1. PICK m \in Statistics, campaign \in Spending :
         Holds(run'[w], "history", clock, ResolveConflicts(Proposals(m, mirror, Target, Saving(campaign, Budget))), {}, {})
  BY AfterPropose DEF KeyInv
<1>2. ResolveConflicts(Proposals(m, mirror, Target, Saving(campaign, Budget))) \in Seq(Decisions)
  <2>1. Proposals(m, mirror, Target, Saving(campaign, Budget)) \in Seq(Proposed(mirror))
    BY OptimizerAssumption, ProposalsType DEF TypeInv, DbTyped
  <2>2. Proposed(mirror) \subseteq Decisions
    BY DEF Proposed
  <2>3. Proposals(m, mirror, Target, Saving(campaign, Budget)) \in Seq(Decisions)
    BY <2>1, <2>2
  <2> QED BY <2>3, ConflictsAreResolved
<1> DEFINE todo == ResolveConflicts(Proposals(m, mirror, Target, Saving(campaign, Budget)))
<1> HIDE DEF todo
<1>3. todo \in Seq(Decisions) /\ Holds(run'[w], "history", clock, todo, {}, {})
  BY <1>1, <1>2 DEF todo
<1>4. Typed("history", clock, todo, {}, {}) /\ UNCHANGED clock
  BY <1>3, OptimizerAssumption DEF TypeInv, DbTyped, Propose, Awaits, Typed, CardsOf
<1>5. RunTyped(w)'
  BY <1>3, <1>4, RunTypedAfter
<1>6. DbTyped'
  BY DEF TypeInv, DbTyped, Propose, dbVars, historyVars
<1> QED BY <1>5, <1>6

\* What Decide finds the bid of an entity to have been when the window began.
LEMMA AnchorOf ==
    ASSUME TypeInv, NEW e \in Entities, NEW from, RowsSince(e, from) # {}
    PROVE  /\ Min(RowsSince(e, from)) \in RowsSince(e, from)
           /\ \A i \in RowsSince(e, from) : Min(RowsSince(e, from)) <= i
           /\ log[Min(RowsSince(e, from))].prev \in Nat
<1>1. RowsSince(e, from) \subseteq Nat
  BY DEF RowsSince, TypeInv, DbTyped
<1>2. \E x \in RowsSince(e, from) : \A y \in RowsSince(e, from) : x <= y
  BY <1>1, LeastOf
<1>3. /\ Min(RowsSince(e, from)) \in RowsSince(e, from)
      /\ \A i \in RowsSince(e, from) : Min(RowsSince(e, from)) <= i
  BY <1>2 DEF Min
<1>4. \A i \in DOMAIN log : log[i].prev \in Nat
  BY LogTimes DEF LogRows
<1>5. Min(RowsSince(e, from)) \in DOMAIN log
  BY <1>3 DEF RowsSince
<1> QED BY <1>3, <1>4, <1>5

\* The bid a change is held to: what the first row of the window found, or what the change
\* itself goes by.
Anchor(w, d) == IF d.entity \in DOMAIN Anchors(w) THEN Anchors(w)[d.entity] ELSE d.prev

LEMMA AnchorType ==
    ASSUME TypeInv, NEW w \in Workers, NEW d \in Decisions
    PROVE  /\ Anchor(w, d) \in Nat
           /\ RowsSince(d.entity, run[w].now - Window) = {} => Anchor(w, d) = d.prev
           /\ RowsSince(d.entity, run[w].now - Window) # {} =>
                 Anchor(w, d) = log[Min(RowsSince(d.entity, run[w].now - Window))].prev
<1>1. d.entity \in Entities /\ d.prev \in Nat
  BY DEF Decisions
<1>2. CASE RowsSince(d.entity, run[w].now - Window) = {}
  BY <1>1, <1>2 DEF Anchor, Anchors
<1>3. CASE RowsSince(d.entity, run[w].now - Window) # {}
  <2>1. log[Min(RowsSince(d.entity, run[w].now - Window))].prev \in Nat
    BY <1>1, <1>3, AnchorOf
  <2>2. Anchor(w, d) = log[Min(RowsSince(d.entity, run[w].now - Window))].prev
    BY <1>1, <1>3 DEF Anchor, Anchors
  <2> QED BY <1>3, <2>1, <2>2
<1> QED BY <1>2, <1>3

\* What a decision lets pass: each change is one of the run's, with a bid within the window
\* of its anchor.
LEMMA AfterDecide ==
    ASSUME KeyInv, TypeInv, NEW w \in Workers, Decide(w), NEW S,
           \A i \in DOMAIN run[w].todo, l \in Decisions :
              LET d == run[w].todo[i]
              IN  /\ l.action = d.action /\ l.entity = d.entity /\ l.prev = d.prev
                  /\ d.action \in BidActions => InWindow(l, Anchor(w, d))
                  => l \in S
    PROVE  \E todo, ask :
              /\ todo \in Seq(S) /\ CardsOf(ask, S)
              /\ Holds(run'[w], "apply", run[w].now, todo, ask, run[w].done)
<1> DEFINE anchors == Anchors(w)
           history == [unavailable |-> {e \in DOMAIN anchors : anchors[e] = 0}, anchor |-> anchors]
           allowed == ApplyGuardrails(run[w].todo, run[w].stats.of, history)
           todo == AutoApply(allowed, mode)
           ask == {Card(run[w].stats, c) : c \in Approvals(allowed, mode)}
<1>1. run' = [run EXCEPT ![w].at = "apply", ![w].stats = <<>>, ![w].todo = todo, ![w].ask = ask]
  BY DEF Decide
<1>2. run[w].todo \in Seq(Decisions)
  BY DEF Decide, TypeInv, RunTyped, Typed
<1>3. \A i \in DOMAIN run[w].todo : LimitValue(run[w].todo[i], history) \subseteq S
  <2>1. SUFFICES ASSUME NEW i \in DOMAIN run[w].todo, NEW l \in LimitValue(run[w].todo[i], history)
                 PROVE  l \in S
    OBVIOUS
  <2> DEFINE d == run[w].todo[i]
  <2>2. d \in Decisions
    BY <1>2
  <2>3. Anchor(w, d) \in Nat
    BY <2>2, AnchorType
  <2>4. Anchor(w, d) = IF d.entity \in DOMAIN history.anchor THEN history.anchor[d.entity] ELSE d.prev
    BY DEF Anchor
  <2> HIDE DEF d, history
  <2>5. /\ l \in Decisions /\ l.action = d.action /\ l.entity = d.entity /\ l.prev = d.prev
        /\ d.action \in BidActions => InWindow(l, Anchor(w, d))
    BY <2>1, <2>2, <2>3, <2>4, LimitHolds DEF d
  <2> QED BY <2>5 DEF d
<1>4. allowed \in Seq(S)
  <2> DEFINE n == Len(run[w].todo)
  <2>1. n \in Nat /\ DOMAIN run[w].todo = 1 .. n
    BY <1>2
  <2> HIDE DEF n, history
  <2> QED BY <1>3, <2>1, ApplyGuardrailsType
<1> HIDE DEF allowed
<1>5. todo \in Seq(S)
  BY <1>4, AutoApplyType
<1>6. CardsOf(ask, S)
  <2>1. {allowed[i] : i \in DOMAIN allowed} \subseteq S
    BY <1>4
  <2>2. \A c \in Approvals(allowed, mode) : c \subseteq S
    BY <2>1 DEF Approvals
  <2>3. \A c : Card(run[w].stats, c).changes = c
    BY DEF Card
  <2> QED BY <2>2, <2>3 DEF CardsOf
<1> HIDE DEF todo, ask
<1>7. run'[w] = [run[w] EXCEPT !.at = "apply", !.stats = <<>>, !.todo = todo, !.ask = ask]
  BY <1>1, Zenon DEF KeyInv, RunShape
<1>8. Holds(run'[w], "apply", run[w].now, todo, ask, run[w].done)
  BY <1>7 DEF KeyInv, RunShape, Holds
<1> QED BY <1>5, <1>6, <1>8

\* The head of a sequence of changes, and what is left of it.
LEMMA HeadTail ==
    ASSUME NEW S, NEW s \in Seq(S), s # <<>>
    PROVE  Head(s) \in S /\ Tail(s) \in Seq(S) /\ 1 \in DOMAIN s /\ Head(s) = s[1]
OBVIOUS

LEMMA TailShifts ==
    ASSUME NEW S, NEW s \in Seq(S), s # <<>>, NEW i \in DOMAIN Tail(s)
    PROVE  i + 1 \in DOMAIN s /\ Tail(s)[i] = s[i + 1]
OBVIOUS

\* The change a run writes or logs.
LEMMA HeadTyped ==
    ASSUME TypeInv, NEW w \in Workers, run[w].at \in {"write", "log"}
    PROVE  /\ Head(run[w].todo) \in Decisions /\ Tail(run[w].todo) \in Seq(Decisions)
           /\ Head(run[w].todo).entity \in Entities /\ run[w].todo # <<>>
           /\ run[w].todo \in Seq(Decisions)
<1>1. run[w].todo \in Seq(Decisions) /\ run[w].todo # <<>>
  BY DEF TypeInv, RunTyped, Typed
<1>2. Head(run[w].todo) \in Decisions
  BY <1>1, HeadTail
<1> QED BY <1>1, <1>2, HeadTail DEF Decisions

LEMMA DecideTyped ==
    ASSUME KeyInv, TypeInv, NEW w \in Workers, Decide(w)
    PROVE  RunTyped(w)' /\ DbTyped'
<1>1. PICK todo, ask :
         /\ todo \in Seq(Decisions) /\ CardsOf(ask, Decisions)
         /\ Holds(run'[w], "apply", run[w].now, todo, ask, run[w].done)
  BY AfterDecide
<1>2. Typed("apply", run[w].now, todo, ask, run[w].done) /\ UNCHANGED clock
  BY <1>1 DEF TypeInv, RunTyped, Typed, Decide, Awaits
<1>3. RunTyped(w)'
  BY <1>1, <1>2, RunTypedAfter
<1>4. untold' \subseteq Entities
  <2>1. run[w].todo \in Seq(Decisions)
    BY DEF Decide, TypeInv, RunTyped, Typed
  <2>2. \A i \in DOMAIN run[w].todo : run[w].todo[i] \in Decisions
    BY <2>1
  <2>3. \A i \in DOMAIN run[w].todo : run[w].todo[i].entity \in Entities
    BY <2>2 DEF Decisions
  <2> QED BY <2>3 DEF Decide, TypeInv, DbTyped
<1>5. DbTyped'
  BY <1>4 DEF TypeInv, DbTyped, Decide, dbVars
<1> QED BY <1>3, <1>5

LEMMA ReserveTyped ==
    ASSUME KeyInv, TypeInv, NEW w \in Workers, Reserve(w)
    PROVE  RunTyped(w)' /\ DbTyped'
<1>1. run[w].todo \in Seq(Decisions) /\ run[w].todo # <<>> /\ UNCHANGED clock
  BY DEF TypeInv, RunTyped, Typed, Reserve
<1>2. Tail(run[w].todo) \in Seq(Decisions)
  BY <1>1, HeadTail
<1>3. \/ Holds(run'[w], "apply", run[w].now, Tail(run[w].todo), run[w].ask, run[w].done)
      \/ Holds(run'[w], "write", run[w].now, run[w].todo, run[w].ask, run[w].done)
  BY AfterReserve DEF KeyInv
<1>4. RunTyped(w)'
  <2>1. /\ Typed("apply", run[w].now, Tail(run[w].todo), run[w].ask, run[w].done)
        /\ Typed("write", run[w].now, run[w].todo, run[w].ask, run[w].done)
    BY <1>1, <1>2 DEF TypeInv, RunTyped, Typed, Awaits, Reserve
  <2> QED BY <1>1, <1>3, <2>1, RunTypedAfter
<1>5. DbTyped'
  BY DEF TypeInv, DbTyped, Reserve, historyVars
<1> QED BY <1>4, <1>5

LEMMA CarryOutTyped ==
    ASSUME TypeInv, NEW w \in Workers, NEW d \in Decisions, CarryOut(w, d)
    PROVE  cabinet' \in [Entities -> LocalRows]
<1>1. cabinet \in [Entities -> LocalRows] /\ d.entity \in Entities
  BY DEF TypeInv, DbTyped, Decisions
<1>2. Changed(cabinet[d.entity], d) \in LocalRows
  BY <1>1, ChangedType
<1>3. cabinet' = [cabinet EXCEPT ![d.entity] = Changed(cabinet[d.entity], d)]
  BY DEF CarryOut
<1> HIDE DEF CarryOut
<1> QED BY <1>1, <1>2, <1>3, Zenon

LEMMA WriteTyped ==
    ASSUME KeyInv, TypeInv, NEW w \in Workers, Write(w)
    PROVE  RunTyped(w)' /\ DbTyped'
<1>1. Typed("log", run[w].now, run[w].todo, run[w].ask, run[w].done) /\ UNCHANGED clock
  BY DEF TypeInv, RunTyped, Typed, Write, Awaits
<1>2. Holds(run'[w], "log", run[w].now, run[w].todo, run[w].ask, run[w].done)
  BY AfterWrite DEF KeyInv
<1>3. RunTyped(w)'
  BY <1>1, <1>2, RunTypedAfter
<1>4. cabinet' \in [Entities -> LocalRows]
  <2>1. Head(run[w].todo) \in Decisions
    BY HeadTyped DEF Write
  <2> QED BY <2>1, CarryOutTyped DEF Write
<1>5. DbTyped'
  BY <1>4 DEF TypeInv, DbTyped, Write, dbVars
<1> QED BY <1>3, <1>5

\* A change is put aside, with itself among the done ones or not.
LEMMA AdvanceTyped ==
    ASSUME KeyInv, TypeInv, NEW w \in Workers, run[w].at \in {"write", "log"}, NEW more,
           more \subseteq {Head(run[w].todo)}, Advance(w, more), UNCHANGED clock
    PROVE  RunTyped(w)'
<1>1. Head(run[w].todo) \in Decisions /\ Tail(run[w].todo) \in Seq(Decisions)
  BY HeadTyped
<1>2. Typed("apply", run[w].now, Tail(run[w].todo), run[w].ask, run[w].done \cup more)
  BY <1>1 DEF TypeInv, RunTyped, Typed, Awaits
<1>3. Holds(run'[w], "apply", run[w].now, Tail(run[w].todo), run[w].ask, run[w].done \cup more)
  BY AfterAdvance DEF KeyInv
<1> QED BY <1>2, <1>3, RunTypedAfter

LEMMA MissTyped ==
    ASSUME KeyInv, TypeInv, NEW w \in Workers, Miss(w)
    PROVE  RunTyped(w)' /\ DbTyped'
<1> DEFINE d == Head(run[w].todo)
<1>1. d \in Decisions /\ d.entity \in Entities /\ run[w].at \in {"write", "log"} /\ UNCHANGED clock
  BY HeadTyped DEF Miss
<1>2. \/ Advance(w, {}) /\ UNCHANGED <<cabinet, untold>>
      \/ Advance(w, {d}) /\ UNCHANGED <<cabinet, untold>>
      \/ Advance(w, {}) /\ CarryOut(w, d) /\ untold' = untold \cup {d.entity}
  BY DEF Miss
<1>3. RunTyped(w)'
  <2>1. {} \subseteq {d} /\ {d} \subseteq {d}
    OBVIOUS
  <2> QED BY <1>1, <1>2, <2>1, AdvanceTyped
<1>4. cabinet' \in [Entities -> LocalRows] /\ untold' \in SUBSET Entities
  <2>1. cabinet \in [Entities -> LocalRows] /\ untold \in SUBSET Entities
    BY DEF TypeInv, DbTyped
  <2> HIDE DEF d
  <2> QED BY <1>1, <1>2, <2>1, CarryOutTyped
<1>5. DbTyped'
  BY <1>4 DEF TypeInv, DbTyped, Miss
<1> QED BY <1>3, <1>5

LEMMA ChangeRowType ==
    ASSUME TypeInv, NEW d \in Decisions
    PROVE  ChangeRow(d) \in LogRows
BY DEF TypeInv, DbTyped, ChangeRow, LogRows, Decisions

\* The log after one more row.
LEMMA LogGrows ==
    ASSUME TypeInv, NEW d \in Decisions, log' = Append(log, ChangeRow(d)), UNCHANGED clock
    PROVE  /\ log' \in Seq(LogRows) /\ Len(log) \in Nat /\ DOMAIN log = 1 .. Len(log)
           /\ DOMAIN log' = 1 .. Len(log) + 1
           /\ \A i \in DOMAIN log : log'[i] = log[i]
           /\ log'[Len(log) + 1] = ChangeRow(d)
           /\ \A i \in DOMAIN log' : log'[i].at <= clock /\ (i > 1 => log'[i - 1].at <= log'[i].at)
<1>1. log \in Seq(LogRows) /\ \A i \in DOMAIN log : log[i].at <= clock /\ (i > 1 => log[i - 1].at <= log[i].at)
  BY DEF TypeInv, DbTyped
<1>2. ChangeRow(d) \in LogRows /\ ChangeRow(d).at = clock /\ clock \in Nat
  BY ChangeRowType, OptimizerAssumption DEF ChangeRow, TypeInv, DbTyped
<1>3. /\ log' \in Seq(LogRows) /\ Len(log) \in Nat /\ DOMAIN log = 1 .. Len(log)
      /\ DOMAIN log' = 1 .. Len(log) + 1
      /\ \A i \in DOMAIN log : log'[i] = log[i]
      /\ log'[Len(log) + 1] = ChangeRow(d)
  <2> HIDE DEF ChangeRow
  <2> QED BY <1>1, <1>2
<1>4. ASSUME NEW i \in DOMAIN log'
      PROVE  log'[i].at <= clock /\ (i > 1 => log'[i - 1].at <= log'[i].at)
  <2>1. CASE i \in DOMAIN log
    <3>1. i > 1 => i - 1 \in DOMAIN log
      BY <1>3, <2>1
    <3> QED BY <1>1, <1>3, <2>1, <3>1
  <2>2. CASE i = Len(log) + 1
    <3>1. i > 1 => i - 1 \in DOMAIN log
      BY <1>3, <2>2
    <3>2. log'[i].at = clock
      BY <1>2, <1>3, <2>2
    <3>3. i > 1 => log'[i - 1] = log[i - 1] /\ log[i - 1].at <= clock
      BY <1>1, <1>3, <3>1
    <3> QED BY <1>2, <3>2, <3>3
  <2> QED BY <1>3, <2>1, <2>2
<1> QED BY <1>3, <1>4

LEMMA LogChangeTyped ==
    ASSUME KeyInv, TypeInv, NEW w \in Workers, LogChange(w)
    PROVE  RunTyped(w)' /\ DbTyped'
<1> DEFINE d == Head(run[w].todo)
<1>1. d \in Decisions /\ d.entity \in Entities /\ run[w].at \in {"write", "log"} /\ UNCHANGED clock
  BY HeadTyped DEF LogChange
<1>2. /\ Advance(w, {d}) \/ Advance(w, Unmarked(d))
      /\ log' = Append(log, ChangeRow(d)) \/ log' = log
      /\ untold' \in {untold, untold \cup {d.entity}}
  BY DEF LogChange
<1>3. RunTyped(w)'
  <2>1. {d} \subseteq {d} /\ Unmarked(d) \subseteq {d}
    BY DEF Unmarked
  <2> QED BY <1>1, <1>2, <2>1, AdvanceTyped
<1> HIDE DEF d
<1>4. untold' \in SUBSET Entities
  BY <1>1, <1>2 DEF TypeInv, DbTyped
<1>5. log' \in Seq(LogRows) /\ \A i \in DOMAIN log' : log'[i].at <= clock' /\ (i > 1 => log'[i - 1].at <= log'[i].at)
  <2>1. CASE log' = Append(log, ChangeRow(d))
    BY <1>1, <2>1, LogGrows
  <2>2. CASE log' = log
    BY <1>1, <2>2 DEF TypeInv, DbTyped
  <2> QED BY <1>2, <2>1, <2>2
<1>6. DbTyped'
  BY <1>4, <1>5 DEF TypeInv, DbTyped, LogChange
<1> QED BY <1>3, <1>6

LEMMA ToCardsTyped ==
    ASSUME KeyInv, TypeInv, NEW w \in Workers, NEW rest \in SUBSET run[w].ask, ToCards(w, rest), UNCHANGED clock
    PROVE  RunTyped(w)'
<1>1. Typed("idle", 0, <<>>, {}, {}) /\ Typed("ask", run[w].now, <<>>, rest, {})
  <2>1. run[w].now \in 0 .. clock /\ CardsOf(run[w].ask, Decisions)
    BY DEF TypeInv, RunTyped, Typed
  <2>2. clock \in Nat
    BY OptimizerAssumption DEF TypeInv, DbTyped
  <2>3. <<>> \in Seq(Decisions) /\ 0 \in 0 .. clock
    BY <2>2
  <2> QED BY <2>1, <2>3 DEF Typed, CardsOf, Awaits
<1>2. \/ Holds(run'[w], "idle", 0, <<>>, {}, {})
      \/ Holds(run'[w], "ask", run[w].now, <<>>, rest, {})
  BY AfterToCards DEF KeyInv
<1> QED BY <1>1, <1>2, RunTypedAfter

\* What the local rows are after syncLocalState: a row of a change that was made has its bid.
LEMMA AfterMirror ==
    ASSUME KeyInv, TypeInv, NEW w \in Workers, SyncLocal(w)
    PROVE  /\ mirror' \in [Entities -> LocalRows]
           /\ \A e \in Entities :
                 \/ mirror'[e].bid = mirror[e].bid
                 \/ \E d \in run[w].done : d.entity = e /\ d.action \in BidActions /\ mirror'[e].bid = d.next
<1> DEFINE rows == {d \in run[w].done : d.action # "ADD_NEGATIVE_KEYWORD"}
           ds(e) == {d \in rows : d.entity = e}
           rowOf(e) == IF ds(e) = {} THEN mirror[e] ELSE Changed(mirror[e], CHOOSE d \in ds(e) : TRUE)
<1>1. mirror' = [e \in Entities |-> rowOf(e)] \/ mirror' = mirror
  BY DEF SyncLocal
<1>2. mirror \in [Entities -> LocalRows] /\ run[w].done \subseteq Decisions
  BY DEF TypeInv, DbTyped, RunTyped, Typed
<1>3. ASSUME NEW e \in Entities
      PROVE  /\ rowOf(e) \in LocalRows
             /\ \/ rowOf(e).bid = mirror[e].bid
                \/ \E d \in run[w].done : d.entity = e /\ d.action \in BidActions /\ rowOf(e).bid = d.next
  <2>1. CASE ds(e) = {}
    BY <1>2, <2>1
  <2>2. CASE ds(e) # {}
    <3> DEFINE c == CHOOSE d \in ds(e) : TRUE
    <3>1. c \in ds(e)
      BY <2>2
    <3>2. rowOf(e) = Changed(mirror[e], c)
      BY <2>2
    <3> HIDE DEF c, rowOf
    <3>3. c \in run[w].done /\ c.entity = e /\ c \in Decisions /\ mirror[e] \in LocalRows
      BY <1>2, <3>1
    <3>4. /\ Changed(mirror[e], c) \in LocalRows
          /\ c.action \in BidActions => Changed(mirror[e], c).bid = c.next
          /\ c.action \notin BidActions => Changed(mirror[e], c).bid = mirror[e].bid
      BY <3>3, ChangedType
    <3> QED BY <3>2, <3>3, <3>4
  <2> QED BY <2>1, <2>2
<1> HIDE DEF rowOf
<1> QED BY <1>1, <1>2, <1>3

LEMMA SyncLocalTyped ==
    ASSUME KeyInv, TypeInv, NEW w \in Workers, SyncLocal(w)
    PROVE  RunTyped(w)' /\ DbTyped'
<1>1. /\ Typed("idle", 0, <<>>, {}, {}) /\ Typed("ask", run[w].now, <<>>, run[w].ask, {})
      /\ Typed("negate", run[w].now, <<>>, run[w].ask, run[w].done)
  <2>1. run[w].now \in 0 .. clock /\ CardsOf(run[w].ask, Decisions) /\ run[w].done \in SUBSET Decisions
    BY DEF TypeInv, RunTyped, Typed
  <2>2. clock \in Nat
    BY OptimizerAssumption DEF TypeInv, DbTyped
  <2>3. <<>> \in Seq(Decisions) /\ 0 \in 0 .. clock
    BY <2>2
  <2> QED BY <2>1, <2>3 DEF Typed, CardsOf, Awaits
<1>2. \/ Holds(run'[w], "idle", 0, <<>>, {}, {})
      \/ Holds(run'[w], "ask", run[w].now, <<>>, run[w].ask, {})
      \/ Holds(run'[w], "negate", run[w].now, <<>>, run[w].ask, run[w].done)
  BY AfterSyncLocal DEF KeyInv
<1>3. RunTyped(w)'
  <2>1. UNCHANGED clock
    BY DEF SyncLocal
  <2> QED BY <1>1, <1>2, <2>1, RunTypedAfter
<1>4. DbTyped'
  <2>1. mirror' \in [Entities -> LocalRows]
    BY AfterMirror
  <2> QED BY <2>1 DEF TypeInv, DbTyped, SyncLocal, historyVars
<1> QED BY <1>3, <1>4

\* markNegated leaves the bids what they are.
LEMMA AfterNegated ==
    ASSUME KeyInv, TypeInv, NEW w \in Workers, MarkNegated(w)
    PROVE  mirror' \in [Entities -> LocalRows] /\ \A e \in Entities : mirror'[e].bid = mirror[e].bid
<1>1. mirror \in [Entities -> LocalRows]
  BY DEF TypeInv, DbTyped
<1>2. \A e \in Entities : LET r == [mirror[e] EXCEPT !.on = @ /\ e \notin Negated(w)]
                          IN  r \in LocalRows /\ r.bid = mirror[e].bid
  <2>1. \A r \in LocalRows, b \in BOOLEAN : LET s == [r EXCEPT !.on = @ /\ b] IN s \in LocalRows /\ s.bid = r.bid
    BY DEF LocalRows
  <2> QED BY <1>1, <2>1
<1>3. mirror' = [e \in Entities |-> [mirror[e] EXCEPT !.on = @ /\ e \notin Negated(w)]] \/ mirror' = mirror
  BY DEF MarkNegated
<1> QED BY <1>1, <1>2, <1>3

LEMMA MarkNegatedTyped ==
    ASSUME KeyInv, TypeInv, NEW w \in Workers, MarkNegated(w)
    PROVE  RunTyped(w)' /\ DbTyped'
<1>1. RunTyped(w)'
  BY ToCardsTyped DEF MarkNegated
<1>2. DbTyped'
  BY AfterNegated DEF TypeInv, DbTyped, MarkNegated, historyVars
<1> QED BY <1>1, <1>2

LEMMA ReserveCardTyped ==
    ASSUME KeyInv, TypeInv, NEW w \in Workers, ReserveCard(w)
    PROVE  RunTyped(w)' /\ DbTyped'
<1>1. PICK card \in run[w].ask :
         \/ Holds(run'[w], "idle", 0, <<>>, {}, {})
         \/ Holds(run'[w], "ask", run[w].now, <<>>, run[w].ask \ {card}, {})
         \/ Holds(run'[w], "issue", run[w].now, <<card>>, run[w].ask, run[w].done)
  BY AfterReserveCard DEF KeyInv
<1>2. /\ Typed("idle", 0, <<>>, {}, {}) /\ Typed("ask", run[w].now, <<>>, run[w].ask \ {card}, {})
      /\ Typed("issue", run[w].now, <<card>>, run[w].ask, run[w].done)
  <2>1. run[w].now \in 0 .. clock /\ CardsOf(run[w].ask, Decisions) /\ run[w].done \in SUBSET Decisions
    BY DEF TypeInv, RunTyped, Typed
  <2>2. clock \in Nat
    BY OptimizerAssumption DEF TypeInv, DbTyped
  <2>3. <<>> \in Seq(Decisions) /\ 0 \in 0 .. clock
    BY <2>2
  <2> QED BY <2>1, <2>3 DEF Typed, CardsOf, Awaits
<1>3. RunTyped(w)'
  <2>1. UNCHANGED clock
    BY DEF ReserveCard
  <2> QED BY <1>1, <1>2, <2>1, RunTypedAfter
<1>4. DbTyped'
  BY DEF TypeInv, DbTyped, ReserveCard, historyVars
<1> QED BY <1>3, <1>4

LEMMA IssueTyped ==
    ASSUME KeyInv, TypeInv, NEW w \in Workers, Issue(w)
    PROVE  RunTyped(w)' /\ DbTyped'
<1>1. PICK rest \in SUBSET run[w].ask : ToCards(w, rest)
  BY DEF Issue
<1>2. RunTyped(w)'
  BY <1>1, ToCardsTyped DEF Issue
<1>3. DbTyped'
  BY DEF TypeInv, DbTyped, Issue
<1> QED BY <1>2, <1>3

LEMMA AfterCrash ==
    ASSUME KeyInv, NEW w \in Workers, Crash(w)
    PROVE  Holds(run'[w], "idle", 0, <<>>, {}, {})
<1>1. run'[w] = Idle
  BY Zenon DEF KeyInv, RunShape, Crash
<1> QED BY <1>1 DEF Idle, Holds

LEMMA CrashTyped ==
    ASSUME KeyInv, TypeInv, NEW w \in Workers, Crash(w)
    PROVE  RunTyped(w)' /\ DbTyped'
<1>1. Typed("idle", 0, <<>>, {}, {}) /\ UNCHANGED clock
  <2>1. clock \in Nat
    BY OptimizerAssumption DEF TypeInv, DbTyped
  <2>2. <<>> \in Seq(Decisions) /\ 0 \in 0 .. clock
    BY <2>1
  <2> QED BY <2>2 DEF Typed, CardsOf, Awaits, Crash
<1>2. RunTyped(w)'
  BY <1>1, AfterCrash, RunTypedAfter
<1>3. untold' \in SUBSET Entities
  <2>1. CASE run[w].at = "log"
    <3>1. Head(run[w].todo).entity \in Entities
      BY <2>1, HeadTyped
    <3> QED BY <3>1 DEF Crash, TypeInv, DbTyped
  <2>2. CASE run[w].at # "log"
    BY <2>2 DEF Crash, TypeInv, DbTyped
  <2> QED BY <2>1, <2>2
<1>4. DbTyped'
  BY <1>3 DEF TypeInv, DbTyped, Crash, dbVars
<1> QED BY <1>2, <1>4

LEMMA SyncTyped ==
    ASSUME TypeInv, Sync
    PROVE  DbTyped'
<1>1. mirror \in [Entities -> LocalRows] /\ cabinet \in [Entities -> LocalRows]
      /\ past[clock] \in [Entities -> LocalRows]
  BY OptimizerAssumption DEF TypeInv, DbTyped
<1>2. mirror' \in [Entities -> LocalRows]
  BY <1>1 DEF Sync
<1> QED BY <1>2 DEF TypeInv, DbTyped, Sync, historyVars

LEMMA HumanEditTyped ==
    ASSUME TypeInv, HumanEdit
    PROVE  DbTyped'
<1>1. PICK e \in Entities, bid \in HumanBids :
         /\ cabinet' = [cabinet EXCEPT ![e] = [bid |-> bid, on |-> TRUE]]
         /\ untold' = untold \cup {e}
  BY DEF HumanEdit
<1>2. [bid |-> bid, on |-> TRUE] \in LocalRows
  BY OptimizerAssumption DEF LocalRows
<1>3. cabinet' \in [Entities -> LocalRows] /\ untold' \in SUBSET Entities
  BY <1>1, <1>2 DEF TypeInv, DbTyped
<1> QED BY <1>3 DEF TypeInv, DbTyped, HumanEdit, dbVars

LEMMA TickTyped ==
    ASSUME TypeInv, Tick
    PROVE  DbTyped' /\ \A w \in Workers : RunTyped(w)'
<1>1. clock \in Nat /\ clock' = clock + 1 /\ clock' \in 0 .. LastTick
  BY OptimizerAssumption DEF Tick, TypeInv, DbTyped
<1>2. past' \in [0 .. clock' -> [Entities -> LocalRows]]
  <2>1. cabinet \in [Entities -> LocalRows] /\ past \in [0 .. clock -> [Entities -> LocalRows]]
    BY DEF TypeInv, DbTyped
  <2>2. past' = [t \in 0 .. clock + 1 |-> IF t \in DOMAIN past THEN past[t] ELSE cabinet]
    BY DEF Tick
  <2> QED BY <1>1, <2>1, <2>2
<1>3. \A i \in DOMAIN log : log[i].at <= clock' /\ (i > 1 => log[i - 1].at <= log[i].at)
  BY <1>1, LogTimes DEF TypeInv, DbTyped
<1>4. DbTyped'
  BY <1>1, <1>2, <1>3 DEF TypeInv, DbTyped, Tick, dbVars
<1>5. ASSUME NEW w \in Workers PROVE RunTyped(w)'
  <2>1. run[w].now \in 0 .. clock' /\ UNCHANGED run
    BY <1>1 DEF TypeInv, RunTyped, Typed, Tick
  <2> QED BY <2>1 DEF TypeInv, RunTyped, Typed
<1> QED BY <1>4, <1>5

LEMMA TypeStep == KeyInv /\ TypeInv /\ [Next]_vars => TypeInv'
<1> SUFFICES ASSUME KeyInv, TypeInv, [Next]_vars PROVE TypeInv'  OBVIOUS
<1>1. ASSUME NEW w \in Workers, Step(w) \/ Crash(w) PROVE TypeInv'
  <2>1. RunTyped(w)' /\ DbTyped'
    BY <1>1, ProposeTyped, DecideTyped, ReserveTyped, WriteTyped, MissTyped, LogChangeTyped,
       SyncLocalTyped, MarkNegatedTyped, ReserveCardTyped, IssueTyped, CrashTyped DEF Step
  <2>2. \A v \in Workers \ {w} : run'[v] = run[v]
    BY <1>1, OthersStay
  <2>3. UNCHANGED clock
    BY <1>1 DEF Step, Propose, Decide, Reserve, Write, Miss, LogChange, SyncLocal, MarkNegated,
                ReserveCard, Issue, Crash
  <2>4. \A v \in Workers \ {w} : RunTyped(v)'
    BY <2>2, <2>3 DEF TypeInv, RunTyped, Typed
  <2> QED BY <2>1, <2>4 DEF TypeInv
<1>2. CASE Sync \/ HumanEdit
  <2>1. UNCHANGED <<run, clock>>
    BY <1>2 DEF Sync, HumanEdit
  <2>2. \A w \in Workers : RunTyped(w)'
    BY <2>1 DEF TypeInv, RunTyped, Typed
  <2> QED BY <1>2, <2>2, SyncTyped, HumanEditTyped DEF TypeInv
<1>3. CASE Tick
  BY <1>3, TickTyped DEF TypeInv
<1>4. CASE UNCHANGED vars
  BY <1>4 DEF vars, dbVars, historyVars, TypeInv, DbTyped, RunTyped, Typed
<1> QED BY <1>1, <1>2, <1>3, <1>4 DEF Next

LEMMA TypesHold == Spec => []TypeInv
BY KeysHold, TypeInit, TypeStep, PTL DEF Spec

\* runScheduledOptimization: whatever the rules propose and the guardrails let pass is a change
\* of an entity of the campaign, the log is in the order of its rows' appliedAt, a run that
\* writes has a change in hand and one that issues has a card in hand that it was to ask.
THEOREM TypeCorrect == Spec => []TypeOK
<1>1. KeyInv /\ TypeInv => TypeOK
  <2> SUFFICES ASSUME KeyInv, TypeInv PROVE TypeOK  OBVIOUS
  <2>1. \A i \in DOMAIN log : log[i] \in LogRows /\ (i > 1 => log[i - 1].at <= log[i].at)
    BY LogTimes DEF TypeInv, DbTyped
  <2>2. DOMAIN run = Workers
    BY DEF KeyInv, RunShape
  <2>3. ASSUME NEW w \in Workers
        PROVE  /\ run[w].at \in Awaits
               /\ run[w].now \in 0 .. clock
               /\ run[w].at # "issue" => \A i \in DOMAIN run[w].todo : run[w].todo[i] \in Decisions
               /\ run[w].done \in SUBSET Decisions
               /\ \A card \in run[w].ask : card.changes \subseteq Decisions
               /\ run[w].at \in {"write", "log", "issue"} => run[w].todo # <<>>
               /\ run[w].at = "issue" => Head(run[w].todo) \in run[w].ask
    <3>1. Typed(run[w].at, run[w].now, run[w].todo, run[w].ask, run[w].done)
      BY DEF TypeInv, RunTyped
    <3>2. run[w].at # "issue" => \A i \in DOMAIN run[w].todo : run[w].todo[i] \in Decisions
      <4>1. \A s \in Seq(Decisions) : \A i \in DOMAIN s : s[i] \in Decisions
        OBVIOUS
      <4> QED BY <3>1, <4>1 DEF Typed
    <3>3. run[w].at = "issue" => run[w].todo # <<>> /\ Head(run[w].todo) \in run[w].ask
      <4>1. \A card : <<card>> # <<>> /\ Head(<<card>>) = card
        OBVIOUS
      <4> QED BY <3>1, <4>1 DEF Typed
    <3> QED BY <3>1, <3>2, <3>3 DEF Typed, CardsOf
  <2> QED BY <2>1, <2>2, <2>3 DEF TypeInv, DbTyped, TypeOK
<1> QED BY <1>1, KeysHold, TypesHold, PTL

-----------------------------------------------------------------------------
(***************************************************************************)
(* The window.  What the log tells of an entity is what the cabinet had,   *)
(* except for a change that is made and not yet logged; what a run goes    *)
(* by, from its row or from its decision, is what the log tells, or else   *)
(* the log has a row in its window.                                        *)
(***************************************************************************)

\* A run has changed the bid and not yet logged it.
Pending(e) ==
    \E w \in Workers :
        /\ run[w].at = "log"
        /\ Head(run[w].todo).entity = e
        /\ Head(run[w].todo).action \in BidActions

Began(w) == IF run[w].now > Window THEN run[w].now - Window ELSE 0

\* The bid at the start of a tick is the one the first row since then found.
LogTells(e) ==
    \A t \in 0 .. clock :
       past[t][e].bid = IF RowsSince(e, t) = {} THEN ToldBid(e) ELSE log[Min(RowsSince(e, t))].prev

CabinetTold(e) == Pending(e) \/ cabinet[e].bid = ToldBid(e)

\* A local row may be old, and then there is a row of the log in the window of every run
\* that is still to begin before the next fetch-stats.
Horizon == IF fresh THEN clock + 1 ELSE clock
MirrorTold(e) ==
    Kind[e] = BidLevel =>
       Pending(e) \/ RowsSince(e, Horizon - Window) # {} \/ mirror[e].bid = ToldBid(e)

EntityTold(e) == LogTells(e) /\ CabinetTold(e) /\ MirrorTold(e)

\* A change of a bid the log tells the truth of.
Open(d) == d.action \in BidActions /\ d.entity \notin untold
Changes(w) == {run[w].todo[i] : i \in DOMAIN run[w].todo}
Working == {"apply", "write", "log"}

ProposedTold(w, d) ==
    Pending(d.entity) \/ RowsSince(d.entity, run[w].now - Window) # {} \/ d.prev = ToldBid(d.entity)
DoneTold(w, d) ==
    Pending(d.entity) \/ RowsSince(d.entity, run[w].now) # {} \/ d.next = ToldBid(d.entity)
WindowKept(w, d) == InWindow(d, past[Began(w)][d.entity].bid)

RunTold(w) ==
    /\ run[w].at = "history" => \A d \in Changes(w) : Open(d) => ProposedTold(w, d)
    /\ run[w].at \in Working => \A d \in Changes(w) : Open(d) => WindowKept(w, d)
    /\ \A d \in run[w].done : Open(d) => DoneTold(w, d)

WindowInv ==
    /\ \A e \in Entities \ untold : EntityTold(e)
    /\ \A w \in Workers : RunTold(w)

LEMMA WindowInit == Init => WindowInv
<1> SUFFICES ASSUME Init PROVE WindowInv  OBVIOUS
<1>1. ASSUME NEW e \in Entities PROVE EntityTold(e)
  <2>1. \A t : RowsSince(e, t) = {}
    BY DEF Init, RowsSince
  <2>2. ToldBid(e) = past[0][e].bid
    BY <2>1 DEF ToldBid
  <2>3. past[0] = cabinet /\ mirror = cabinet /\ 0 .. clock = {0}
    BY DEF Init
  <2> QED BY <2>1, <2>2, <2>3 DEF EntityTold, LogTells, CabinetTold, MirrorTold
<1>2. ASSUME NEW w \in Workers PROVE RunTold(w)
  <2>1. run[w] = Idle
    BY DEF Init
  <2>2. run[w].at = "idle" /\ run[w].done = {}
    BY <2>1 DEF Idle
  <2> QED BY <2>2 DEF RunTold, Working
<1> QED BY <1>1, <1>2 DEF WindowInv

-----------------------------------------------------------------------------

\* A step that leaves what is told of an entity true, whoever goes by it.
Calm(e) ==
    \/ \A t \in Int : t <= clock => RowsSince(e, t)' # {}
    \/ /\ ToldBid(e)' = ToldBid(e)
       /\ Pending(e) => Pending(e)'
       /\ \A t \in Int : RowsSince(e, t) # {} => RowsSince(e, t)' # {}

\* The entities of what a run holds are entities of the campaign.
LEMMA RunEntities ==
    ASSUME TypeInv, NEW w \in Workers
    PROVE  /\ \A d \in run[w].done : d \in Decisions /\ d.entity \in Entities
           /\ run[w].at # "issue" => \A d \in Changes(w) : d \in Decisions /\ d.entity \in Entities
           /\ run[w].now \in 0 .. clock /\ run[w].now \in Nat /\ clock \in Nat
           /\ Began(w) \in 0 .. clock
<1>1. Typed(run[w].at, run[w].now, run[w].todo, run[w].ask, run[w].done)
  BY DEF TypeInv, RunTyped
<1>2. clock \in Nat /\ Window \in Nat
  BY OptimizerAssumption DEF TypeInv, DbTyped
<1>3. \A d \in Decisions : d.entity \in Entities
  BY DEF Decisions
<1>4. run[w].at # "issue" => \A d \in Changes(w) : d \in Decisions
  <2>1. \A s \in Seq(Decisions) : \A i \in DOMAIN s : s[i] \in Decisions
    OBVIOUS
  <2> QED BY <1>1, <2>1 DEF Changes, Typed
<1>5. run[w].now \in 0 .. clock /\ run[w].done \subseteq Decisions
  BY <1>1 DEF Typed
<1> QED BY <1>2, <1>3, <1>4, <1>5 DEF Began

\* A run that goes on with the changes it has, in a step that is calm.
LEMMA RunMoves ==
    ASSUME TypeInv, NEW w \in Workers, RunTold(w), untold \subseteq untold',
           run[w].at # "issue" \/ run'[w].at \notin Working \cup {"history"},
           \A t \in 0 .. clock : past'[t] = past[t],
           \A e \in Entities \ untold' : Calm(e),
           run'[w].at = "history" =>
              run[w].at = "history" /\ run'[w].now = run[w].now /\ Changes(w)' \subseteq Changes(w),
           run'[w].at \in Working =>
              run[w].at \in Working /\ run'[w].now = run[w].now /\ Changes(w)' \subseteq Changes(w),
           \A d \in run'[w].done :
              \/ d \in run[w].done /\ run'[w].now = run[w].now
              \/ Open(d)' => DoneTold(w, d)'
    PROVE  RunTold(w)'
<1>1. run[w].now \in Int /\ run[w].now <= clock /\ run[w].now - Window \in Int /\ run[w].now - Window <= clock
  BY RunEntities, OptimizerAssumption
<1>2. ASSUME run'[w].at = "history", NEW d \in Changes(w)', Open(d)' PROVE ProposedTold(w, d)'
  <2>1. d \in Changes(w) /\ Open(d) /\ d.entity \in Entities \ untold' /\ run'[w].now = run[w].now
    BY <1>2, RunEntities DEF Open
  <2>2. ProposedTold(w, d)
    BY <1>2, <2>1 DEF RunTold
  <2>3. Calm(d.entity)
    BY <2>1
  <2> QED BY <1>1, <2>1, <2>2, <2>3 DEF Calm, ProposedTold
<1>3. ASSUME run'[w].at \in Working, NEW d \in Changes(w)', Open(d)' PROVE WindowKept(w, d)'
  <2>1. d \in Changes(w) /\ Open(d) /\ run'[w].now = run[w].now
    BY <1>3 DEF Open
  <2>2. WindowKept(w, d)
    BY <1>3, <2>1 DEF RunTold
  <2>3. Began(w)' = Began(w) /\ past'[Began(w)] = past[Began(w)]
    BY <2>1, RunEntities DEF Began
  <2> QED BY <2>2, <2>3 DEF WindowKept, InWindow
<1>4. ASSUME NEW d \in run'[w].done, Open(d)' PROVE DoneTold(w, d)'
  <2>1. CASE d \in run[w].done /\ run'[w].now = run[w].now
    <3>1. Open(d) /\ d.entity \in Entities \ untold' /\ run'[w].now = run[w].now
      BY <1>4, <2>1, RunEntities DEF Open
    <3>2. DoneTold(w, d)
      BY <2>1, <3>1 DEF RunTold
    <3>3. Calm(d.entity)
      BY <3>1
    <3> QED BY <1>1, <3>1, <3>2, <3>3 DEF Calm, DoneTold
  <2> QED BY <1>4, <2>1
<1> QED BY <1>2, <1>3, <1>4 DEF RunTold

\* A run that does not move.
LEMMA RunStays ==
    ASSUME TypeInv, NEW w \in Workers, RunTold(w), untold \subseteq untold',
           \A t \in 0 .. clock : past'[t] = past[t],
           \A e \in Entities \ untold' : Calm(e), run'[w] = run[w]
    PROVE  RunTold(w)'
<1>1. Changes(w)' = Changes(w)
  BY DEF Changes
<1>2. run[w].at # "issue" \/ run'[w].at \notin Working \cup {"history"}
  BY DEF Working
<1> QED BY <1>1, <1>2, RunMoves

\* A step that writes no row.
LEMMA NoRow ==
    ASSUME NEW e, UNCHANGED <<log, past>>, Pending(e) => Pending(e)'
    PROVE  /\ Calm(e) /\ ToldBid(e)' = ToldBid(e) /\ \A t : RowsSince(e, t)' = RowsSince(e, t)
           /\ UNCHANGED clock /\ LogTells(e) => LogTells(e)'
<1>1. \A t : RowsSince(e, t)' = RowsSince(e, t)
  BY DEF RowsSince
<1>2. ToldBid(e)' = ToldBid(e)
  BY <1>1 DEF ToldBid
<1> QED BY <1>1, <1>2 DEF Calm, LogTells

LEMMA QuietEntity ==
    ASSUME WindowInv, NEW e \in Entities \ untold', untold \subseteq untold',
           UNCHANGED <<log, past, clock, fresh>>, Pending(e) => Pending(e)',
           Pending(e)' \/ cabinet'[e].bid = cabinet[e].bid, mirror'[e].bid = mirror[e].bid
    PROVE  Calm(e) /\ EntityTold(e)'
<1>1. EntityTold(e)
  BY DEF WindowInv
<1>2. /\ Calm(e) /\ ToldBid(e)' = ToldBid(e) /\ \A t : RowsSince(e, t)' = RowsSince(e, t)
      /\ LogTells(e) => LogTells(e)'
  BY NoRow
<1>3. LogTells(e)'
  BY <1>1, <1>2 DEF EntityTold
<1>4. CabinetTold(e)'
  BY <1>1, <1>2 DEF EntityTold, CabinetTold
<1>5. Horizon' = Horizon
  BY DEF Horizon
<1>6. MirrorTold(e)'
  BY <1>1, <1>2, <1>5 DEF EntityTold, MirrorTold
<1> QED BY <1>2, <1>3, <1>4, <1>6 DEF EntityTold

\* Only the run that has made a change can log it, or drop it.
LEMMA PendingStays ==
    ASSUME KeyInv, NEW w \in Workers, Step(w) \/ Crash(w), NEW e, Pending(e),
           run[w].at = "log" => Head(run[w].todo).entity # e \/ Head(run[w].todo).action \notin BidActions
    PROVE  Pending(e)'
<1>1. PICK v \in Workers : /\ run[v].at = "log"
                           /\ Head(run[v].todo).entity = e
                           /\ Head(run[v].todo).action \in BidActions
  BY DEF Pending
<1>2. v # w
  BY <1>1
<1>3. run'[v] = run[v]
  BY <1>2, OthersStay
<1> QED BY <1>1, <1>3 DEF Pending

\* What a step of one run has to be shown to do.
LEMMA RunStep ==
    ASSUME KeyInv, TypeInv, WindowInv, NEW w \in Workers, Step(w) \/ Crash(w),
           untold \subseteq untold', UNCHANGED past,
           \A e \in Entities \ untold' : Calm(e) /\ EntityTold(e)', RunTold(w)'
    PROVE  WindowInv'
<1>1. ASSUME NEW v \in Workers \ {w} PROVE RunTold(v)'
  <2>1. run'[v] = run[v]
    BY OthersStay
  <2> QED BY <2>1, RunStays DEF WindowInv
<1> QED BY <1>1 DEF WindowInv

\* A step of a run that neither changes a bid in the cabinet or in the local rows nor logs one.
LEMMA QuietStep ==
    ASSUME KeyInv, TypeInv, WindowInv, NEW w \in Workers, Step(w) \/ Crash(w), run[w].at # "log",
           untold \subseteq untold', UNCHANGED <<log, past, clock, fresh, cabinet>>,
           \A e \in Entities : mirror'[e].bid = mirror[e].bid,
           (\A e \in Entities \ untold' : Calm(e)) => RunTold(w)'
    PROVE  WindowInv'
<1>1. \A e \in Entities \ untold' : Calm(e) /\ EntityTold(e)'
  BY PendingStays, QuietEntity
<1> QED BY <1>1, RunStep

LEMMA ProposeTold ==
    ASSUME KeyInv, TypeInv, WindowInv, NEW w \in Workers, Propose(w)
    PROVE  WindowInv'
<1>1. PICK m \in Statistics, campaign \in Spending :
         Holds(run'[w], "history", clock, ResolveConflicts(Proposals(m, mirror, Target, Saving(campaign, Budget))), {}, {})
  BY AfterPropose DEF KeyInv
<1> DEFINE todo == ResolveConflicts(Proposals(m, mirror, Target, Saving(campaign, Budget)))
<1>2. todo \in Seq(Proposed(mirror))
  <2>1. Proposals(m, mirror, Target, Saving(campaign, Budget)) \in Seq(Proposed(mirror))
    BY OptimizerAssumption, ProposalsType DEF TypeInv, DbTyped
  <2> QED BY <2>1, ConflictsAreResolved
<1> HIDE DEF todo
<1>3. run'[w].at = "history" /\ run'[w].now = clock /\ run'[w].todo = todo /\ run'[w].done = {}
  BY <1>1 DEF Holds, todo
<1>4. UNCHANGED <<log, past, clock, fresh, cabinet, mirror, untold>> /\ run[w].at = "idle"
  BY DEF Propose, dbVars, historyVars
<1>5. ASSUME NEW d \in Changes(w)', Open(d)', \A e \in Entities \ untold' : Calm(e)
      PROVE ProposedTold(w, d)'
  <2>1. d \in Proposed(mirror)
    <3>1. \A i \in DOMAIN todo : todo[i] \in Proposed(mirror)
      BY <1>2
    <3> QED BY <1>3, <1>5, <3>1 DEF Changes
  <2> DEFINE e == d.entity
  <2>2. e \in Entities \ untold /\ Kind[e] = BidLevel /\ d.prev = mirror[e].bid
    BY <1>4, <1>5, <2>1 DEF Proposed, Open, Decisions
  <2> HIDE DEF e
  <2>3. Pending(e) \/ RowsSince(e, Horizon - Window) # {} \/ mirror[e].bid = ToldBid(e)
    BY <2>2 DEF WindowInv, EntityTold, MirrorTold
  <2>4. RowsSince(e, Horizon - Window) \subseteq RowsSince(e, clock - Window)
    <3>1. clock - Window \in Int /\ Horizon - Window \in Int /\ clock - Window <= Horizon - Window
      BY RunEntities, OptimizerAssumption DEF Horizon
    <3> QED BY <3>1, RowsGrow
  <2>5. Pending(e) => Pending(e)'
    BY <1>4, PendingStays DEF Step
  <2>6. \A t : RowsSince(e, t)' = RowsSince(e, t) /\ ToldBid(e)' = ToldBid(e)
    BY <1>4, <2>5, NoRow
  <2> QED BY <1>3, <1>4, <2>2, <2>3, <2>4, <2>5, <2>6 DEF ProposedTold, e
<1>6. (\A e \in Entities \ untold' : Calm(e)) => RunTold(w)'
  BY <1>3, <1>5 DEF RunTold, Working
<1> QED BY <1>4, <1>6, QuietStep DEF Step

\* The rows of a window that began before the first tick are all the rows.
LEMMA RowsInWindow ==
    ASSUME TypeInv, NEW w \in Workers, NEW e
    PROVE  RowsSince(e, run[w].now - Window) = RowsSince(e, Began(w))
<1>1. \A i \in DOMAIN log : log[i].at \in Nat
  BY LogTimes
<1>2. run[w].now \in Nat /\ Window \in Nat
  BY RunEntities, OptimizerAssumption
<1>3. CASE run[w].now > Window
  BY <1>3 DEF Began
<1>4. CASE ~(run[w].now > Window)
  <2>1. Began(w) = 0 /\ run[w].now - Window <= 0 /\ run[w].now - Window \in Int
    BY <1>2, <1>4 DEF Began
  <2> QED BY <1>1, <2>1 DEF RowsSince
<1> QED BY <1>3, <1>4

\* The anchor of a change is the bid the entity had when the run's window began.
LEMMA AnchorIsPast ==
    ASSUME TypeInv, WindowInv, NEW w \in Workers, run[w].at = "history", NEW d \in Changes(w), Open(d),
           ~Pending(d.entity)
    PROVE  Anchor(w, d) = past[Began(w)][d.entity].bid
<1> DEFINE e == d.entity
           rows == RowsSince(e, Began(w))
<1>1. d \in Decisions /\ e \in Entities \ untold /\ Began(w) \in 0 .. clock
  BY RunEntities DEF Open
<1>2. past[Began(w)][e].bid = IF rows = {} THEN ToldBid(e) ELSE log[Min(rows)].prev
  BY <1>1 DEF WindowInv, EntityTold, LogTells
<1>3. RowsSince(e, run[w].now - Window) = rows
  BY RowsInWindow
<1>4. rows # {} \/ d.prev = ToldBid(e)
  BY <1>3 DEF WindowInv, RunTold, ProposedTold
<1>5. /\ rows = {} => Anchor(w, d) = d.prev
      /\ rows # {} => Anchor(w, d) = log[Min(rows)].prev
  BY <1>1, <1>3, AnchorType
<1> QED BY <1>2, <1>4, <1>5

LEMMA DecideTold ==
    ASSUME KeyInv, TypeInv, WindowInv, NEW w \in Workers, Decide(w)
    PROVE  WindowInv'
<1>1. UNCHANGED <<log, past, clock, fresh, cabinet, mirror>> /\ run[w].at = "history" /\ untold \subseteq untold'
  BY DEF Decide, dbVars
<1> DEFINE S == {l \in Decisions : Open(l)' => InWindow(l, past[Began(w)][l.entity].bid)}
<1>2. ASSUME NEW i \in DOMAIN run[w].todo, NEW l \in Decisions,
             l.action = run[w].todo[i].action, l.entity = run[w].todo[i].entity,
             run[w].todo[i].action \in BidActions => InWindow(l, Anchor(w, run[w].todo[i]))
      PROVE  l \in S
  <2> DEFINE d == run[w].todo[i]
  <2>1. SUFFICES ASSUME Open(l)' PROVE InWindow(l, past[Began(w)][l.entity].bid)
    OBVIOUS
  <2>2. d \in Changes(w) /\ Open(d) /\ l.entity = d.entity
    BY <1>1, <1>2, <2>1 DEF Changes, Open
  <2>3. ~Pending(d.entity)
    <3>1. SUFFICES ASSUME Pending(d.entity) PROVE FALSE
      OBVIOUS
    <3>2. d.entity \in Unlogged
      BY <3>1 DEF Pending, Unlogged
    <3>3. d.entity \in untold'
      BY <3>2 DEF Decide
    <3> QED BY <1>2, <2>1, <3>3 DEF Open
  <2> HIDE DEF d
  <2>4. Anchor(w, d) = past[Began(w)][d.entity].bid
    BY <1>1, <2>2, <2>3, AnchorIsPast
  <2> QED BY <1>2, <2>2, <2>4 DEF d, Open
<1> HIDE DEF S
<1>3. PICK todo, ask :
         /\ todo \in Seq(S) /\ CardsOf(ask, S)
         /\ Holds(run'[w], "apply", run[w].now, todo, ask, run[w].done)
  BY <1>2, AfterDecide
<1>4. run'[w].at = "apply" /\ run'[w].now = run[w].now /\ run'[w].todo = todo /\ run'[w].done = run[w].done
  BY <1>3 DEF Holds
<1>5. ASSUME NEW d \in Changes(w)', Open(d)' PROVE WindowKept(w, d)'
  <2>1. d \in S
    <3>1. \A i \in DOMAIN todo : todo[i] \in S
      BY <1>3
    <3> QED BY <1>4, <3>1 DEF Changes
  <2>2. InWindow(d, past[Began(w)][d.entity].bid)
    BY <1>5, <2>1 DEF S
  <2>3. past' = past /\ Began(w)' = Began(w)
    BY <1>1, <1>4 DEF Began
  <2> QED BY <2>2, <2>3 DEF WindowKept, InWindow
<1>6. ASSUME \A e \in Entities \ untold' : Calm(e), NEW d \in run'[w].done, Open(d)' PROVE DoneTold(w, d)'
  <2>1. d \in run[w].done /\ Open(d) /\ d.entity \in Entities \ untold'
    BY <1>1, <1>4, <1>6, RunEntities DEF Open
  <2>2. DoneTold(w, d) /\ Calm(d.entity) /\ run[w].now \in Int /\ run[w].now <= clock
    BY <1>6, <2>1, RunEntities DEF WindowInv, RunTold
  <2> QED BY <1>4, <2>2 DEF DoneTold, Calm
<1>7. (\A e \in Entities \ untold' : Calm(e)) => RunTold(w)'
  BY <1>4, <1>5, <1>6 DEF RunTold
<1> QED BY <1>1, <1>7, QuietStep DEF Step

LEMMA ReserveTold ==
    ASSUME KeyInv, TypeInv, WindowInv, NEW w \in Workers, Reserve(w)
    PROVE  WindowInv'
<1>1. UNCHANGED <<log, past, clock, fresh, cabinet, mirror, untold>> /\ run[w].at = "apply" /\ run[w].todo # <<>>
  BY DEF Reserve, historyVars
<1>2. run[w].todo \in Seq(Decisions)
  BY <1>1 DEF TypeInv, RunTyped, Typed
<1>3. \/ Holds(run'[w], "apply", run[w].now, Tail(run[w].todo), run[w].ask, run[w].done)
      \/ Holds(run'[w], "write", run[w].now, run[w].todo, run[w].ask, run[w].done)
  BY AfterReserve DEF KeyInv
<1>4. /\ run'[w].at \in {"apply", "write"} /\ run'[w].now = run[w].now /\ run'[w].done = run[w].done
      /\ run'[w].todo \in {Tail(run[w].todo), run[w].todo}
  BY <1>3 DEF Holds
<1>5. Changes(w)' \subseteq Changes(w)
  BY <1>1, <1>2, <1>4, TailShifts DEF Changes
<1>6. (\A e \in Entities \ untold' : Calm(e)) => RunTold(w)'
  BY <1>1, <1>4, <1>5, RunMoves DEF Working, WindowInv
<1> QED BY <1>1, <1>6, QuietStep DEF Step

\* A run that is past its changes.
LEMMA RunLeaves ==
    ASSUME TypeInv, NEW w \in Workers, RunTold(w), untold \subseteq untold', UNCHANGED past,
           \A e \in Entities \ untold' : Calm(e), run'[w].at \notin Working \cup {"history"},
           run'[w].done = {} \/ (run'[w].done = run[w].done /\ run'[w].now = run[w].now)
    PROVE  RunTold(w)'
BY RunMoves

LEMMA MarkNegatedTold ==
    ASSUME KeyInv, TypeInv, WindowInv, NEW w \in Workers, MarkNegated(w)
    PROVE  WindowInv'
<1>1. UNCHANGED <<log, past, clock, fresh, cabinet, untold>> /\ run[w].at = "negate"
  BY DEF MarkNegated, historyVars
<1>2. \A e \in Entities : mirror'[e].bid = mirror[e].bid
  BY AfterNegated
<1>3. run'[w].at \notin Working \cup {"history"} /\ run'[w].done = {}
  <2>1. ToCards(w, run[w].ask)
    BY DEF MarkNegated
  <2> QED BY <2>1, AfterToCards DEF Holds, Working, KeyInv
<1>4. (\A e \in Entities \ untold' : Calm(e)) => RunTold(w)'
  BY <1>1, <1>3, RunLeaves DEF WindowInv
<1> QED BY <1>1, <1>2, <1>4, QuietStep DEF Step

LEMMA CardTold ==
    ASSUME KeyInv, TypeInv, WindowInv, NEW w \in Workers, ReserveCard(w) \/ Issue(w)
    PROVE  WindowInv'
<1>1. UNCHANGED <<log, past, clock, fresh, cabinet, mirror, untold>> /\ run[w].at \in {"ask", "issue"}
  BY DEF ReserveCard, Issue, historyVars
<1>2. /\ run'[w].at \notin Working \cup {"history"}
      /\ run'[w].done = {} \/ (run'[w].done = run[w].done /\ run'[w].now = run[w].now)
  <2>1. CASE ReserveCard(w)
    BY <2>1, AfterReserveCard DEF Holds, Working, KeyInv
  <2>2. CASE Issue(w)
    BY <2>2, AfterIssue DEF Holds, Working, KeyInv
  <2> QED BY <2>1, <2>2
<1>3. (\A e \in Entities \ untold' : Calm(e)) => RunTold(w)'
  BY <1>1, <1>2, RunLeaves DEF WindowInv
<1> QED BY <1>1, <1>3, QuietStep DEF Step

LEMMA CrashTold ==
    ASSUME KeyInv, TypeInv, WindowInv, NEW w \in Workers, Crash(w)
    PROVE  WindowInv'
<1>1. UNCHANGED <<log, past, clock, fresh, cabinet, mirror>> /\ untold \subseteq untold'
  BY DEF Crash, dbVars
<1>2. ASSUME NEW e \in Entities \ untold' PROVE Calm(e) /\ EntityTold(e)'
  <2>1. run[w].at = "log" => Head(run[w].todo).entity # e
    BY <1>2 DEF Crash
  <2>2. Pending(e) => Pending(e)'
    BY <2>1, PendingStays
  <2> QED BY <1>1, <2>2, QuietEntity
<1>3. run'[w].at \notin Working \cup {"history"} /\ run'[w].done = {}
  BY AfterCrash DEF Holds, Working, KeyInv
<1>4. RunTold(w)'
  BY <1>1, <1>2, <1>3, RunLeaves DEF WindowInv
<1> QED BY <1>1, <1>2, <1>4, RunStep

\* What carrying out a change does to the bids of the cabinet.
LEMMA CarriedOut ==
    ASSUME TypeInv, NEW w \in Workers, NEW d \in Decisions, CarryOut(w, d), NEW e \in Entities,
           d.entity # e \/ d.action \notin BidActions
    PROVE  cabinet'[e].bid = cabinet[e].bid
<1>1. cabinet \in [Entities -> LocalRows] /\ cabinet' = [cabinet EXCEPT ![d.entity] = Changed(cabinet[d.entity], d)]
  BY DEF TypeInv, DbTyped, CarryOut
<1>2. CASE d.entity # e
  BY <1>1, <1>2
<1>3. CASE d.entity = e /\ d.action \notin BidActions
  <2>1. cabinet'[e] = Changed(cabinet[e], d) /\ cabinet[e] \in LocalRows
    BY <1>1, <1>3
  <2> QED BY <1>3, <2>1, ChangedType
<1> QED BY <1>2, <1>3

LEMMA WriteTold ==
    ASSUME KeyInv, TypeInv, WindowInv, NEW w \in Workers, Write(w)
    PROVE  WindowInv'
<1> DEFINE c == Head(run[w].todo)
<1>1. /\ UNCHANGED <<log, past, clock, fresh, mirror, untold>> /\ run[w].at = "write" /\ CarryOut(w, c)
      /\ Step(w)
  BY DEF Write, dbVars, Step
<1>2. /\ run'[w].at = "log" /\ run'[w].now = run[w].now /\ run'[w].done = run[w].done
      /\ run'[w].todo = run[w].todo /\ Changes(w)' = Changes(w)
  BY AfterWrite DEF KeyInv, Holds, Changes
<1>3. c \in Decisions
  BY <1>1, HeadTyped
<1>4. ASSUME NEW e \in Entities \ untold' PROVE Calm(e) /\ EntityTold(e)'
  <2>1. Pending(e) => Pending(e)'
    BY <1>1, PendingStays
  <2>2. CASE c.entity = e /\ c.action \in BidActions
    <3>1. Pending(e)'
      BY <1>2, <2>2 DEF Pending
    <3> QED BY <1>1, <2>1, <3>1, QuietEntity
  <2>3. CASE ~(c.entity = e /\ c.action \in BidActions)
    <3>1. cabinet'[e].bid = cabinet[e].bid
      BY <1>1, <1>3, <2>3, CarriedOut
    <3> QED BY <1>1, <2>1, <3>1, QuietEntity
  <2> QED BY <2>2, <2>3
<1>5. RunTold(w)'
  BY <1>1, <1>2, <1>4, RunMoves DEF Working, WindowInv
<1> QED BY <1>1, <1>4, <1>5, RunStep

\* A run puts its change aside.
LEMMA AdvanceTold ==
    ASSUME KeyInv, TypeInv, WindowInv, NEW w \in Workers, run[w].at \in {"write", "log"},
           NEW more, Advance(w, more), untold \subseteq untold',
           \A t \in 0 .. clock : past'[t] = past[t], \A e \in Entities \ untold' : Calm(e),
           \A d \in more : Open(d)' => DoneTold(w, d)'
    PROVE  RunTold(w)'
<1>1. Holds(run'[w], "apply", run[w].now, Tail(run[w].todo), run[w].ask, run[w].done \cup more)
  BY AfterAdvance DEF KeyInv
<1>2. /\ run'[w].at = "apply" /\ run'[w].now = run[w].now /\ run'[w].todo = Tail(run[w].todo)
      /\ run'[w].done = run[w].done \cup more
  BY <1>1 DEF Holds
<1>3. Changes(w)' \subseteq Changes(w)
  BY <1>2, HeadTyped, TailShifts DEF Changes
<1> QED BY <1>2, <1>3, RunMoves DEF Working, WindowInv

LEMMA MissTold ==
    ASSUME KeyInv, TypeInv, WindowInv, NEW w \in Workers, Miss(w)
    PROVE  WindowInv'
<1> DEFINE c == Head(run[w].todo)
<1>1. UNCHANGED <<log, past, clock, fresh, mirror>> /\ run[w].at = "write" /\ Step(w)
  BY DEF Miss, Step
<1>2. \/ Advance(w, {}) /\ UNCHANGED <<cabinet, untold>>
      \/ InCabinet(c) /\ Advance(w, {c}) /\ UNCHANGED <<cabinet, untold>>
      \/ Advance(w, {}) /\ CarryOut(w, c) /\ untold' = untold \cup {c.entity}
  BY DEF Miss
<1>3. c \in Decisions /\ c.entity \in Entities /\ untold \subseteq untold'
  BY <1>1, <1>2, HeadTyped
<1>4. ASSUME NEW e \in Entities \ untold' PROVE Calm(e) /\ EntityTold(e)'
  <2>1. Pending(e) => Pending(e)'
    BY <1>1, PendingStays
  <2>2. cabinet'[e].bid = cabinet[e].bid
    BY <1>2, <1>3, <1>4, CarriedOut
  <2> QED BY <1>1, <1>3, <2>1, <2>2, QuietEntity
<1>5. RunTold(w)'
  <2>1. CASE Advance(w, {})
    BY <1>1, <1>3, <1>4, <2>1, AdvanceTold
  <2>2. CASE InCabinet(c) /\ Advance(w, {c}) /\ UNCHANGED <<cabinet, untold>>
    <3>1. ASSUME NEW d \in {c}, Open(d)' PROVE DoneTold(w, d)'
      <4>1. d \in Decisions /\ d.entity \in Entities \ untold' /\ d.action \in BidActions /\ InCabinet(d)
        BY <1>3, <2>2, <3>1 DEF Open
      <4>2. Changed(cabinet[d.entity], d).bid = d.next
        BY <4>1, ChangedType DEF TypeInv, DbTyped
      <4>3. cabinet[d.entity].bid = d.next
        BY <4>1, <4>2 DEF InCabinet
      <4>4. CabinetTold(d.entity)' /\ cabinet' = cabinet
        BY <1>4, <2>2, <4>1 DEF EntityTold
      <4> QED BY <4>3, <4>4 DEF CabinetTold, DoneTold
    <3> QED BY <1>1, <1>3, <1>4, <2>2, <3>1, AdvanceTold
  <2> QED BY <1>2, <2>1, <2>2
<1> QED BY <1>1, <1>3, <1>4, <1>5, RunStep

\* A row that tells the truth: what the log tells of its entity is the bid in the cabinet, and
\* at every tick since then what it told before.
LEMMA TruthTold ==
    ASSUME TypeInv, NEW d \in Decisions, log' = Append(log, ChangeRow(d)), UNCHANGED <<clock, past>>,
           LogTells(d.entity), d.prev = ToldBid(d.entity)
    PROVE  /\ \A t \in Int : t <= clock => RowsSince(d.entity, t)' # {}
           /\ \A f : f = d.entity => ToldBid(f)' = d.next /\ LogTells(f)'
<1> DEFINE e == d.entity
           n == Len(log) + 1
<1>1. /\ Len(log) \in Nat /\ DOMAIN log = 1 .. Len(log) /\ DOMAIN log' = 1 .. n
      /\ \A i \in DOMAIN log : log'[i] = log[i]
      /\ log'[n] = ChangeRow(d)
  BY LogGrows
<1>2. n \in Nat /\ n \notin DOMAIN log /\ \A i \in DOMAIN log : i \in Nat /\ i < n
  BY <1>1
<1>3. /\ log'[n].entity = e /\ log'[n].prev = d.prev /\ log'[n].next = d.next /\ log'[n].at = clock
  BY <1>1 DEF ChangeRow
<1>4. clock \in Nat /\ e \in Entities
  BY OptimizerAssumption DEF TypeInv, DbTyped, Decisions
<1> HIDE DEF n, e
<1>5. ASSUME NEW f, f = e, NEW t \in Int, t <= clock PROVE RowsSince(f, t)' = RowsSince(f, t) \cup {n}
  <2>1. DOMAIN log' = DOMAIN log \cup {n}
    BY <1>1, <1>2 DEF n
  <2> QED BY <1>1, <1>3, <1>5, <2>1 DEF RowsSince
<1>6. ASSUME NEW f, f = e, NEW t \in Int, t <= clock
      PROVE  /\ RowsSince(f, t)' # {}
             /\ RowsSince(f, t) = {} => Min(RowsSince(f, t)') = n
             /\ RowsSince(f, t) # {} => /\ Min(RowsSince(f, t)') = Min(RowsSince(f, t))
                                        /\ Min(RowsSince(f, t)) \in DOMAIN log
             /\ Max(RowsSince(f, t)') = n
  <2> DEFINE T == RowsSince(f, t)
  <2>1. RowsSince(f, t)' = T \cup {n} /\ T \subseteq DOMAIN log
    BY <1>5, <1>6 DEF RowsSince
  <2>2. T # {} => Min(T) \in T /\ \A i \in T : Min(T) <= i
    BY <1>4, <1>6, AnchorOf
  <2> HIDE DEF T
  <2>3. \A i \in T : i \in Nat /\ i < n
    BY <1>2, <2>1
  <2>4. T = {} => Min(T \cup {n}) = n
    <3>1. {} \cup {n} = {n}
      OBVIOUS
    <3>2. Min({n}) = n
      BY <1>2 DEF Min
    <3> QED BY <3>1, <3>2
  <2>5. T # {} => Min(T \cup {n}) = Min(T)
    <3>1. SUFFICES ASSUME T # {} PROVE Min(T \cup {n}) = Min(T)
      OBVIOUS
    <3> DEFINE least == Min(T)
    <3>2. least \in T /\ least \in Nat /\ least < n /\ \A i \in T : least <= i
      BY <2>2, <2>3, <3>1
    <3> HIDE DEF least
    <3>3. \A i \in T \cup {n} : least <= i
      BY <1>2, <3>2
    <3>4. \A x \in T \cup {n} : (\A i \in T \cup {n} : x <= i) => x = least
      BY <1>2, <2>3, <3>2
    <3>5. Min(T \cup {n}) = least
      BY <3>2, <3>3, <3>4 DEF Min
    <3> QED BY <3>5 DEF least
  <2>6. Max(T \cup {n}) = n
    <3>1. \A i \in T \cup {n} : n >= i
      BY <1>2, <2>3
    <3>2. ASSUME NEW x \in T \cup {n}, \A i \in T \cup {n} : x >= i PROVE x = n
      <4>1. n \in T \cup {n}
        OBVIOUS
      <4>2. x >= n
        BY <3>2, <4>1
      <4> QED BY <1>2, <2>3, <3>2, <4>2
    <3> QED BY <3>1, <3>2 DEF Max
  <2> QED BY <2>1, <2>2, <2>4, <2>5, <2>6 DEF T
<1>7. ASSUME NEW f, f = e PROVE ToldBid(f)' = d.next
  <2>1. 0 \in Int /\ 0 <= clock
    BY <1>4
  <2>2. RowsSince(f, 0)' # {} /\ Max(RowsSince(f, 0)') = n
    BY <1>6, <1>7, <2>1
  <2> QED BY <1>3, <2>2 DEF ToldBid
<1>8. ASSUME NEW f, f = e PROVE LogTells(f)'
  <2>1. SUFFICES ASSUME NEW t \in 0 .. clock
                 PROVE  past[t][f].bid = IF RowsSince(f, t)' = {} THEN ToldBid(f)'
                                         ELSE log'[Min(RowsSince(f, t)')].prev
    BY DEF LogTells
  <2>2. t \in Int /\ t <= clock
    BY <1>4
  <2>3. past[t][f].bid = IF RowsSince(f, t) = {} THEN ToldBid(f) ELSE log[Min(RowsSince(f, t))].prev
    BY <1>8, <2>1 DEF LogTells, e
  <2>4. ToldBid(f) = d.prev
    BY <1>8 DEF e
  <2>5. CASE RowsSince(f, t) = {}
    BY <1>3, <1>6, <1>8, <2>2, <2>3, <2>4, <2>5
  <2>6. CASE RowsSince(f, t) # {}
    BY <1>1, <1>6, <1>8, <2>2, <2>3, <2>6
  <2> QED BY <2>5, <2>6
<1> QED BY <1>6, <1>7, <1>8 DEF e

\* A row of another entity.
LEMMA OtherRow ==
    ASSUME TypeInv, NEW d \in Decisions, log' = Append(log, ChangeRow(d)), UNCHANGED <<clock, past>>,
           NEW e, e # d.entity
    PROVE  /\ \A t : RowsSince(e, t)' = RowsSince(e, t)
           /\ ToldBid(e)' = ToldBid(e) /\ (LogTells(e) => LogTells(e)')
<1>1. /\ Len(log) \in Nat /\ DOMAIN log = 1 .. Len(log) /\ DOMAIN log' = 1 .. Len(log) + 1
      /\ \A i \in DOMAIN log : log'[i] = log[i]
      /\ log'[Len(log) + 1] = ChangeRow(d)
  BY LogGrows
<1>2. DOMAIN log' = DOMAIN log \cup {Len(log) + 1} /\ log'[Len(log) + 1].entity = d.entity
  BY <1>1 DEF ChangeRow
<1>3. \A t : RowsSince(e, t)' = RowsSince(e, t)
  BY <1>1, <1>2 DEF RowsSince
<1>4. \A t : RowsSince(e, t) \subseteq DOMAIN log
  BY DEF RowsSince
<1>5. ToldBid(e)' = ToldBid(e)
  <2>1. CASE RowsSince(e, 0) = {}
    BY <1>3, <2>1 DEF ToldBid
  <2>2. CASE RowsSince(e, 0) # {}
    <3>1. Max(RowsSince(e, 0)) \in RowsSince(e, 0)
      BY <1>1, <1>4, <2>2, LargestOf
    <3> QED BY <1>1, <1>3, <1>4, <2>2, <3>1 DEF ToldBid
  <2> QED BY <2>1, <2>2
<1>6. ASSUME LogTells(e), NEW t \in 0 .. clock, RowsSince(e, t) # {}
      PROVE  log'[Min(RowsSince(e, t))] = log[Min(RowsSince(e, t))]
  <2>1. RowsSince(e, t) \subseteq Nat
    BY <1>1, <1>4
  <2>2. \E x \in RowsSince(e, t) : \A y \in RowsSince(e, t) : x <= y
    BY <1>6, <2>1, LeastOf
  <2>3. Min(RowsSince(e, t)) \in RowsSince(e, t)
    BY <2>2 DEF Min
  <2> QED BY <1>1, <1>4, <2>3
<1>7. LogTells(e) => LogTells(e)'
  <2>1. SUFFICES ASSUME LogTells(e), NEW t \in 0 .. clock
                 PROVE  past[t][e].bid = IF RowsSince(e, t)' = {} THEN ToldBid(e)'
                                         ELSE log'[Min(RowsSince(e, t)')].prev
    BY DEF LogTells
  <2>2. past[t][e].bid = IF RowsSince(e, t) = {} THEN ToldBid(e) ELSE log[Min(RowsSince(e, t))].prev
    BY <2>1 DEF LogTells
  <2>3. CASE RowsSince(e, t) = {}
    BY <1>3, <1>5, <2>2, <2>3
  <2>4. CASE RowsSince(e, t) # {}
    BY <1>3, <1>6, <2>1, <2>2, <2>4
  <2> QED BY <2>3, <2>4
<1> QED BY <1>3, <1>5, <1>7

LEMMA LogChangeTold ==
    ASSUME KeyInv, TypeInv, WindowInv, NEW w \in Workers, LogChange(w)
    PROVE  WindowInv'
<1> PICK d : d = Head(run[w].todo)
  OBVIOUS
<1> PICK more \in SUBSET {d} : Advance(w, more)
  BY DEF LogChange, Unmarked
<1>1. UNCHANGED <<past, clock, fresh, mirror, cabinet>> /\ run[w].at = "log" /\ Step(w)
  BY DEF LogChange, Step
<1>2. d \in Decisions /\ d.entity \in Entities
  BY <1>1, HeadTyped
<1>3. \A e : Pending(e) /\ (d.entity # e \/ d.action \notin BidActions) => Pending(e)'
  BY <1>1, PendingStays
<1>4. CASE UNCHANGED log /\ untold' = untold \cup {d.entity}
  <2>1. ASSUME NEW e \in Entities \ untold' PROVE Calm(e) /\ EntityTold(e)'
    BY <1>1, <1>3, <1>4, <2>1, QuietEntity
  <2>2. \A c \in more : ~Open(c)'
    BY <1>4 DEF Open
  <2>3. RunTold(w)'
    BY <1>1, <1>4, <2>1, <2>2, AdvanceTold
  <2> QED BY <1>1, <1>4, <2>1, <2>3, RunStep
<1>5. CASE d.action \notin BidActions /\ UNCHANGED <<log, untold>>
  <2>1. ASSUME NEW e \in Entities \ untold' PROVE Calm(e) /\ EntityTold(e)'
    BY <1>1, <1>3, <1>5, <2>1, QuietEntity
  <2>2. \A c \in more : ~Open(c)'
    BY <1>5 DEF Open
  <2>3. RunTold(w)'
    BY <1>1, <1>5, <2>1, <2>2, AdvanceTold
  <2> QED BY <1>1, <1>5, <2>1, <2>3, RunStep
<1>6. CASE d.action \in BidActions /\ log' = Append(log, ChangeRow(d))
           /\ untold' = IF ~TellsTruth(d) THEN untold \cup {d.entity} ELSE untold
  <2>1. untold \subseteq untold'
    BY <1>6
  <2>2. ASSUME NEW e \in Entities \ untold', e # d.entity PROVE Calm(e) /\ EntityTold(e)'
    <3>1. EntityTold(e) /\ (Pending(e) => Pending(e)')
      BY <1>3, <2>1, <2>2 DEF WindowInv
    <3>2. /\ \A t : RowsSince(e, t)' = RowsSince(e, t)
          /\ ToldBid(e)' = ToldBid(e) /\ (LogTells(e) => LogTells(e)')
      BY <1>1, <1>2, <1>6, <2>2, OtherRow
    <3>3. Calm(e)
      BY <3>1, <3>2 DEF Calm
    <3>4. UNCHANGED <<Horizon, mirror, cabinet>>
      BY <1>1 DEF Horizon
    <3>5. LogTells(e)' /\ CabinetTold(e)' /\ MirrorTold(e)'
      BY <3>1, <3>2, <3>4 DEF EntityTold, CabinetTold, MirrorTold
    <3> QED BY <3>3, <3>5 DEF EntityTold
  <2>3. ASSUME NEW e \in Entities \ untold', e = d.entity
        PROVE  /\ Calm(e) /\ EntityTold(e)'
               /\ \A t \in Int : t <= clock => RowsSince(e, t)' # {}
    <3>1. TellsTruth(d) /\ e \notin untold
      BY <1>6, <2>3
    <3>2. LogTells(d.entity) /\ d.prev = ToldBid(d.entity) /\ d.next = cabinet[e].bid
      BY <2>3, <3>1 DEF WindowInv, EntityTold, TellsTruth
    <3>3. /\ \A t \in Int : t <= clock => RowsSince(e, t)' # {}
          /\ ToldBid(e)' = d.next /\ LogTells(e)'
      BY <1>1, <1>2, <1>6, <2>3, <3>2, TruthTold
    <3>4. CabinetTold(e)'
      BY <1>1, <3>2, <3>3 DEF CabinetTold
    <3>5. Horizon' - Window \in Int /\ Horizon' - Window <= clock
      BY <1>1, RunEntities, OptimizerAssumption DEF Horizon
    <3>6. MirrorTold(e)'
      BY <3>3, <3>5 DEF MirrorTold
    <3> QED BY <3>3, <3>4, <3>6 DEF Calm, EntityTold
  <2>4. \A e \in Entities \ untold' : Calm(e) /\ EntityTold(e)'
    BY <2>2, <2>3
  <2>5. ASSUME NEW c \in more, Open(c)' PROVE DoneTold(w, c)'
    <3>1. c.entity \in Entities \ untold' /\ c.entity = d.entity
      BY <1>2, <2>5 DEF Open
    <3>2. run'[w].now = run[w].now
      BY <1>1, AfterAdvance DEF KeyInv, Holds
    <3>3. run[w].now \in Int /\ run[w].now <= clock
      BY RunEntities
    <3> QED BY <2>3, <3>1, <3>2, <3>3 DEF DoneTold
  <2>6. RunTold(w)'
    BY <1>1, <2>1, <2>4, <2>5, AdvanceTold
  <2> QED BY <1>1, <2>1, <2>4, <2>6, RunStep
<1>7. \/ UNCHANGED log /\ untold' = untold \cup {d.entity}
      \/ d.action \notin BidActions /\ UNCHANGED <<log, untold>>
      \/ /\ d.action \in BidActions /\ log' = Append(log, ChangeRow(d))
         /\ untold' = IF ~TellsTruth(d) THEN untold \cup {d.entity} ELSE untold
  BY DEF LogChange
<1> QED BY <1>4, <1>5, <1>6, <1>7

\* syncLocalState brings a row to a bid the run set.  The log may have told another one since,
\* and then, the run being prompt, that row is in the window of the next runs.
LEMMA SyncLocalTold ==
    ASSUME KeyInv, TypeInv, WindowInv, Prompt, NEW w \in Workers, SyncLocal(w)
    PROVE  WindowInv'
<1>1. UNCHANGED <<log, past, clock, fresh, cabinet, untold>> /\ run[w].at = "apply" /\ Step(w)
  BY DEF SyncLocal, historyVars, Step
<1>2. ASSUME NEW e \in Entities \ untold' PROVE Calm(e) /\ EntityTold(e)'
  <2>1. Pending(e) => Pending(e)'
    BY <1>1, PendingStays
  <2>2. CASE mirror'[e].bid = mirror[e].bid
    BY <1>1, <1>2, <2>1, <2>2, QuietEntity
  <2>3. CASE mirror'[e].bid # mirror[e].bid
    <3>1. PICK d \in run[w].done : d.entity = e /\ d.action \in BidActions /\ mirror'[e].bid = d.next
      BY <2>3, AfterMirror
    <3>2. DoneTold(w, d)
      BY <1>1, <1>2, <3>1 DEF WindowInv, RunTold, Open
    <3>3. RowsSince(e, run[w].now) \subseteq RowsSince(e, Horizon - Window)
      <4>1. Horizon - Window \in Int /\ run[w].now \in Int /\ Horizon - Window <= run[w].now
        BY <1>1, RunEntities, OptimizerAssumption DEF Prompt, Horizon
      <4> QED BY <4>1, RowsGrow
    <3>4. EntityTold(e)
      BY <1>1 DEF WindowInv
    <3>5. /\ Calm(e) /\ ToldBid(e)' = ToldBid(e) /\ \A t : RowsSince(e, t)' = RowsSince(e, t)
          /\ LogTells(e) => LogTells(e)'
      BY <1>1, <2>1, NoRow
    <3>6. Horizon' = Horizon
      BY <1>1 DEF Horizon
    <3>7. MirrorTold(e)'
      BY <2>1, <3>1, <3>2, <3>3, <3>5, <3>6 DEF DoneTold, MirrorTold
    <3>8. CabinetTold(e)'
      BY <1>1, <2>1, <3>4, <3>5 DEF EntityTold, CabinetTold
    <3> QED BY <3>4, <3>5, <3>7, <3>8 DEF EntityTold
  <2> QED BY <2>2, <2>3
<1>3. /\ run'[w].at \notin Working \cup {"history"}
      /\ run'[w].done = {} \/ (run'[w].done = run[w].done /\ run'[w].now = run[w].now)
  BY AfterSyncLocal DEF Holds, Working, KeyInv
<1>4. RunTold(w)'
  BY <1>1, <1>2, <1>3, RunLeaves DEF WindowInv
<1> QED BY <1>1, <1>2, <1>4, RunStep

\* What fetch-stats writes is the cabinet, or the cabinet at the start of the tick, and then any
\* row since is in the window of the next runs.
LEMMA SyncTold ==
    ASSUME TypeInv, WindowInv, Sync
    PROVE  WindowInv'
<1>1. UNCHANGED <<clock, cabinet, log, run, past, untold>> /\ ~fresh /\ fresh'
  BY DEF Sync, historyVars
<1>2. \A e : (Pending(e) <=> Pending(e)')
  BY <1>1 DEF Pending
<1>3. ASSUME NEW e \in Entities \ untold PROVE Calm(e) /\ EntityTold(e)'
  <2>1. EntityTold(e)
    BY <1>3 DEF WindowInv
  <2>2. /\ Calm(e) /\ ToldBid(e)' = ToldBid(e) /\ \A t : RowsSince(e, t)' = RowsSince(e, t)
        /\ LogTells(e) => LogTells(e)'
    BY <1>1, <1>2, NoRow
  <2>3. CabinetTold(e)'
    BY <1>1, <1>2, <2>1, <2>2 DEF EntityTold, CabinetTold
  <2>4. ASSUME Kind[e] = BidLevel
        PROVE  Pending(e)' \/ RowsSince(e, Horizon - Window)' # {} \/ mirror'[e].bid = ToldBid(e)'
    <3>1. Kind[e] # "QUERY"
      BY <2>4, GuardrailsAssumption
    <3>2. PICK listed \in {cabinet, past[clock]} : mirror'[e] = listed[e]
      BY <3>1, <1>3 DEF Sync
    <3>3. CASE listed = cabinet
      BY <1>1, <2>3, <3>2, <3>3 DEF CabinetTold
    <3>4. CASE listed = past[clock]
      <4>1. clock \in 0 .. clock /\ clock \in Nat /\ Horizon' = clock + 1
        BY <1>1, OptimizerAssumption DEF Horizon, TypeInv, DbTyped
      <4>2. past[clock][e].bid = ToldBid(e) \/ RowsSince(e, clock) # {}
        BY <2>1, <4>1 DEF EntityTold, LogTells
      <4>3. RowsSince(e, clock) \subseteq RowsSince(e, clock + 1 - Window)
        <5>1. clock \in Int /\ clock + 1 - Window \in Int /\ clock + 1 - Window <= clock
          BY <4>1, OptimizerAssumption
        <5> QED BY <5>1, RowsGrow
      <4>4. RowsSince(e, Horizon - Window)' = RowsSince(e, clock + 1 - Window)
        <5>1. Horizon' - Window = clock + 1 - Window
          <6>1. Window \in Int /\ clock + 1 \in Int
            BY <4>1, OptimizerAssumption
          <6> QED BY <4>1, <6>1
        <5> HIDE DEF Horizon
        <5>2. DOMAIN log' = DOMAIN log /\ log' = log
          BY <1>1
        <5> QED BY <5>1, <5>2 DEF RowsSince
      <4> QED BY <2>2, <3>2, <3>4, <4>2, <4>3, <4>4
    <3> QED BY <3>2, <3>3, <3>4
  <2> QED BY <2>1, <2>2, <2>3, <2>4 DEF EntityTold, MirrorTold
<1>4. ASSUME NEW w \in Workers PROVE RunTold(w)'
  BY <1>1, <1>3, RunStays DEF WindowInv
<1> QED BY <1>1, <1>3, <1>4 DEF WindowInv

LEMMA HumanEditTold ==
    ASSUME TypeInv, WindowInv, HumanEdit
    PROVE  WindowInv'
<1>1. PICK h \in Entities, bid \in HumanBids :
         /\ cabinet' = [cabinet EXCEPT ![h] = [bid |-> bid, on |-> TRUE]]
         /\ untold' = untold \cup {h}
  BY DEF HumanEdit
<1>2. UNCHANGED <<clock, log, run, past, mirror, fresh>> /\ untold \subseteq untold'
  BY <1>1 DEF HumanEdit, dbVars
<1>3. \A e : Pending(e) => Pending(e)'
  BY <1>2 DEF Pending
<1>4. ASSUME NEW e \in Entities \ untold' PROVE Calm(e) /\ EntityTold(e)'
  <2>1. cabinet'[e].bid = cabinet[e].bid
    BY <1>1, <1>4 DEF TypeInv, DbTyped
  <2> QED BY <1>2, <1>3, <2>1, QuietEntity
<1>5. ASSUME NEW w \in Workers PROVE RunTold(w)'
  BY <1>2, <1>4, RunStays DEF WindowInv
<1> QED BY <1>4, <1>5 DEF WindowInv

LEMMA TickTold ==
    ASSUME TypeInv, WindowInv, Tick
    PROVE  WindowInv'
<1>1. UNCHANGED <<cabinet, log, run, untold, mirror>> /\ clock' = clock + 1 /\ clock \in Nat /\ Horizon' = Horizon
  BY OptimizerAssumption DEF Tick, dbVars, TypeInv, DbTyped, Horizon
<1>2. \A e : ~Pending(e)
  BY DEF Tick, Pending
<1>3. /\ \A t \in 0 .. clock : past'[t] = past[t]
      /\ past'[clock + 1] = cabinet
  <2>1. past' = [t \in 0 .. clock + 1 |-> IF t \in DOMAIN past THEN past[t] ELSE cabinet]
    BY DEF Tick
  <2>2. DOMAIN past = 0 .. clock
    BY DEF TypeInv, DbTyped
  <2> QED BY <1>1, <2>1, <2>2
<1>4. ASSUME NEW e \in Entities \ untold' PROVE Calm(e) /\ EntityTold(e)'
  <2>1. EntityTold(e)
    BY <1>1, <1>4 DEF WindowInv
  <2>2. \A t : RowsSince(e, t)' = RowsSince(e, t)
    BY <1>1 DEF RowsSince
  <2>3. ToldBid(e)' = ToldBid(e)
    <3>1. past'[0] = past[0]
      BY <1>1, <1>3
    <3> QED BY <1>1, <2>2, <3>1 DEF ToldBid
  <2>4. Calm(e)
    BY <1>2, <2>2, <2>3 DEF Calm
  <2>5. cabinet[e].bid = ToldBid(e)
    BY <1>2, <2>1 DEF EntityTold, CabinetTold
  <2>6. RowsSince(e, clock + 1) = {}
    BY <1>1, LogTimes DEF RowsSince
  <2>7. LogTells(e)'
    <3>1. SUFFICES ASSUME NEW t \in 0 .. clock + 1
                   PROVE  past'[t][e].bid = IF RowsSince(e, t) = {} THEN ToldBid(e) ELSE log[Min(RowsSince(e, t))].prev
      BY <1>1, <2>2, <2>3 DEF LogTells
    <3>2. CASE t \in 0 .. clock
      BY <1>3, <2>1, <3>2 DEF EntityTold, LogTells
    <3>3. CASE t = clock + 1
      BY <1>3, <2>5, <2>6, <3>3
    <3> QED BY <1>1, <3>2, <3>3
  <2>8. CabinetTold(e)'
    BY <1>1, <2>3, <2>5 DEF CabinetTold
  <2>9. MirrorTold(e)'
    BY <1>1, <1>2, <2>1, <2>2, <2>3 DEF EntityTold, MirrorTold
  <2> QED BY <2>4, <2>7, <2>8, <2>9 DEF EntityTold
<1>5. ASSUME NEW w \in Workers PROVE RunTold(w)'
  BY <1>1, <1>3, <1>4, RunStays DEF WindowInv
<1> QED BY <1>4, <1>5 DEF WindowInv

LEMMA WindowStep == KeyInv /\ TypeInv /\ Prompt /\ WindowInv /\ [Next]_vars => WindowInv'
<1> SUFFICES ASSUME KeyInv, TypeInv, Prompt, WindowInv, [Next]_vars PROVE WindowInv'  OBVIOUS
<1>1. ASSUME NEW w \in Workers, Step(w) PROVE WindowInv'
  BY <1>1, ProposeTold, DecideTold, ReserveTold, WriteTold, MissTold, LogChangeTold, SyncLocalTold,
     MarkNegatedTold, CardTold DEF Step
<1>2. ASSUME NEW w \in Workers, Crash(w) PROVE WindowInv'
  BY <1>2, CrashTold
<1>3. CASE Sync \/ HumanEdit \/ Tick
  BY <1>3, SyncTold, HumanEditTold, TickTold
<1>4. CASE UNCHANGED vars
  <2>1. UNCHANGED <<cabinet, log, run, untold, mirror, past, clock, fresh>>
    BY <1>4 DEF vars, dbVars, historyVars
  <2>2. \A e : Pending(e)' <=> Pending(e)
    BY <2>1 DEF Pending
  <2>3. \A e \in Entities \ untold' : Calm(e) /\ EntityTold(e)'
    BY <2>1, <2>2, QuietEntity
  <2>4. \A w \in Workers : RunTold(w)'
    BY <2>1, <2>3, RunStays DEF WindowInv
  <2> QED BY <2>3, <2>4 DEF WindowInv
<1> QED BY <1>1, <1>2, <1>3, <1>4 DEF Next

LEMMA WindowsHold == Spec /\ []Prompt => []WindowInv
BY KeysHold, TypesHold, WindowInit, WindowStep, PTL DEF Spec

\* loadBidHistory and clampBid: no run raises or lowers a bid by more than MAX_BID_CHANGE_PCT of
\* what it was when the run's window began, in however many steps and by however many runs at
\* once, for an entity every change of whose bid the log tells, as long as no run outlives its
\* window.  That the run knew the bid need not be assumed: its window has the row it missed.
THEOREM WindowStaysHeld == Spec /\ []Prompt => WindowHeld
<1> DEFINE Held == \A w \in Workers :
                      run[w].at = "write" /\ run'[w].at = "log" =>
                         LET d == Head(run[w].todo)
                             began == IF run[w].now > Window THEN run[w].now - Window ELSE 0
                         IN  /\ d.action \in BidActions
                             /\ d.entity \notin untold
                             /\ d.prev = cabinet[d.entity].bid
                             => InWindow(d, past[began][d.entity].bid)
<1>1. TypeInv /\ WindowInv => Held
  <2> SUFFICES ASSUME TypeInv, WindowInv, NEW w \in Workers, run[w].at = "write",
                      Head(run[w].todo).action \in BidActions, Head(run[w].todo).entity \notin untold
               PROVE  InWindow(Head(run[w].todo), past[Began(w)][Head(run[w].todo).entity].bid)
    BY DEF Began
  <2> DEFINE d == Head(run[w].todo)
  <2>1. d \in Changes(w)
    BY HeadTyped, HeadTail DEF Changes
  <2>2. WindowKept(w, d)
    BY <2>1 DEF WindowInv, RunTold, Working, Open
  <2> QED BY <2>2 DEF WindowKept
<1>2. TypeInv /\ WindowInv /\ [Next]_vars => [Held]_vars
  BY <1>1
<1> HIDE DEF Held
<1>3. Spec /\ []Prompt => [][Held]_vars
  BY <1>2, TypesHold, WindowsHold, PTL DEF Spec
<1> QED BY <1>3 DEF Held, WindowHeld

=============================================================================
