---------------------------- MODULE KeywordFacts ----------------------------
(***************************************************************************)
(* The core of keywords (src/src/keywords: normalise.ts, frequency.ts,       *)
(* cluster.ts, negatives.ts, core.ts, refresh.ts, store.ts).  A phrase is    *)
(* the sequence of its words, cleared of operators and of case; StemOf is    *)
(* crudeStem, Stops the words that do not count.                            *)
(***************************************************************************)
EXTENDS Integers, Sequences, FiniteSets, SequencesExt

CONSTANTS StemOf, Stops,
          MaxWords,        \* DIRECT_KEYWORD_MAX_WORDS
          MinImpressions,  \* MIN_MONTHLY_IMPRESSIONS
          BatchSize,       \* MAX_PHRASES_PER_FREQUENCY_REQUEST
          MaxClusters, MaxNegatives

Unknown == -1
Stems(words) == {StemOf[words[i]] : i \in DOMAIN words}

-----------------------------------------------------------------------------
(* One phrase. *)

\* significantWords: a phrase of nothing but stop words keeps them.
Significant(phrase) ==
    LET words == SelectSeq(phrase, LAMBDA w : w \notin Stops)
    IN  IF words = <<>> THEN phrase ELSE words
\* canonicalKey: the words in no order.
Key(phrase) == LET words == Significant(phrase)
               IN  [w \in Range(words) |-> Cardinality({i \in DOMAIN words : words[i] = w})]
Valid(phrase) == phrase # <<>> /\ Len(phrase) <= MaxWords

\* dedupePhrases: one group for a key, in the order they came, under its shortest phrase.
Shortest(variants) == variants[CHOOSE i \in DOMAIN variants : \A j \in DOMAIN variants :
    Len(variants[i]) < Len(variants[j]) \/ (Len(variants[i]) = Len(variants[j]) /\ i <= j)]
AddPhrase(groups, phrase) ==
    LET same == {i \in DOMAIN groups : groups[i].key = Key(phrase)}
    IN  IF ~Valid(phrase) THEN groups
        ELSE IF same = {} THEN Append(groups, [key |-> Key(phrase), variants |-> <<phrase>>])
        ELSE [i \in DOMAIN groups |->
                IF i \in same /\ phrase \notin Range(groups[i].variants)
                THEN [groups[i] EXCEPT !.variants = Append(@, phrase)] ELSE groups[i]]
Dedupe(phrases) ==
    LET groups == FoldLeft(LAMBDA acc, p : AddPhrase(acc, p), <<>>, phrases)
    IN  [i \in DOMAIN groups |-> [key |-> groups[i].key, phrase |-> Shortest(groups[i].variants)]]

-----------------------------------------------------------------------------
(* The core. *)

\* fetchFrequencies: batch by batch until one fails; answer[b] maps phrases to numbers,
\* Unknown where the source says nothing, or is FALSE.
Batch(i) == (i - 1) \div BatchSize + 1
Frequencies(groups, answer) ==
    LET answered(i) == \A b \in 1..Batch(i) : answer[b].ok
    IN  [available |-> \A i \in DOMAIN groups : answered(i),
         of |-> [i \in DOMAIN groups |-> IF answered(i) THEN answer[Batch(i)].numbers[groups[i].phrase] ELSE Unknown]]
\* buildKeywordCore: nothing is thrown away for want of a number.
KeptAsZero(lookup, i) == lookup.of[i] >= MinImpressions
Kept(lookup, i) == ~lookup.available \/ lookup.of[i] = Unknown \/ lookup.of[i] >= MinImpressions
CorePhrases(phrases, answer) ==
    LET groups == Dedupe(phrases)
        lookup == Frequencies(groups, answer)
        kept == SetToSortSeq({i \in DOMAIN groups : Kept(lookup, i)}, LAMBDA i, j : i < j)
    IN  [n \in DOMAIN kept |-> [phrase |-> groups[kept[n]].phrase, frequency |-> lookup.of[kept[n]]]]

\* clusterPhrases: near[<<i, j>>] is how alike the phrases i and j are; a phrase joins the leader it
\* is most like, if more than the threshold, or leads.
Best(near, leaders, i) == CHOOSE l \in leaders : \A m \in leaders :
    near[<<i, l>>] > near[<<i, m>>] \/ (near[<<i, l>>] = near[<<i, m>>] /\ l <= m)
Join(acc, near, threshold, i) ==
    LET leaders == {j \in DOMAIN acc : acc[j] = j}
        lead == \/ leaders = {}
                \/ near[<<i, Best(near, leaders, i)>>] <= threshold /\ Cardinality(leaders) < MaxClusters
    IN  Append(acc, IF lead THEN i ELSE Best(near, leaders, i))
Clusters(n, near, threshold) ==
    FoldLeft(LAMBDA acc, i : Join(acc, near, threshold, i), <<>>, [i \in 1..n |-> i])

-----------------------------------------------------------------------------
(* Negatives: a candidate [phrase, queries]. *)

\* suppressesProtected.
SuppressesByWord(phrase, protected) == \E p \in protected : Range(phrase) \subseteq Range(p)
Suppresses(phrase, protected) ==
    \E p \in protected : Significant(phrase) # <<>> /\ Stems(Significant(phrase)) \subseteq Stems(Significant(p))
Select(acc, candidate, protected) ==
    IF \/ ~Valid(candidate.phrase) \/ \E i \in DOMAIN acc : Key(acc[i].phrase) = Key(candidate.phrase)
       \/ Suppresses(candidate.phrase, protected) \/ Len(acc) >= MaxNegatives
    THEN acc ELSE Append(acc, candidate)
SelectNegatives(candidates, protected) ==
    FoldLeft(LAMBDA acc, c : Select(acc, c, protected), <<>>, candidates)

\* persistNegatives: to the groups whose queries gave rise to it, or, if none did, to those with
\* keywords.  rows: the queries of a group; live: its keywords, of whatever status.
Targets(negative, rows, live) ==
    IF negative.queries = {} THEN {g \in DOMAIN live : live[g] # {}}
    ELSE {g \in DOMAIN rows : rows[g] \cap negative.queries # {}}
PersistNegatives(negatives, rows, live) ==
    [g \in DOMAIN rows |-> IF \A h \in DOMAIN rows : rows[h] = {} THEN {}
                           ELSE {n \in Range(negatives) : g \in Targets(n, rows, live) /\ ~Suppresses(n.phrase, live[g])}]

\* writeNegativeKeywords: a row is a group, a type and a phrase; one that is there stays as it
\* is, and the keyword of the same words is another row.
NegativeRow(g, phrase) == [group |-> g, negative |-> TRUE, phrase |-> phrase, status |-> "ACTIVE"]
SameKey(a, b) == a.group = b.group /\ a.negative = b.negative /\ a.phrase = b.phrase
SamePhrase(a, b) == a.group = b.group /\ a.phrase = b.phrase
Upsert(table, row) == IF \E old \in table : SameKey(old, row) THEN table ELSE table \cup {row}
UpsertByPhrase(table, row) == {old \in table : ~SamePhrase(old, row)} \cup {row}
WriteNegativeKeywords(table, written, dryRun) ==
    LET rows == {NegativeRow(pair[1], pair[2].phrase) :
                    pair \in {p \in UNION {{g} \X written[g] : g \in DOMAIN written} : Valid(p[2].phrase)}}
    IN  IF dryRun THEN table ELSE FoldSet(LAMBDA row, acc : Upsert(acc, row), table, rows)

-----------------------------------------------------------------------------
(* The week. *)

\* listRefreshTargets: of the clients that are active, those with a seed; that of the last
\* snapshot, which somebody may have corrected, before the product of a brief.
SeedOf(client, seeds) == IF seeds[client.id] # "none" THEN seeds[client.id]
                         ELSE IF client.complete THEN client.product ELSE "none"
RefreshTargets(clients, seeds) ==
    SelectSeq(clients, LAMBDA c : c.active /\ SeedOf(c, seeds) \notin {"none", "blank"})

\* loadLiveKeywords: of every status, for one that is stopped may be switched on again.
LiveKeywords(table, groups) == [g \in groups |-> {row.phrase : row \in {k \in table : k.group = g /\ ~k.negative}}]

\* saveKeywordSet: a new snapshot; the last one is what counts.
SaveKeywordSet(seeds, client) == [seeds EXCEPT ![client.id] = SeedOf(client, seeds)]

\* One client: the snapshot is saved before the negatives are looked at, and what goes wrong
\* goes wrong for this client alone.
RefreshClient(acc, client, dryRun) ==
    LET live == LiveKeywords(acc.table, DOMAIN client.rows)
        written == PersistNegatives(SelectNegatives(client.candidates, client.core), client.rows, live)
        saved == [acc EXCEPT !.seeds = SaveKeywordSet(@, client)]
    IN  CASE client.fails = "core"      -> [acc EXCEPT !.failures = @ \cup {client.id}]
          [] client.fails = "negatives" -> [saved EXCEPT !.failures = @ \cup {client.id}]
          [] OTHER -> [saved EXCEPT !.table = WriteNegativeKeywords(@, written, dryRun)]
RunWeeklyKeywordRefresh(clients, table, seeds, dryRun) ==
    FoldLeft(LAMBDA acc, c : RefreshClient(acc, c, dryRun),
             [table |-> table, seeds |-> seeds, failures |-> {}], RefreshTargets(clients, seeds))

-----------------------------------------------------------------------------
(***************************************************************************)
(* Properties, of all inputs of a run.                                     *)
(***************************************************************************)

\* A phrase is left out of the core only if it is not valid, or another order of its
\* words is in, or its own number is known and small.
DemandIsKept(phrases, answer) ==
    LET core == CorePhrases(phrases, answer)
        groups == Dedupe(phrases)
        lookup == Frequencies(groups, answer)
    IN  /\ \A n \in DOMAIN phrases : Valid(phrases[n]) =>
              \/ \E m \in DOMAIN core : Key(core[m].phrase) = Key(phrases[n])
              \/ \E i \in DOMAIN groups : groups[i].key = Key(phrases[n]) /\ lookup.of[i] \in 0..(MinImpressions - 1)
        /\ \A m, k \in DOMAIN core : m # k => Key(core[m].phrase) # Key(core[k].phrase)

\* frequency.ts: "available - false: the source is not there or has fallen; all
\* frequencies are null".  NOT so: what the batches before the fall brought stays.
NoneWithoutSource(phrases, answer) ==
    ~Frequencies(Dedupe(phrases), answer).available
        => \A i \in DOMAIN CorePhrases(phrases, answer) : CorePhrases(phrases, answer)[i].frequency = Unknown

\* Every phrase is in one cluster, and while there is room for more, two leaders are never
\* as alike as the members of a cluster.
LeadersDiffer(n, near, threshold) ==
    LET of == Clusters(n, near, threshold)
        leaders == {i \in 1..n : of[i] = i}
    IN  /\ \A i \in 1..n : of[i] \in leaders /\ Cardinality(leaders) <= MaxClusters
        /\ \A i, j \in leaders : i > j => near[<<i, j>>] <= threshold
        /\ Cardinality(leaders) < MaxClusters => \A i \in 1..n \ leaders : near[<<i, of[i]>>] > threshold

\* No negative silences a phrase of the core, or a keyword the group has in the cabinet,
\* by the stems of its words - if it is more than a stop word.
NegativesSpare(candidates, core, rows, live) ==
    LET written == PersistNegatives(SelectNegatives(candidates, core), rows, live)
        silences(n, phrase) == ~(Range(n.phrase) \subseteq Stops) /\ Stems(n.phrase) \subseteq Stems(phrase)
    IN  \A g \in DOMAIN rows : \A n \in written[g] : ~\E p \in core \cup live[g] : silences(n, p)

\* A week changes no row of the cabinet's keywords, whatever their words, and adds nothing but
\* negatives that silence no keyword of their group; nothing in a dry run.  A seed that is there
\* stays; a second week of the same demand adds nothing and starts from the same seed; a client
\* that fails costs the others nothing.
WeekSpares(clients, table, seeds, dryRun) ==
    LET made == RunWeeklyKeywordRefresh(clients, table, seeds, dryRun)
        again == RunWeeklyKeywordRefresh(clients, made.table, made.seeds, dryRun)
        silent(n, k) == ~(Range(n.phrase) \subseteq Stops) /\ Stems(n.phrase) \subseteq Stems(k.phrase)
        alone(c) == RunWeeklyKeywordRefresh(<<c>>, table, seeds, dryRun)
        rowsOf(c, t) == {k \in t : k.group \in DOMAIN c.rows}
    IN  /\ table \subseteq made.table /\ (dryRun => made.table = table)
        /\ \A n \in made.table \ table :
              n.negative /\ ~\E k \in table : k.group = n.group /\ ~k.negative /\ silent(n, k)
        /\ again.table = made.table /\ again.seeds = made.seeds
        /\ \A i \in DOMAIN clients : LET c == clients[i] IN
              /\ made.seeds[c.id] = alone(c).seeds[c.id]
              /\ seeds[c.id] # "none" => made.seeds[c.id] = seeds[c.id]
              /\ rowsOf(c, made.table) = rowsOf(c, alone(c).table)
=============================================================================
