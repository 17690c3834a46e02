---------------------------- MODULE IngestionFacts ----------------------------
(***************************************************************************)
(* What one pass of the ingestion makes of the answers of the platform and  *)
(* of Metrika (src/src/ingestion: mapping.ts, entities.ts, stats.ts,        *)
(* metrika.ts, search-queries.ts).                                          *)
(***************************************************************************)
EXTENDS Integers, Sequences, FiniteSets, SequencesExt

None == "none"

-----------------------------------------------------------------------------
(* Entities. *)

\* lifecycleOf and the tables of the levels: a word nobody knows is taken for serving.
Lifecycle(word) == IF word \in {"STOPPED", "ENDED", "ARCHIVED", "DRAFT"} THEN word ELSE "SERVING"
StatusOf(level, word) ==
    CASE Lifecycle(word) = "SERVING" -> "ACTIVE"
      [] Lifecycle(word) = "ARCHIVED" -> "ARCHIVED"
      [] Lifecycle(word) \in {"ENDED", "DRAFT"} /\ level = "campaign" -> Lifecycle(word)
      [] OTHER -> "PAUSED"

\* archiveMissing: how much may go at once (MAX_ARCHIVE_SHARE), of those seen and those
\* that would go.
MayArchive(seen, candidates) == seen > 0 /\ candidates > 0 /\ 2 * candidates <= seen + candidates

\* syncKeywords of one group: a row [external, phrase, status, negative], a keyword of
\* the cabinet [external, phrase, status].  A row is found by the cabinet's name for it,
\* then by the phrase, as both were before the pass.
ByPhraseAlone(rows, keyword) == {i \in DOMAIN rows : rows[i].phrase = keyword.phrase}
Found(rows, keyword) ==
    LET byExternal == {i \in DOMAIN rows : rows[i].external = keyword.external}
    IN  IF byExternal # {} THEN byExternal ELSE ByPhraseAlone(rows, keyword)
KeywordFields(row, keyword) ==
    [row EXCEPT !.external = keyword.external, !.status = StatusOf("keyword", keyword.status)]
PutKeyword(acc, before, keyword) ==
    LET found == Found(before, keyword)
    IN  IF found # {}
        THEN [rows |-> [acc.rows EXCEPT ![Max(found)] = KeywordFields(@, keyword)],
              matched |-> acc.matched \cup {Max(found)}]
        ELSE [rows |-> Append(acc.rows, KeywordFields([external |-> None, phrase |-> keyword.phrase,
                                                       status |-> None, negative |-> FALSE], keyword)),
              matched |-> acc.matched \cup {Len(acc.rows) + 1}]
ArchiveVanished(rows, before, matched, seen) ==
    LET vanished == {i \in DOMAIN before : /\ i \notin matched /\ before[i].status # "ARCHIVED"
                                           /\ before[i].external # None /\ ~before[i].negative}
    IN  IF MayArchive(seen, Cardinality(vanished))
        THEN [i \in DOMAIN rows |-> IF i \in vanished THEN [rows[i] EXCEPT !.status = "ARCHIVED"] ELSE rows[i]]
        ELSE rows
SyncKeywords(before, remote) ==
    LET put == FoldLeft(LAMBDA acc, k : PutKeyword(acc, before, k), [rows |-> before, matched |-> {}], remote)
    IN  ArchiveVanished(put.rows, before, put.matched, Len(remote))

-----------------------------------------------------------------------------
(* Statistics.  Row of a report: [entity, conversions], conversions -1 when     *)
(* the platform gave no number; stored: key -> [conversions, source].           *)

NoNumber == -1
Numbers(rows, key) == SelectSeq(rows, LAMBDA row : row.entity = key /\ row.conversions # NoNumber)
\* aggregate, statFields, platformConversionSource: no number is no measured nought.
Aggregate(rows, key) ==
    LET numbers == Numbers(rows, key)
    IN  [conversions |-> FoldLeft(LAMBDA sum, row : sum + row.conversions, 0, numbers),
         source |-> IF numbers = <<>> THEN "NONE" ELSE "PLATFORM"]
Reported(rows) == {rows[i].entity : i \in DOMAIN rows}

\* summarizeConversionSources: no source is not a third model.
Models(stored) == {stored[k].source : k \in DOMAIN stored} \ {"NONE"}
Mixed(stored) == Cardinality(Models(stored)) > 1

-----------------------------------------------------------------------------
(* Metrika.  A row of its answer names candidates (the campaign's id and the    *)
(* numbers in the label), of which some are campaigns of the client (known).    *)

Ours(row, known) == row.candidates \cap known
Matched(row, known) == Cardinality(Ours(row, known)) = 1
Shielded(rows, known) == UNION {Ours(rows[i], known) : i \in {j \in DOMAIN rows : ~Matched(rows[j], known)}}
Blind(rows, known) == \E i \in DOMAIN rows : rows[i].candidates = {}
\* groupByCampaignDate: what is to be written.
Totals(rows, known) ==
    LET matched == {i \in DOMAIN rows : Matched(rows[i], known)}
        keys == UNION {Ours(rows[i], known) : i \in matched}
    IN  [k \in keys |-> FoldLeft(LAMBDA sum, row : IF Matched(row, known) /\ Ours(row, known) = {k}
                                                   THEN sum + row.conversions ELSE sum, 0, rows)]
\* Nothing is known of a window Metrika says nothing of, or something nobody can place.
Suspended(rows, known) == rows = <<>> \/ DOMAIN Totals(rows, known) = {} \/ Blind(rows, known)
OfMetrika(n) == [conversions |-> n, source |-> "METRIKA"]
\* zeroUnreported: silence of Metrika is a nought of its model.
ToZeroUnshielded(stored, known, rows) == {k \in DOMAIN stored : /\ k \in known
                                                                /\ k \notin DOMAIN Totals(rows, known)
                                                                /\ stored[k] # OfMetrika(0)}
ToZero(stored, known, rows) == {k \in DOMAIN stored : /\ k \in known \ Shielded(rows, known)
                                                      /\ k \notin DOMAIN Totals(rows, known)
                                                      /\ stored[k] # OfMetrika(0)}
ApplyMetrika(stored, known, rows) ==
    LET totals == Totals(rows, known)
        zero == ToZero(stored, known, rows)
    IN  IF Suspended(rows, known) THEN stored
        ELSE [k \in DOMAIN stored \cup DOMAIN totals |->
                IF k \in DOMAIN totals THEN OfMetrika(totals[k])
                ELSE IF k \in zero THEN OfMetrika(0) ELSE stored[k]]

-----------------------------------------------------------------------------
\* buildResolver: the group a search query belongs to; groups: id -> [external,
\* campaign, archived].
ResolveAny(row, groups) ==
    LET live == {g \in DOMAIN groups : ~groups[g].archived}
    IN  IF row.group # None THEN {g \in live : groups[g].external = row.group}
        ELSE {g \in live : groups[g].campaign = row.campaign}
Resolve(row, groups) ==
    LET found == ResolveAny(row, groups)
    IN  IF Cardinality(found) = 1 THEN found ELSE {}

-----------------------------------------------------------------------------
(***************************************************************************)
(* Properties, of all inputs of a run.                                     *)
(***************************************************************************)

\* After a pass every keyword of the cabinet has one row of its own, what is not in the
\* cabinet yet and what is forbidden stays as it was, and no more is archived than was
\* seen - if the phrases of a group differ, none of them is forbidden there, and none has
\* been given from one keyword to another.
KeywordsArePaired(before, remote) ==
    LET after == SyncKeywords(before, remote)
        names == {remote[k].external : k \in DOMAIN remote}
        archived == {i \in DOMAIN before : before[i].status # "ARCHIVED" /\ after[i].status = "ARCHIVED"
                                           /\ after[i].external \notin names}
    IN  /\ \A k \in DOMAIN remote :
              Cardinality({i \in DOMAIN after : after[i].external = remote[k].external}) = 1
        /\ \A i \in DOMAIN before : (before[i].negative \/ before[i].external = None)
                                      => after[i] = before[i] \/ after[i].external \in names
        /\ Cardinality(archived) <= Len(remote)
\* The inputs this is claimed of.
KeywordsDiffer(before, remote) ==
    /\ \A i, j \in DOMAIN before : i # j => /\ before[i].phrase # before[j].phrase
                                            /\ before[i].external = None \/ before[i].external # before[j].external
    /\ \A k, l \in DOMAIN remote : k # l => /\ remote[k].external # remote[l].external
                                            /\ remote[k].phrase # remote[l].phrase
    /\ \A i \in DOMAIN before, k \in DOMAIN remote :
          /\ before[i].negative => before[i].phrase # remote[k].phrase
          /\ before[i].external = remote[k].external =>
                \A l \in DOMAIN remote \ {k} : remote[l].phrase # before[i].phrase

\* Conversions are set to nought only for a campaign that no row of the answer could have
\* been about by the numbers it names; and unless the answer is no ground for that, the
\* window is left in the model of Metrika but for those it could have been about.
SilenceIsZero(stored, known, rows) ==
    LET after == ApplyMetrika(stored, known, rows)
        about == UNION {Ours(rows[i], known) : i \in DOMAIN rows}
        lost == {k \in DOMAIN stored : stored[k].conversions > 0 /\ after[k].conversions = 0}
    IN  /\ \A k \in lost : k \in DOMAIN Totals(rows, known) \/ (k \notin about /\ ~Blind(rows, known))
        /\ ~Suspended(rows, known) =>
              \A k \in known \cap DOMAIN after : after[k].source = "METRIKA" \/ k \in Shielded(rows, known)

\* metrika.ts: "a row we were given but could not address is NO such ground: it was
\* enough for the name of a campaign to hold a year".  NOT so: a row whose label names a
\* number that is no campaign of the client is taken for somebody else's, and the
\* campaign it is about is set to nought for its silence.  truth[i] is whose row it is.
UnaddressedIsNoGround(stored, known, rows, truth) ==
    LET after == ApplyMetrika(stored, known, rows)
    IN  \A i \in DOMAIN rows : (truth[i] \in DOMAIN stored /\ stored[truth[i]].conversions > 0)
                                  => after[truth[i]].conversions > 0

\* A query is put to a group only if it can belong to no other.
QueryIsPlaced(row, groups) ==
    \A g \in Resolve(row, groups) :
        /\ ~groups[g].archived
        /\ IF row.group # None THEN groups[g].external = row.group
           ELSE \A h \in DOMAIN groups : (groups[h].campaign = row.campaign /\ ~groups[h].archived) => h = g
=============================================================================
