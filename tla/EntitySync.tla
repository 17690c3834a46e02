----------------------------- MODULE EntitySync -----------------------------
(***************************************************************************)
(* The campaigns of a cabinet read page by page and put into the database    *)
(* (src/src/ingestion/entities.ts) while people change the cabinet and a    *)
(* launch (src/src/campaigns/apply.ts) creates a campaign there and then    *)
(* its row here.                                                            *)
(*                                                                         *)
(* The levels below differ only in the parent they count by; keywords are in *)
(* IngestionFacts.  MaxMoves bounds what happens in the cabinet, MaxFaults  *)
(* the listings that fail or come without their length.                     *)
(***************************************************************************)
EXTENDS Integers, Sequences, FiniteSets, SequencesExt

CONSTANTS Ids,        \* campaigns by the name the platform gives them
          PageLimit,  \* how many a page asks for
          PageServed, \* how many the platform gives at most
          MaxMoves, MaxFaults

ASSUME SyncAssumption == /\ PageLimit \in Nat \ {0} /\ PageServed \in 1..PageLimit
                         /\ {MaxMoves, MaxFaults} \subseteq Nat /\ IsFiniteSet(Ids)

IF_ == INSTANCE IngestionFacts
Absent == "absent"
Words == {"SERVING", "STOPPED"}
Status(word) == IF_!StatusOf("campaign", word)

VARIABLES cabinet,  \* the campaigns of the cabinet in the order it lists them
          words,    \* id -> its state there
          rows,     \* id -> status of its row, or Absent
          created,  \* campaigns a launch has created and not yet written here
          sync,     \* the pass: [pc, offset, got, candidates, moved, short]
          moves, faults
syncVars == <<cabinet, words, rows, created, sync, moves, faults>>

Live == Range(cabinet)
NoPass == [pc |-> "idle", offset |-> 0, got |-> <<>>, todo |-> <<>>, candidates |-> 0,
           moved |-> FALSE, short |-> FALSE]
Init == /\ cabinet = <<>> /\ words = [e \in Ids |-> "SERVING"] /\ rows = [e \in Ids |-> Absent]
        /\ created = {} /\ sync = NoPass /\ moves = 0 /\ faults = 0

-----------------------------------------------------------------------------
(* The cabinet and the launch. *)

Moved == sync' = [sync EXCEPT !.moved = (sync.pc # "idle")]
Moves == moves < MaxMoves /\ moves' = moves + 1 /\ Moved

\* applyCampaign: the campaign is in the cabinet before its row is here.
LaunchCreates(e) ==
    /\ Moves /\ e \notin Live /\ rows[e] = Absent
    /\ cabinet' = Append(cabinet, e) /\ words' = [words EXCEPT ![e] = "STOPPED"]
    /\ created' = created \cup {e}
    /\ UNCHANGED <<rows, faults>>
\* persistCampaign: a row that is there keeps its status.
LaunchWrites(e) ==
    /\ e \in created
    /\ created' = created \ {e}
    /\ rows' = [rows EXCEPT ![e] = IF @ = Absent THEN "DRAFT" ELSE @]
    /\ Moved
    /\ UNCHANGED <<cabinet, words, moves, faults>>
\* ... and a database that failed is left to the next pass.
LaunchLosesRow(e) ==
    /\ e \in created /\ faults < MaxFaults /\ faults' = faults + 1
    /\ created' = created \ {e} /\ Moved
    /\ UNCHANGED <<cabinet, words, rows, moves>>
SomebodyAdds(e) ==
    /\ Moves /\ e \notin Live
    /\ cabinet' = Append(cabinet, e) /\ words' = [words EXCEPT ![e] = "SERVING"]
    /\ UNCHANGED <<rows, created, faults>>
SomebodyRemoves(e) ==
    /\ Moves
    /\ \E i \in DOMAIN cabinet : cabinet[i] = e /\ cabinet' = RemoveAt(cabinet, i)
    /\ UNCHANGED <<words, rows, created, faults>>
SomebodySwitches(e) ==
    /\ Moves /\ e \in Live
    /\ \E w \in Words \ {words[e]} : words' = [words EXCEPT ![e] = w]
    /\ UNCHANGED <<cabinet, rows, created, faults>>

-----------------------------------------------------------------------------
(* The pass. *)

Pass(next) == sync' = next /\ UNCHANGED <<cabinet, words, created, moves>>

Begin == /\ sync.pc = "idle"
         /\ Pass([NoPass EXCEPT !.pc = "list"]) /\ UNCHANGED <<rows, faults>>

\* fetchPage; NextOffset is what listEntities steps by.
Page == LET left == Len(cabinet) - sync.offset
        IN  [i \in 1..(IF left <= 0 THEN 0 ELSE IF left < PageServed THEN left ELSE PageServed) |->
                [id |-> cabinet[sync.offset + i], word |-> words[cabinet[sync.offset + i]]]]
NextByLimit(page) == sync.offset + PageLimit
NextOffset(page) == sync.offset + Len(page)
Listed(page, last) ==
    LET got == sync.got \o page
    IN  IF last THEN [sync EXCEPT !.pc = "write", !.got = got, !.todo = got]
        ELSE [sync EXCEPT !.offset = NextOffset(page), !.got = got]
ListPage == /\ sync.pc = "list"
            /\ Pass(Listed(Page, Page = <<>> \/ NextOffset(Page) >= Len(cabinet)))
            /\ UNCHANGED <<rows, faults>>
\* An answer without `count` is taken for all there is.
ListWithoutCount == /\ sync.pc = "list" /\ faults < MaxFaults /\ faults' = faults + 1
                    /\ Pass([Listed(Page, TRUE) EXCEPT !.short = (Page # <<>>)])
                    /\ UNCHANGED rows
ListFails == /\ sync.pc = "list" /\ faults < MaxFaults /\ faults' = faults + 1
             /\ Pass(NoPass) /\ UNCHANGED rows

\* syncCampaigns: one row after another.
PutAsNew(row, word) == IF row = Absent THEN Status(word) ELSE row
Put(row, word) == Status(word)
Write == /\ sync.pc = "write" /\ sync.todo # <<>>
         /\ LET c == Head(sync.todo)
            IN  rows' = [rows EXCEPT ![c.id] = Put(rows[c.id], c.word)]
         /\ Pass([sync EXCEPT !.todo = Tail(@)]) /\ UNCHANGED faults
Seen == {sync.got[i].id : i \in DOMAIN sync.got}
Missing == {e \in Ids \ Seen : rows[e] \notin {Absent, "ARCHIVED"}}
\* archiveMissing: the share is judged by a count, ...
MayArchiveAll(seen, candidates) == candidates > 0
MayArchive(seen, candidates) == IF_!MayArchive(seen, candidates)
Count == /\ sync.pc = "write" /\ sync.todo = <<>>
         /\ IF MayArchive(Cardinality(Seen), Cardinality(Missing))
            THEN Pass([sync EXCEPT !.pc = "archive", !.candidates = Cardinality(Missing)])
            ELSE Pass(NoPass)
         /\ UNCHANGED <<rows, faults>>
\* ... and the rows are chosen anew by the update that archives them.
Archive == /\ sync.pc = "archive"
           /\ rows' = [e \in Ids |-> IF e \in Missing THEN "ARCHIVED" ELSE rows[e]]
           /\ Pass(NoPass) /\ UNCHANGED faults

SyncNext == Begin \/ ListPage \/ Write \/ Count \/ Archive
Next == \/ \E e \in Ids : \/ LaunchCreates(e) \/ LaunchWrites(e) \/ LaunchLosesRow(e)
                          \/ SomebodyAdds(e) \/ SomebodyRemoves(e) \/ SomebodySwitches(e)
        \/ SyncNext \/ ListWithoutCount \/ ListFails
\* The scheduler comes again every few hours, and a launch under way is finished.
Fairness == WF_syncVars(SyncNext) /\ WF_syncVars(\E e \in Ids : LaunchWrites(e))
Spec == Init /\ [][Next]_syncVars /\ Fairness

-----------------------------------------------------------------------------
(* Properties. *)

TypeOK == /\ Live \subseteq Ids /\ words \in [Ids -> Words]
          /\ rows \in [Ids -> {"ACTIVE", "PAUSED", "DRAFT", "ARCHIVED", Absent}]
          /\ created \subseteq Ids
          /\ sync.pc \in {"idle", "list", "write", "archive"}

Archived(e) == rows[e] # "ARCHIVED" /\ rows'[e] = "ARCHIVED"

\* A campaign that is in the cabinet loses its row to the archive only if the cabinet or
\* a launch moved while it was listed, or the answer hid its length.
LiveIsKept == [][\A e \in Live : Archived(e) => sync.moved \/ sync.short]_syncVars

\* Whatever is wrong with the answer, no pass archives more than it has seen, but for the
\* drafts a launch may have written after it had counted.
HalfStays == [][Cardinality({e \in Ids : Archived(e) /\ rows[e] # "DRAFT"}) <= Cardinality(Seen)]_syncVars

\* Once the cabinet is left alone and answers whole, every campaign of it has the status
\* it has there, whatever an incomplete answer had done to its row before, and whether or not
\* the launch that made it could write one.
RowsHeal == <>[](\A e \in Live : rows[e] = Status(words[e]))
=============================================================================
