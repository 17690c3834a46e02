--------------------------- MODULE EntitySyncProofs ---------------------------
(***************************************************************************)
(* What holds of EntitySync for any cabinet, however it is served in pages: *)
(* type correctness, and what a pass may never archive.                     *)
(***************************************************************************)
EXTENDS EntitySync, FiniteSetTheorems, SequenceTheorems, TLAPS

Campaigns == [id : Ids, word : Words]

PassOK == sync \in [pc : {"idle", "list", "write", "archive"}, offset : Nat, got : Seq(Campaigns),
                    todo : Seq(Campaigns), candidates : Nat, moved : BOOLEAN, short : BOOLEAN]

RowsOK == rows \in [Ids -> {"ACTIVE", "PAUSED", "DRAFT", "ARCHIVED", Absent}]

CabinetOK == /\ cabinet \in Seq(Ids) /\ words \in [Ids -> Words] /\ created \in SUBSET Ids

TypeInv == PassOK /\ RowsOK /\ CabinetOK

-----------------------------------------------------------------------------
(* What the operators of a pass return. *)

LEMMA StatusRange == \A word \in Words : Status(word) \in {"ACTIVE", "PAUSED"}
  BY DEF Words, Status, IF_!StatusOf, IF_!Lifecycle

\* How many campaigns the page has.
PageLen == LET left == Len(cabinet) - sync.offset
           IN  IF left <= 0 THEN 0 ELSE IF left < PageServed THEN left ELSE PageServed

\* A page is the next part of the cabinet, and empty only behind its end.
LEMMA PageIsNext ==
    ASSUME TypeInv
    PROVE  /\ Page \in Seq(Campaigns)
           /\ Len(Page) = PageLen
           /\ PageLen \in Nat
           /\ \A i \in 1 .. PageLen : Page[i].id = cabinet[sync.offset + i]
           /\ PageLen = 0 => sync.offset >= Len(cabinet)
           /\ PageLen > 0 => sync.offset + PageLen <= Len(cabinet)
<1>1. Len(cabinet) \in Nat /\ sync.offset \in Nat /\ PageServed \in Nat \ {0}
  BY SyncAssumption DEF TypeInv, PassOK, CabinetOK
<1>2. PageLen \in Nat
  BY <1>1 DEF PageLen
<1>3. PageLen > 0 => sync.offset + PageLen <= Len(cabinet)
  BY <1>1 DEF PageLen
<1>4. PageLen = 0 => sync.offset >= Len(cabinet)
  BY <1>1 DEF PageLen
<1>5. \A i \in 1 .. PageLen : cabinet[sync.offset + i] \in Ids
  BY <1>1, <1>2, <1>3 DEF TypeInv, CabinetOK
<1>6. Page = [i \in 1 .. PageLen |-> [id |-> cabinet[sync.offset + i], word |-> words[cabinet[sync.offset + i]]]]
  BY DEF Page, PageLen
<1>7. \A i \in 1 .. PageLen : [id |-> cabinet[sync.offset + i], word |-> words[cabinet[sync.offset + i]]] \in Campaigns
  BY <1>5 DEF TypeInv, CabinetOK, Campaigns
<1>8. Page \in Seq(Campaigns) /\ Len(Page) = PageLen
  BY <1>2, <1>6, <1>7
<1> QED BY <1>2, <1>3, <1>4, <1>6, <1>8

\* A page taken in, whether or not it is the last.
LEMMA ListedOK ==
    ASSUME TypeInv, NEW last \in BOOLEAN, NEW short \in BOOLEAN
    PROVE  /\ Listed(Page, last) \in [pc : {"idle", "list", "write", "archive"}, offset : Nat,
                  got : Seq(Campaigns), todo : Seq(Campaigns), candidates : Nat, moved : BOOLEAN,
                  short : BOOLEAN]
           /\ [Listed(Page, last) EXCEPT !.short = short] \in [pc : {"idle", "list", "write", "archive"},
                  offset : Nat, got : Seq(Campaigns), todo : Seq(Campaigns), candidates : Nat,
                  moved : BOOLEAN, short : BOOLEAN]
<1>1. Page \in Seq(Campaigns) /\ Len(Page) \in Nat
  BY PageIsNext
<1> DEFINE got == sync.got \o Page
<1>2. got \in Seq(Campaigns)
  BY <1>1 DEF TypeInv, PassOK
<1>3. NextOffset(Page) \in Nat
  BY <1>1 DEF NextOffset, TypeInv, PassOK
<1>4. Listed(Page, last) = IF last THEN [sync EXCEPT !.pc = "write", !.got = got, !.todo = got]
                           ELSE [sync EXCEPT !.offset = NextOffset(Page), !.got = got]
  BY DEF Listed
<1> HIDE DEF got
<1>5. Listed(Page, last) \in [pc : {"idle", "list", "write", "archive"}, offset : Nat,
                  got : Seq(Campaigns), todo : Seq(Campaigns), candidates : Nat, moved : BOOLEAN,
                  short : BOOLEAN]
  BY <1>2, <1>3, <1>4 DEF TypeInv, PassOK
<1> QED BY <1>5

LEMMA MissingIsFinite == IsFiniteSet(Missing) /\ Cardinality(Missing) \in Nat
<1>1. Missing \subseteq Ids
  BY DEF Missing
<1> QED BY <1>1, SyncAssumption, FS_Subset, FS_CardinalityType

-----------------------------------------------------------------------------
(* Type correctness. *)

LEMMA TypeInit == Init => TypeInv
<1> SUFFICES ASSUME Init PROVE TypeInv
  OBVIOUS
<1>1. <<>> \in Seq(Campaigns) /\ <<>> \in Seq(Ids)
  OBVIOUS
<1>2. PassOK
  BY <1>1 DEF Init, NoPass, PassOK
<1>3. RowsOK /\ CabinetOK
  BY <1>1 DEF Init, RowsOK, CabinetOK, Words
<1> QED BY <1>2, <1>3 DEF TypeInv

LEMMA MovedOK == ASSUME PassOK, Moved PROVE PassOK'
  BY DEF PassOK, Moved

LEMMA TypeCabinet ==
    ASSUME TypeInv, NEW e \in Ids,
           \/ LaunchCreates(e) \/ LaunchWrites(e) \/ LaunchLosesRow(e)
           \/ SomebodyAdds(e) \/ SomebodyRemoves(e) \/ SomebodySwitches(e)
    PROVE  TypeInv'
<1>1. PassOK'
  BY MovedOK DEF TypeInv, LaunchCreates, LaunchWrites, LaunchLosesRow, SomebodyAdds, SomebodyRemoves,
                 SomebodySwitches, Moves
<1>2. RowsOK'
  BY DEF TypeInv, RowsOK, LaunchCreates, LaunchWrites, LaunchLosesRow, SomebodyAdds, SomebodyRemoves,
         SomebodySwitches
<1>3. words' \in [Ids -> Words] /\ created' \in SUBSET Ids
  BY DEF TypeInv, CabinetOK, Words, LaunchCreates, LaunchWrites, LaunchLosesRow, SomebodyAdds,
         SomebodyRemoves, SomebodySwitches
<1>4. cabinet' \in Seq(Ids)
  <2>1. CASE LaunchCreates(e) \/ SomebodyAdds(e)
    BY <2>1 DEF TypeInv, CabinetOK, LaunchCreates, SomebodyAdds
  <2>2. CASE SomebodyRemoves(e)
    <3>1. PICK i \in DOMAIN cabinet : cabinet' = RemoveAt(cabinet, i)
      BY <2>2 DEF SomebodyRemoves
    <3>2. i \in 1 .. Len(cabinet) /\ Len(cabinet) \in Nat
      BY DEF TypeInv, CabinetOK
    <3>3. SubSeq(cabinet, 1, i - 1) \in Seq(Ids) /\ SubSeq(cabinet, i + 1, Len(cabinet)) \in Seq(Ids)
      BY <3>2 DEF TypeInv, CabinetOK
    <3> QED BY <3>1, <3>3 DEF RemoveAt
  <2>3. CASE LaunchWrites(e) \/ LaunchLosesRow(e) \/ SomebodySwitches(e)
    BY <2>3 DEF TypeInv, CabinetOK, LaunchWrites, LaunchLosesRow, SomebodySwitches
  <2> QED BY <2>1, <2>2, <2>3
<1> QED BY <1>1, <1>2, <1>3, <1>4 DEF TypeInv, CabinetOK

LEMMA TypePass ==
    ASSUME TypeInv, SyncNext \/ ListWithoutCount \/ ListFails
    PROVE  TypeInv'
<1>0. NoPass \in [pc : {"idle", "list", "write", "archive"}, offset : Nat, got : Seq(Campaigns),
                  todo : Seq(Campaigns), candidates : Nat, moved : BOOLEAN, short : BOOLEAN]
  <2>1. <<>> \in Seq(Campaigns)
    OBVIOUS
  <2> QED BY <2>1 DEF NoPass
<1>1. CabinetOK'
  BY DEF TypeInv, CabinetOK, SyncNext, Begin, ListPage, Write, Count, Archive, ListWithoutCount, ListFails, Pass
<1>2. RowsOK'
  <2>1. CASE Write
    <3>1. Head(sync.todo) \in Campaigns
      BY <2>1 DEF Write, TypeInv, PassOK
    <3>2. Put(rows[Head(sync.todo).id], Head(sync.todo).word) \in {"ACTIVE", "PAUSED"}
      BY <3>1, StatusRange DEF Put, Campaigns
    <3> QED BY <2>1, <3>2 DEF Write, TypeInv, RowsOK
  <2>2. CASE Archive
    BY <2>2 DEF Archive, TypeInv, RowsOK
  <2>3. CASE Begin \/ ListPage \/ Count \/ ListWithoutCount \/ ListFails
    BY <2>3 DEF Begin, ListPage, Count, ListWithoutCount, ListFails, TypeInv, RowsOK
  <2> QED BY <2>1, <2>2, <2>3 DEF SyncNext
<1>3. PassOK'
  <2>1. CASE Begin
    BY <1>0, <2>1 DEF Begin, Pass, PassOK
  <2>2. CASE ListPage
    <3>1. (Page = <<>> \/ NextOffset(Page) >= Len(cabinet)) \in BOOLEAN
      OBVIOUS
    <3> QED BY <2>2, <3>1, ListedOK DEF ListPage, Pass, PassOK
  <2>3. CASE ListWithoutCount
    <3>1. (Page # <<>>) \in BOOLEAN
      OBVIOUS
    <3> QED BY <2>3, <3>1, ListedOK DEF ListWithoutCount, Pass, PassOK
  <2>4. CASE ListFails \/ Archive
    BY <1>0, <2>4 DEF ListFails, Archive, Pass, PassOK
  <2>5. CASE Write
    <3>1. Tail(sync.todo) \in Seq(Campaigns)
      BY <2>5 DEF Write, TypeInv, PassOK
    <3> QED BY <2>5, <3>1 DEF Write, Pass, TypeInv, PassOK
  <2>6. CASE Count
    BY <1>0, <2>6, MissingIsFinite DEF Count, Pass, TypeInv, PassOK
  <2> QED BY <2>1, <2>2, <2>3, <2>4, <2>5, <2>6 DEF SyncNext
<1> QED BY <1>1, <1>2, <1>3 DEF TypeInv

LEMMA TypeStep == TypeInv /\ [Next]_syncVars => TypeInv'
<1> SUFFICES ASSUME TypeInv, [Next]_syncVars PROVE TypeInv'
  OBVIOUS
<1>1. CASE UNCHANGED syncVars
  BY <1>1 DEF syncVars, TypeInv, PassOK, RowsOK, CabinetOK
<1>2. CASE Next
  BY <1>2, TypeCabinet, TypePass DEF Next
<1> QED BY <1>1, <1>2

\* The cabinet, the rows and the pass have their types (TypeOK).
THEOREM TypeCorrect == Spec => []TypeOK
<1>1. TypeInv => TypeOK
  <2> SUFFICES ASSUME TypeInv PROVE TypeOK
    OBVIOUS
  <2>1. Live \subseteq Ids
    BY DEF Live, Range, TypeInv, CabinetOK
  <2> QED BY <2>1 DEF TypeInv, PassOK, RowsOK, CabinetOK, TypeOK
<1> QED BY <1>1, TypeInit, TypeStep, PTL DEF Spec

-----------------------------------------------------------------------------
(* What a pass has listed.  The pages have no gap between them as long as  *)
(* nothing moves: the offset counts what was got, and what was got is what *)
(* the cabinet has up to there.                                            *)

CoverInv ==
    /\ sync.pc = "list" /\ ~sync.moved =>
          /\ ~sync.short
          /\ sync.offset = Len(sync.got)
          /\ sync.offset <= Len(cabinet)
          /\ \A i \in 1 .. sync.offset : sync.got[i].id = cabinet[i]
    /\ sync.pc \in {"write", "archive"} /\ ~sync.moved /\ ~sync.short => Live \subseteq Seen

\* While a pass is under way, nobody moves unnoticed.
LEMMA CoverMoved ==
    ASSUME TypeInv, CoverInv, Moved
    PROVE  CoverInv'
<1>1. sync'.pc = sync.pc /\ sync'.moved = (sync.pc # "idle")
  BY DEF Moved, TypeInv, PassOK
<1> QED BY <1>1 DEF CoverInv

\* What the next page adds.
LEMMA CoverPage ==
    ASSUME TypeInv, CoverInv, sync.pc = "list", ~sync.moved
    PROVE  /\ sync.got \o Page \in Seq(Campaigns)
           /\ Len(sync.got \o Page) = NextOffset(Page)
           /\ NextOffset(Page) <= Len(cabinet)
           /\ \A i \in 1 .. NextOffset(Page) : (sync.got \o Page)[i].id = cabinet[i]
<1>1. /\ sync.got \in Seq(Campaigns) /\ sync.offset = Len(sync.got) /\ sync.offset <= Len(cabinet)
      /\ sync.offset \in Nat /\ Len(cabinet) \in Nat
      /\ \A i \in 1 .. sync.offset : sync.got[i].id = cabinet[i]
  BY DEF TypeInv, PassOK, CabinetOK, CoverInv
<1>2. /\ Page \in Seq(Campaigns) /\ Len(Page) = PageLen /\ PageLen \in Nat
      /\ \A i \in 1 .. PageLen : Page[i].id = cabinet[sync.offset + i]
      /\ PageLen > 0 => sync.offset + PageLen <= Len(cabinet)
  BY PageIsNext
<1>3. NextOffset(Page) = sync.offset + PageLen
  BY <1>2 DEF NextOffset
<1> HIDE DEF Page
<1>4. sync.got \o Page \in Seq(Campaigns) /\ Len(sync.got \o Page) = NextOffset(Page)
  <2>1. sync.got \o Page \in Seq(Campaigns)
    BY <1>1, <1>2, ConcatProperties
  <2>2. Len(sync.got \o Page) = Len(sync.got) + Len(Page)
    BY <1>1, <1>2, ConcatProperties
  <2> QED BY <1>1, <1>2, <1>3, <2>1, <2>2
<1>5. NextOffset(Page) <= Len(cabinet)
  BY <1>1, <1>2, <1>3
<1>6. ASSUME NEW i \in 1 .. NextOffset(Page)
      PROVE  (sync.got \o Page)[i].id = cabinet[i]
  <2>1. CASE i <= sync.offset
    BY <1>1, <1>2, <1>3, <2>1
  <2>2. CASE i > sync.offset
    <3>1. i - sync.offset \in 1 .. PageLen
      BY <1>1, <1>2, <1>3, <2>2
    <3>2. (sync.got \o Page)[i] = Page[i - sync.offset]
      BY <1>1, <1>2, <1>3, <2>2
    <3>3. Page[i - sync.offset].id = cabinet[sync.offset + (i - sync.offset)]
      BY <1>2, <3>1
    <3>4. sync.offset + (i - sync.offset) = i
      BY <1>1
    <3> QED BY <3>2, <3>3, <3>4
  <2> QED BY <1>1, <1>2, <1>3, <2>1, <2>2
<1> QED BY <1>4, <1>5, <1>6

\* Pages up to the end have all of the cabinet.
LEMMA CoverAll ==
    ASSUME TypeInv, NEW got \in Seq(Campaigns), Len(got) >= Len(cabinet),
           \A i \in 1 .. Len(cabinet) : got[i].id = cabinet[i]
    PROVE  Live \subseteq {got[i].id : i \in DOMAIN got}
<1>1. Len(cabinet) \in Nat /\ Len(got) \in Nat /\ DOMAIN cabinet = 1 .. Len(cabinet)
      /\ DOMAIN got = 1 .. Len(got)
  BY DEF TypeInv, CabinetOK
<1>2. \A i \in DOMAIN cabinet : i \in DOMAIN got /\ got[i].id = cabinet[i]
  BY <1>1
<1> QED BY <1>2 DEF Live, Range

\* A page that is not the last.
LEMMA CoverGoesOn ==
    ASSUME TypeInv, CoverInv, sync.pc = "list", UNCHANGED cabinet, sync' = Listed(Page, FALSE)
    PROVE  CoverInv'
<1> DEFINE got == sync.got \o Page
<1>1. sync' = [sync EXCEPT !.offset = NextOffset(Page), !.got = got]
  BY DEF Listed
<1> HIDE DEF got
<1>2. /\ sync'.pc = "list" /\ sync'.got = got /\ sync'.moved = sync.moved /\ sync'.short = sync.short
      /\ sync'.offset = NextOffset(Page)
  BY <1>1 DEF TypeInv, PassOK
<1>3. ASSUME ~sync'.moved
      PROVE  /\ ~sync'.short
             /\ sync'.offset = Len(sync'.got)
             /\ sync'.offset <= Len(cabinet')
             /\ \A i \in 1 .. sync'.offset : sync'.got[i].id = cabinet'[i]
  <2>1. /\ Len(got) = NextOffset(Page) /\ NextOffset(Page) <= Len(cabinet)
        /\ \A i \in 1 .. NextOffset(Page) : got[i].id = cabinet[i]
    BY <1>2, <1>3, CoverPage DEF got
  <2>2. ~sync.short
    BY <1>2, <1>3 DEF CoverInv
  <2> QED BY <1>2, <2>1, <2>2
<1> QED BY <1>2, <1>3 DEF CoverInv

\* A page that ends the listing.
LEMMA CoverEnds ==
    ASSUME TypeInv, CoverInv, sync.pc = "list", NEW short \in BOOLEAN, UNCHANGED cabinet,
           sync' = Listed(Page, TRUE) \/ sync' = [Listed(Page, TRUE) EXCEPT !.short = short],
           sync'.short \/ Page = <<>> \/ NextOffset(Page) >= Len(cabinet)
    PROVE  CoverInv'
<1> DEFINE got == sync.got \o Page
<1>1. Listed(Page, TRUE) = [sync EXCEPT !.pc = "write", !.got = got, !.todo = got]
  BY DEF Listed
<1> HIDE DEF got
<1>2. /\ sync'.pc = "write" /\ sync'.got = got /\ sync'.moved = sync.moved
  <2> DEFINE listed == Listed(Page, TRUE)
  <2>1. listed.pc = "write" /\ listed.got = got /\ listed.moved = sync.moved
    BY <1>1 DEF TypeInv, PassOK
  <2>2. sync' = listed \/ sync' = [listed EXCEPT !.short = short]
    OBVIOUS
  <2>3. listed \in [pc : {"idle", "list", "write", "archive"}, offset : Nat, got : Seq(Campaigns),
                    todo : Seq(Campaigns), candidates : Nat, moved : BOOLEAN, short : BOOLEAN]
    BY ListedOK
  <2> HIDE DEF listed
  <2> QED BY <2>1, <2>2, <2>3
<1>3. ASSUME ~sync'.moved, ~sync'.short PROVE Live \subseteq Seen'
  <2>1. /\ got \in Seq(Campaigns) /\ Len(got) = NextOffset(Page) /\ NextOffset(Page) <= Len(cabinet)
        /\ \A i \in 1 .. NextOffset(Page) : got[i].id = cabinet[i]
    BY <1>2, <1>3, CoverPage DEF got
  <2>2. NextOffset(Page) >= Len(cabinet)
    <3>1. CASE Page = <<>>
      <4>1. PageLen = 0 /\ sync.offset >= Len(cabinet)
        BY <3>1, PageIsNext
      <4> QED BY <3>1, <4>1 DEF NextOffset, TypeInv, PassOK
    <3> QED BY <1>3, <3>1
  <2>3. Len(cabinet) \in Nat /\ NextOffset(Page) \in Nat
    BY <2>1 DEF TypeInv, CabinetOK
  <2>4. Live \subseteq {got[i].id : i \in DOMAIN got}
    BY <2>1, <2>2, <2>3, CoverAll
  <2> QED BY <1>2, <2>4 DEF Seen
<1>4. Live' = Live
  BY DEF Live
<1> QED BY <1>2, <1>3, <1>4 DEF CoverInv

LEMMA CoverStep == TypeInv /\ CoverInv /\ [Next]_syncVars => CoverInv'
<1> SUFFICES ASSUME TypeInv, CoverInv, [Next]_syncVars PROVE CoverInv'
  OBVIOUS
<1>1. CASE UNCHANGED syncVars
  BY <1>1 DEF syncVars, CoverInv, Live, Seen
<1>2. CASE \E e \in Ids : \/ LaunchCreates(e) \/ LaunchWrites(e) \/ LaunchLosesRow(e)
                          \/ SomebodyAdds(e) \/ SomebodyRemoves(e) \/ SomebodySwitches(e)
  <2>1. Moved
    BY <1>2 DEF LaunchCreates, LaunchWrites, LaunchLosesRow, SomebodyAdds, SomebodyRemoves,
                SomebodySwitches, Moves
  <2> QED BY <2>1, CoverMoved
<1>3. CASE Begin
  <2>1. /\ sync'.pc = "list" /\ ~sync'.short /\ sync'.offset = 0 /\ sync'.got = <<>>
    BY <1>3 DEF Begin, Pass, NoPass
  <2>2. cabinet' = cabinet /\ Len(cabinet) \in Nat
    BY <1>3 DEF Begin, Pass, TypeInv, CabinetOK
  <2> QED BY <2>1, <2>2 DEF CoverInv
<1>4. CASE ListPage
  <2>1. UNCHANGED cabinet /\ sync.pc = "list"
    BY <1>4 DEF ListPage, Pass
  <2>2. \/ sync' = Listed(Page, TRUE) /\ (Page = <<>> \/ NextOffset(Page) >= Len(cabinet))
        \/ sync' = Listed(Page, FALSE)
    BY <1>4 DEF ListPage, Pass, Listed
  <2>3. TRUE \in BOOLEAN
    OBVIOUS
  <2>4. CASE sync' = Listed(Page, TRUE) /\ (Page = <<>> \/ NextOffset(Page) >= Len(cabinet))
    BY <2>1, <2>3, <2>4, CoverEnds
  <2>5. CASE sync' = Listed(Page, FALSE)
    BY <2>1, <2>5, CoverGoesOn
  <2> QED BY <2>2, <2>4, <2>5
<1>5. CASE ListWithoutCount
  <2> DEFINE short == Page # <<>>
  <2>1. sync' = [Listed(Page, TRUE) EXCEPT !.short = short] /\ UNCHANGED cabinet /\ sync.pc = "list"
    BY <1>5 DEF ListWithoutCount, Pass
  <2>2. short \in BOOLEAN
    OBVIOUS
  <2>3. sync'.short = short
    BY <2>1, <2>2, ListedOK
  <2>4. sync'.short \/ Page = <<>>
    BY <2>3
  <2> HIDE DEF short
  <2> QED BY <2>1, <2>2, <2>4, CoverEnds
<1>6. CASE ListFails \/ Archive
  <2>1. sync'.pc = "idle"
    BY <1>6 DEF ListFails, Archive, Pass, NoPass
  <2> QED BY <2>1 DEF CoverInv
<1>7. CASE Write
  <2>1. /\ sync.pc = "write" /\ sync'.pc = "write" /\ sync'.got = sync.got /\ sync'.moved = sync.moved
        /\ sync'.short = sync.short /\ cabinet' = cabinet
    BY <1>7 DEF Write, Pass, TypeInv, PassOK
  <2> QED BY <2>1 DEF CoverInv, Live, Seen
<1>8. CASE Count
  <2>1. sync.pc = "write" /\ cabinet' = cabinet
    BY <1>8 DEF Count, Pass
  <2>2. \/ sync'.pc = "idle"
        \/ /\ sync'.pc = "archive" /\ sync'.got = sync.got /\ sync'.moved = sync.moved
           /\ sync'.short = sync.short
    <3>1. sync' = NoPass \/ sync' = [sync EXCEPT !.pc = "archive", !.candidates = Cardinality(Missing)]
      BY <1>8 DEF Count, Pass
    <3>2. CASE sync' = NoPass
      BY <3>2 DEF NoPass
    <3>3. CASE sync' = [sync EXCEPT !.pc = "archive", !.candidates = Cardinality(Missing)]
      BY <3>3 DEF TypeInv, PassOK
    <3> QED BY <3>1, <3>2, <3>3
  <2> QED BY <2>1, <2>2 DEF CoverInv, Live, Seen
<1> QED BY <1>1, <1>2, <1>3, <1>4, <1>5, <1>6, <1>7, <1>8 DEF Next, SyncNext

\* Only the archiving step of a pass archives a row.
LEMMA OnlyArchiveArchives ==
    ASSUME TypeInv, [Next]_syncVars, ~Archive, NEW e \in Ids
    PROVE  ~Archived(e)
<1>1. CASE Write
  <2>1. Head(sync.todo) \in Campaigns
    BY <1>1 DEF Write, TypeInv, PassOK
  <2>2. Put(rows[Head(sync.todo).id], Head(sync.todo).word) \in {"ACTIVE", "PAUSED"}
    BY <2>1, StatusRange DEF Put, Campaigns
  <2> QED BY <1>1, <2>2 DEF Write, Archived, TypeInv, RowsOK
<1>2. CASE \E i \in Ids : LaunchWrites(i)
  BY <1>2 DEF LaunchWrites, Archived, TypeInv, RowsOK, Absent
<1>3. CASE rows' = rows
  BY <1>3 DEF Archived
<1> QED BY <1>1, <1>2, <1>3 DEF Next, SyncNext, Begin, ListPage, Count, ListWithoutCount, ListFails,
        LaunchCreates, LaunchLosesRow, SomebodyAdds, SomebodyRemoves, SomebodySwitches, syncVars

\* A campaign of the cabinet is not archived by a pass that saw it whole (LiveIsKept).
THEOREM LiveAreKept == Spec => LiveIsKept
<1>1. Init => CoverInv
  BY DEF Init, NoPass, CoverInv
<1>2. TypeInv /\ CoverInv /\ [Next]_syncVars =>
          [\A e \in Live : Archived(e) => sync.moved \/ sync.short]_syncVars
  <2> SUFFICES ASSUME TypeInv, CoverInv, [Next]_syncVars, NEW e \in Live, Archived(e)
               PROVE  sync.moved \/ sync.short
    OBVIOUS
  <2>1. e \in Ids
    BY DEF Live, Range, TypeInv, CabinetOK
  <2>2. Archive
    BY <2>1, OnlyArchiveArchives
  <2>3. sync.pc = "archive" /\ e \in Missing
    BY <2>1, <2>2 DEF Archive, Archived, TypeInv, RowsOK
  <2>4. e \notin Seen
    BY <2>3 DEF Missing
  <2> QED BY <2>3, <2>4 DEF CoverInv, TypeInv, PassOK
<1> QED BY <1>1, <1>2, TypeInit, TypeStep, CoverStep, PTL DEF Spec, LiveIsKept

-----------------------------------------------------------------------------
(* How much a pass archives.  Between its count and its update a launch    *)
(* may write drafts and nothing else.                                      *)

Doomed == {e \in Missing : rows[e] # "DRAFT"}

HalfInv == sync.pc = "archive" => Cardinality(Doomed) <= Cardinality(Seen)

\* The share of those that would go, in those seen.
LEMMA ShareBound ==
    ASSUME NEW seen \in Nat, NEW candidates \in Nat, MayArchive(seen, candidates)
    PROVE  candidates <= seen
  BY DEF MayArchive, IF_!MayArchive

LEMMA SeenIsFinite == TypeInv => IsFiniteSet(Seen) /\ Cardinality(Seen) \in Nat
<1> SUFFICES ASSUME TypeInv PROVE IsFiniteSet(Seen) /\ Cardinality(Seen) \in Nat
  OBVIOUS
<1>1. Seen \subseteq Ids
  <2>1. \A i \in DOMAIN sync.got : sync.got[i] \in Campaigns
    BY DEF TypeInv, PassOK
  <2>2. \A c \in Campaigns : c.id \in Ids
    BY DEF Campaigns
  <2> QED BY <2>1, <2>2 DEF Seen
<1> QED BY <1>1, SyncAssumption, FS_Subset, FS_CardinalityType

LEMMA HalfStep == TypeInv /\ HalfInv /\ [Next]_syncVars => HalfInv'
<1> SUFFICES ASSUME TypeInv, HalfInv, [Next]_syncVars, sync'.pc = "archive"
             PROVE  Cardinality(Doomed') <= Cardinality(Seen')
  BY DEF HalfInv
<1>1. CASE Count
  <2>1. /\ MayArchive(Cardinality(Seen), Cardinality(Missing))
        /\ sync'.got = sync.got /\ rows' = rows
    <3>1. \/ sync' = NoPass
          \/ /\ sync' = [sync EXCEPT !.pc = "archive", !.candidates = Cardinality(Missing)]
             /\ MayArchive(Cardinality(Seen), Cardinality(Missing))
      BY <1>1 DEF Count, Pass
    <3>2. sync' # NoPass
      BY DEF NoPass
    <3>3. rows' = rows
      BY <1>1 DEF Count
    <3> QED BY <3>1, <3>2, <3>3 DEF TypeInv, PassOK
  <2>2. Cardinality(Missing) <= Cardinality(Seen)
    BY <2>1, ShareBound, MissingIsFinite, SeenIsFinite
  <2>3. Doomed \subseteq Missing
    BY DEF Doomed
  <2>4. Cardinality(Doomed) <= Cardinality(Missing) /\ Cardinality(Doomed) \in Nat
    BY <2>3, MissingIsFinite, FS_Subset, FS_CardinalityType
  <2>5. Doomed' = Doomed /\ Seen' = Seen
    BY <2>1 DEF Doomed, Missing, Seen
  <2> QED BY <2>2, <2>4, <2>5, MissingIsFinite, SeenIsFinite
<1>2. CASE ~Count
  <2>1. /\ sync.pc = "archive" /\ sync'.got = sync.got
        /\ rows' = rows \/ \E e \in Ids : rows' = [rows EXCEPT ![e] = IF @ = Absent THEN "DRAFT" ELSE @]
    <3>1. CASE UNCHANGED syncVars
      BY <3>1 DEF syncVars
    <3>2. CASE \E e \in Ids : \/ LaunchCreates(e) \/ LaunchWrites(e) \/ LaunchLosesRow(e)
                              \/ SomebodyAdds(e) \/ SomebodyRemoves(e) \/ SomebodySwitches(e)
      <4>1. Moved
        BY <3>2 DEF LaunchCreates, LaunchWrites, LaunchLosesRow, SomebodyAdds, SomebodyRemoves,
                    SomebodySwitches, Moves
      <4>2. rows' = rows \/ \E e \in Ids : rows' = [rows EXCEPT ![e] = IF @ = Absent THEN "DRAFT" ELSE @]
        BY <3>2 DEF LaunchCreates, LaunchWrites, LaunchLosesRow, SomebodyAdds, SomebodyRemoves, SomebodySwitches
      <4> QED BY <4>1, <4>2 DEF Moved, TypeInv, PassOK
    <3>3. CASE Begin \/ ListFails \/ Archive \/ Write
      BY <3>3 DEF Begin, ListFails, Archive, Write, Pass, NoPass, TypeInv, PassOK
    <3>4. CASE ListPage \/ ListWithoutCount
      <4>1. sync'.pc # "archive"
        <5>1. \A last \in BOOLEAN, short \in BOOLEAN :
                  Listed(Page, last).pc # "archive" /\ [Listed(Page, last) EXCEPT !.short = short].pc # "archive"
          <6> SUFFICES ASSUME NEW last \in BOOLEAN, NEW short \in BOOLEAN, sync.pc = "list"
                       PROVE  /\ Listed(Page, last).pc # "archive"
                              /\ [Listed(Page, last) EXCEPT !.short = short].pc = Listed(Page, last).pc
            BY <3>4 DEF ListPage, ListWithoutCount
          <6>1. Listed(Page, last).pc \in {"write", "list"}
            BY DEF Listed, TypeInv, PassOK
          <6> QED BY <6>1, ListedOK
        <5>2. (Page = <<>> \/ NextOffset(Page) >= Len(cabinet)) \in BOOLEAN /\ (Page # <<>>) \in BOOLEAN
              /\ TRUE \in BOOLEAN
          OBVIOUS
        <5> QED BY <3>4, <5>1, <5>2 DEF ListPage, ListWithoutCount, Pass
      <4> QED BY <4>1
    <3> QED BY <1>2, <3>1, <3>2, <3>3, <3>4 DEF Next, SyncNext
  <2>2. Seen' = Seen
    BY <2>1 DEF Seen
  <2>3. Doomed' \subseteq Doomed
    BY <2>1, <2>2 DEF Doomed, Missing, TypeInv, RowsOK, Absent
  <2>4. IsFiniteSet(Doomed)
    <3>1. Doomed \subseteq Missing
      BY DEF Doomed
    <3> QED BY <3>1, MissingIsFinite, FS_Subset
  <2>5. /\ Cardinality(Doomed') <= Cardinality(Doomed)
        /\ Cardinality(Doomed) \in Nat /\ Cardinality(Doomed') \in Nat
    BY <2>3, <2>4, FS_Subset, FS_CardinalityType
  <2> QED BY <2>1, <2>2, <2>5, SeenIsFinite DEF HalfInv
<1> QED BY <1>1, <1>2

\* No pass archives more than it has seen, but for drafts (HalfStays).
THEOREM HalfIsKept == Spec => HalfStays
<1>1. Init => HalfInv
  BY DEF Init, NoPass, HalfInv
<1>2. TypeInv /\ HalfInv /\ [Next]_syncVars =>
          [Cardinality({e \in Ids : Archived(e) /\ rows[e] # "DRAFT"}) <= Cardinality(Seen)]_syncVars
  <2> SUFFICES ASSUME TypeInv, HalfInv, [Next]_syncVars
               PROVE  Cardinality({e \in Ids : Archived(e) /\ rows[e] # "DRAFT"}) <= Cardinality(Seen)
    OBVIOUS
  <2> DEFINE gone == {e \in Ids : Archived(e) /\ rows[e] # "DRAFT"}
  <2>1. CASE Archive
    <3>1. sync.pc = "archive" /\ gone = Doomed
      BY <2>1 DEF Archive, Archived, Doomed, Missing, TypeInv, RowsOK
    <3> QED BY <3>1 DEF HalfInv
  <2>2. CASE ~Archive
    <3>1. gone = {}
      BY <2>2, OnlyArchiveArchives
    <3> QED BY <3>1, SeenIsFinite, FS_EmptySet
  <2> QED BY <2>1, <2>2
<1> QED BY <1>1, <1>2, TypeInit, TypeStep, HalfStep, PTL DEF Spec, HalfStays
===============================================================================
