-------------------------- MODULE VenueEditorProofs --------------------------
(***************************************************************************)
(* Theorems about VenueEditor, for any layouts, requests, looks and bounds *)
(* and any length of the history: the types, that no save replaces a       *)
(* version its plan does not descend from, what undo restores, that no     *)
(* seat is stored in two rows, that a current plan can be saved, and that  *)
(* a save inserts no seat whose row it deletes.                            *)
(***************************************************************************)
EXTENDS VenueEditor, SequenceTheorems, TLAPS

(* A page that shows a layout has its id; a request under way has one and  *)
(* carries a plan, which for a save is what the tab showed.                *)
Addressed ==
    /\ page.screen # "list" => page.layout \in Layouts
    /\ \A c \in Calls :
          /\ call[c].kind # "idle" => call[c].layout \in Layouts
          /\ call[c].kind = "load" =>
                call[c].plan \in [seats : Seatings, look : Looks \cup {None}]
          /\ call[c].kind = "save" => call[c].plan \in Plans
          /\ call[c].step = "committed" => call[c].kind = "save"

TypeInv == TypeOK /\ Addressed

(* A seating is a function from seats to rows or to none. *)
LEMMA SeatingsAre ==
    /\ \A f : f \in Seatings <=>
          \E S \in SUBSET SeatIds : f \in [S -> Rows \cup {NoRow}]
    /\ NoSeats \in Seatings
  <1>1. NoSeats \in [{} -> Rows \cup {NoRow}]
    BY DEF NoSeats
  <1> QED
    BY <1>1 DEF Seatings

(* Seats that are added, with rows or without, leave a plan a plan. *)
LEMMA WithIsPlan ==
    ASSUME NEW p \in Plans, NEW N \in SUBSET SeatIds,
           NEW row \in [N -> Rows \cup {NoRow}]
    PROVE  With(p, N, row) \in Plans
  <1>1. PICK S \in SUBSET SeatIds : p.seats \in [S -> Rows \cup {NoRow}]
    BY SeatingsAre DEF Plans
  <1> DEFINE f == [s \in DOMAIN p.seats \cup N |->
                      IF s \in N THEN row[s] ELSE p.seats[s]]
  <1>2. f \in [S \cup N -> Rows \cup {NoRow}]
    BY <1>1
  <1>3. f \in Seatings
    BY <1>2, SeatingsAre
  <1> QED
    BY <1>3 DEF With, Plans

(* So do seats that go. *)
LEMMA KeepIsPlan ==
    ASSUME NEW p \in Plans, NEW S \in SUBSET DOMAIN p.seats
    PROVE  Keep(p, S) \in Plans
  <1>1. PICK T \in SUBSET SeatIds : p.seats \in [T -> Rows \cup {NoRow}]
    BY SeatingsAre DEF Plans
  <1> DEFINE f == [s \in S |-> p.seats[s]]
  <1>2. f \in [S -> Rows \cup {NoRow}] /\ S \in SUBSET SeatIds
    BY <1>1
  <1>3. f \in Seatings
    BY <1>2, SeatingsAre
  <1> QED
    BY <1>3 DEF Keep, Plans

(* The ids a gesture may make are seat ids. *)
LEMMA FreshAreSeats == ASSUME NEW N \in FreshSets PROVE N \in SUBSET SeatIds
  BY DEF FreshSets, SeatIds

(* Every operation of the store leads from plans to plans. *)
LEMMA OperationsMakePlans ==
    ASSUME NEW p \in Plans
    PROVE  /\ Added(p) \subseteq Plans
           /\ Deleted(p) \subseteq Plans
           /\ Resized(p) \subseteq Plans
           /\ Filled(p) \subseteq Plans
           /\ RowDuplicated(p) \subseteq Plans
           /\ Restyled(p) \subseteq Plans
  <1>1. \A N : Unstored(N) \in [N -> Rows \cup {NoRow}]
    BY DEF Unstored
  <1>2. Added(p) \subseteq Plans
    BY <1>1, WithIsPlan, FreshAreSeats DEF Added
  <1>3. Deleted(p) \subseteq Plans
    BY KeepIsPlan DEF Deleted
  <1>4. Filled(p) \subseteq Plans
    BY <1>1, KeepIsPlan, WithIsPlan, FreshAreSeats DEF Filled
  <1>5. RowDuplicated(p) \subseteq Plans
    <2> SUFFICES ASSUME NEW q \in RowDuplicated(p) PROVE q \in Plans
      OBVIOUS
    <2> DEFINE Copies(N) ==
                 {With(p, N, [n \in N |-> p.seats[f[n]]]) :
                    f \in {g \in [N -> DOMAIN p.seats] :
                              \A m, n \in N : g[m] = g[n] => m = n}}
    <2>0. PICK N \in FreshSets : q \in Copies(N)
      <3>1. RowDuplicated(p) = UNION {Copies(N) : N \in FreshSets \ {{}}}
        BY Zenon DEF RowDuplicated
      <3> HIDE DEF Copies
      <3> QED
        BY <3>1
    <2>1. PICK f \in [N -> DOMAIN p.seats] :
             q = With(p, N, [n \in N |-> p.seats[f[n]]])
      BY <2>0
    <2>2. PICK S \in SUBSET SeatIds : p.seats \in [S -> Rows \cup {NoRow}]
      BY SeatingsAre DEF Plans
    <2>3. [n \in N |-> p.seats[f[n]]] \in [N -> Rows \cup {NoRow}]
      BY <2>2
    <2> QED
      BY <2>1, <2>3, WithIsPlan, FreshAreSeats
  <1>6. Restyled(p) \subseteq Plans
    BY DEF Restyled, Plans
  <1> QED
    BY <1>2, <1>3, <1>4, <1>5, <1>6 DEF Resized

(* Recent keeps snapshots and leaves room for one. *)
LEMMA RecentShort ==
    ASSUME NEW S, NEW h \in Seq(S), Len(h) <= MaxPast
    PROVE  Recent(h) \in Seq(S) /\ Len(Recent(h)) <= MaxPast - 1
  <1> USE VenueEditorAssumption
  <1>1. Len(h) \in Nat
    BY LenProperties
  <1>2. CASE Len(h) > MaxPast - 1
    <2>1. Len(h) - MaxPast + 2 \in 1..(Len(h) + 1)
      BY <1>1, <1>2
    <2> QED
      BY <1>1, <1>2, <2>1, SubSeqProperties DEF Recent
  <1>3. CASE ~(Len(h) > MaxPast - 1)
    BY <1>1, <1>3, SubSeqProperties DEF Recent
  <1> QED
    BY <1>2, <1>3

(* Latest keeps snapshots, MaxPast of them at most. *)
LEMMA LatestShort ==
    ASSUME NEW S, NEW h \in Seq(S)
    PROVE  Latest(h) \in Seq(S) /\ Len(Latest(h)) <= MaxPast
  <1> USE VenueEditorAssumption
  <1>1. Len(h) \in Nat /\ MaxPast \in Nat /\ MaxPast >= 2
    BY LenProperties
  <1>2. CASE Len(h) > MaxPast
    <2>1. Len(h) - MaxPast + 1 \in 1..(Len(h) + 1)
      BY <1>1, <1>2
    <2> QED
      BY <1>1, <1>2, <2>1, SubSeqProperties DEF Latest
  <1>3. CASE ~(Len(h) > MaxPast)
    BY <1>1, <1>3, SubSeqProperties DEF Latest
  <1> QED
    BY <1>2, <1>3

(* The history holds at least two snapshots. *)
LEMMA PastBound == MaxPast \in Nat /\ MaxPast >= 2
  BY VenueEditorAssumption

(* What undo and redo do to a sequence: the last entry goes, one comes in  *)
(* front.                                                                  *)
LEMMA LastGoes ==
    ASSUME NEW S, NEW s \in Seq(S), s # <<>>
    PROVE  /\ Len(s) \in Nat \ {0} /\ s[Len(s)] \in S
           /\ SubSeq(s, 1, Len(s) - 1) \in Seq(S)
           /\ Len(SubSeq(s, 1, Len(s) - 1)) = Len(s) - 1
  <1>1. Len(s) \in Nat \ {0}
    BY EmptySeq
  <1>2. Len(s) \in 1..Len(s)
    BY <1>1
  <1>3. s[Len(s)] \in S
    BY <1>2, ElementOfSeq
  <1>4. \A i \in 1..(Len(s) - 1) : s[i] \in S
    BY <1>1, ElementOfSeq
  <1> DEFINE n == Len(s) - 1
  <1>5. n \in Nat /\ 1 \in Int /\ n \in Int
    BY <1>1
  <1> HIDE DEF n
  <1>6. \A i \in 1..n : s[i] \in S
    BY <1>4 DEF n
  <1>7. /\ SubSeq(s, 1, n) \in Seq(S)
        /\ Len(SubSeq(s, 1, n)) = IF 1 <= n THEN n - 1 + 1 ELSE 0
    BY <1>5, <1>6, SubSeqProperties
  <1>8. Len(SubSeq(s, 1, n)) = n
    BY <1>5, <1>7
  <1> QED
    BY <1>1, <1>3, <1>7, <1>8 DEF n

(* A sequence of one. *)
LEMMA OneEntry == ASSUME NEW S, NEW e \in S PROVE <<e>> \in Seq(S) /\ Len(<<e>>) = 1
  OBVIOUS

(* An entry comes in front. *)
LEMMA FirstComes ==
    ASSUME NEW S, NEW e \in S, NEW s \in Seq(S)
    PROVE  <<e>> \o s \in Seq(S) /\ Len(<<e>> \o s) = Len(s) + 1
  <1>1. <<e>> \in Seq(S) /\ Len(<<e>>) = 1
    BY OneEntry
  <1>2. Len(s) \in Nat
    BY LenProperties
  <1>3. /\ <<e>> \o s \in Seq(S)
        /\ Len(<<e>> \o s) = Len(<<e>>) + Len(s)
    BY <1>1, ConcatProperties
  <1> QED
    BY <1>1, <1>2, <1>3

(* A new entry keeps the history within its length. *)
LEMMA SaveHistoryTypes ==
    ASSUME TypeInv, SaveHistory
    PROVE  /\ past' \in Seq(Plans) /\ future' \in Seq(Plans)
           /\ Len(past') + Len(future') <= MaxPast
           /\ past' # <<>> /\ past'[Len(past')] = plan
  <1>1. Len(past) \in Nat /\ Len(future) \in Nat /\ Len(past) <= MaxPast
    BY VenueEditorAssumption, LenProperties DEF TypeInv, TypeOK
  <1>2. Recent(past) \in Seq(Plans) /\ Len(Recent(past)) <= MaxPast - 1
    BY <1>1, RecentShort DEF TypeInv, TypeOK
  <1>3. past' = Append(Recent(past), plan) /\ plan \in Plans
    BY DEF SaveHistory, TypeInv, TypeOK
  <1>4. /\ past' \in Seq(Plans) /\ Len(past') = Len(Recent(past)) + 1
        /\ past'[Len(past')] = plan
    BY <1>2, <1>3, AppendProperties
  <1>5. future' = <<>> /\ Len(<<>>) = 0
    BY EmptySeq DEF SaveHistory
  <1>6. Len(Recent(past)) \in Nat
    BY <1>2, LenProperties
  <1> QED
    BY <1>2, <1>4, <1>5, <1>6, VenueEditorAssumption

----------------------------------------------------------------------------
(* What the operations of the page leave of the types. *)

(* A gesture keeps the types if its selection does. *)
LEMMA GestureTypes ==
    ASSUME TypeInv, NEW P, P \subseteq Plans, Gesture(P), drag' \in Drags
    PROVE  TypeInv'
  <1>1. plan \in Plans /\ plan' \in Plans /\ made' \subseteq 1..MaxSeats
    BY DEF Gesture, Drawn, TypeInv, TypeOK
  <1>2. /\ past' \in Seq(Plans) /\ future' \in Seq(Plans)
        /\ Len(past') + Len(future') <= MaxPast
    BY SaveHistoryTypes DEF Gesture
  <1> QED
    BY <1>1, <1>2 DEF Gesture, Counted, TypeInv, TypeOK, Addressed, Editing,
       server, history

(* So does a change without an entry. *)
LEMMA UnrecordedTypes ==
    ASSUME TypeInv, NEW P, P \subseteq Plans, Unrecorded(P)
    PROVE  TypeInv'
  <1>1. plan' \in Plans /\ made' \subseteq 1..MaxSeats
    BY DEF Unrecorded, Drawn, TypeInv, TypeOK
  <1> QED
    BY <1>1 DEF Unrecorded, Counted, TypeInv, TypeOK, Addressed, Editing,
       server, history

(* So does an entry without a change. *)
LEMMA EntryOnlyTypes == ASSUME TypeInv, EntryOnly PROVE TypeInv'
  <1>1. /\ past' \in Seq(Plans) /\ future' \in Seq(Plans)
        /\ Len(past') + Len(future') <= MaxPast
    BY SaveHistoryTypes DEF EntryOnly
  <1> QED
    BY <1>1 DEF EntryOnly, Counted, TypeInv, TypeOK, Addressed, Editing,
       server, history

(* The selection after a plan was replaced. *)
LEMMA DeselectedTypes ==
    ASSUME drag \in Drags, NEW p, Deselected(p) PROVE drag' \in Drags
  BY Zenon DEF Deselected, Drags

(* A restored plan keeps the types if the history does. *)
LEMMA RestoredTypes ==
    ASSUME TypeInv, NEW p \in Plans, Restored(p),
           past' \in Seq(Plans), future' \in Seq(Plans),
           Len(past') + Len(future') <= MaxPast
    PROVE  TypeInv'
  <1>1. drag' \in Drags
    BY DeselectedTypes DEF Restored, TypeInv, TypeOK
  <1>2. doubt' \subseteq {"rewound", "late", "overtaken"}
    BY DEF Restored, TypeInv, TypeOK
  <1> QED
    BY <1>1, <1>2 DEF Restored, Counted, TypeInv, TypeOK, Addressed, Editing,
       server

(* What the pointer and the keyboard do to the selection. *)
LEMMA SelectionTypes ==
    ASSUME drag \in Drags
    PROVE  /\ \A b \in BOOLEAN : [drag EXCEPT !.multi = b] \in Drags
           /\ \A b \in BOOLEAN :
                 [drag EXCEPT !.multi = b, !.down = TRUE, !.moved = FALSE] \in Drags
           /\ [drag EXCEPT !.multi = FALSE, !.down = FALSE, !.moved = FALSE,
                           !.cut = @ \/ drag.active] \in Drags
           /\ [drag EXCEPT !.active = TRUE, !.moved = TRUE] \in Drags
           /\ [drag EXCEPT !.down = FALSE, !.moved = FALSE, !.active = FALSE,
                           !.cut = FALSE] \in Drags
           /\ [drag EXCEPT !.down = FALSE, !.moved = FALSE] \in Drags
           /\ NoDrag \in Drags
  BY DEF Drags, NoDrag

(* The operations of the canvas and the panels keep the types. *)
LEMMA EditTypes == ASSUME TypeInv, Edit PROVE TypeInv'
  <1>1. plan \in Plans /\ drag \in Drags
    BY DEF TypeInv, TypeOK
  <1>2. /\ Added(plan) \subseteq Plans /\ Deleted(plan) \subseteq Plans
        /\ Resized(plan) \subseteq Plans /\ Filled(plan) \subseteq Plans
        /\ RowDuplicated(plan) \subseteq Plans /\ Restyled(plan) \subseteq Plans
    BY <1>1, OperationsMakePlans
  <1>3. CASE CanvasPointer
    <2>1. CASE Gesture(Added(plan) \cup Restyled(plan)) /\ Select(FALSE)
      <3>1. drag' \in Drags
        BY SelectionTypes, <1>1, <2>1 DEF Select
      <3> QED
        BY <1>2, <2>1, <3>1, GestureTypes
    <2>2. CASE /\ Editing
               /\ \E b \in BOOLEAN : (b => SeveralSeats) /\ Select(b)
               /\ UNCHANGED <<page, store, file, call, server, history, gesture,
                              made, acts>>
      <3>1. drag' \in Drags
        BY SelectionTypes, <1>1, <2>2 DEF Select
      <3> QED
        BY <2>2, <3>1 DEF TypeInv, TypeOK, Addressed, Editing, store, server,
           history
    <2> QED
      BY <1>3, <2>1, <2>2 DEF CanvasPointer
  <1>4. CASE KeyDown
    <2>1. drag' \in Drags
      BY SelectionTypes, <1>1, <1>4 DEF KeyDown
    <2> QED
      BY <1>2, <1>4, <2>1, GestureTypes DEF KeyDown
  <1>5. CASE SeatMenu
    <2>1. Added(plan) \cup RowDuplicated(plan) \cup Deleted(plan) \subseteq Plans
      BY <1>2
    <2> QED
      BY <1>1, <1>5, <2>1, GestureTypes DEF SeatMenu
  <1>6. CASE SectionMenu
    <2>1. Restyled(plan) \cup Filled(plan) \subseteq Plans
      BY <1>2
    <2> QED
      BY <1>1, <1>2, <1>6, <2>1, GestureTypes, UnrecordedTypes, EntryOnlyTypes
         DEF SectionMenu
  <1>7. CASE DragShape
    BY <1>1, <1>2, <1>7, GestureTypes DEF DragShape
  <1>8. CASE DragFacility
    BY <1>1, <1>2, <1>8, GestureTypes, UnrecordedTypes DEF DragFacility
  <1>9. CASE PressSeat
    <2>1. drag' \in Drags
      BY SelectionTypes, <1>1, <1>9 DEF PressSeat
    <2> QED
      BY <1>9, <2>1 DEF PressSeat, TypeInv, TypeOK, Addressed, Editing, store,
         server, history
  <1>10. CASE MoveGroup
    <2>1. drag' \in Drags
      BY SelectionTypes, <1>1, <1>10 DEF MoveGroup
    <2>2. plan' \in Plans /\ made' \subseteq 1..MaxSeats
      BY <1>2, <1>10 DEF MoveGroup, Drawn, TypeInv, TypeOK
    <2>3. /\ past' \in Seq(Plans) /\ future' \in Seq(Plans)
          /\ Len(past') + Len(future') <= MaxPast
      BY <1>10, SaveHistoryTypes DEF MoveGroup, TypeInv, TypeOK
    <2>4. gesture' \in Plans \cup {None}
      BY <1>10 DEF MoveGroup, TypeInv, TypeOK
    <2>5. /\ Editing /\ acts' \in Nat
          /\ UNCHANGED <<page, layout, token, file, call, server, history>>
      BY <1>10 DEF MoveGroup, Counted, TypeInv, TypeOK
    <2> QED
      BY <2>1, <2>2, <2>3, <2>4, <2>5 DEF TypeInv, TypeOK, Addressed, Editing,
         server, history
  <1>11. CASE ReleaseSeat
    <2>1. drag' \in Drags
      BY SelectionTypes, <1>1, <1>11 DEF ReleaseSeat
    <2>2. CASE Gesture(Restyled(plan))
      BY <1>2, <2>1, <2>2, GestureTypes
    <2>3. CASE Editing /\ UNCHANGED <<page, store, file, call, server, history,
                                      gesture, made, acts>>
      BY <2>1, <2>3 DEF TypeInv, TypeOK, Addressed, Editing, store, server, history
    <2> QED
      BY <1>11, <2>2, <2>3 DEF ReleaseSeat
  <1>12. CASE ArrangePanel
    <2>1. CASE Gesture(Restyled(plan)) /\ UNCHANGED drag
      BY <1>1, <1>2, <2>1, GestureTypes
    <2>2. CASE Gesture(Deleted(plan)) /\ Select(FALSE)
      <3>1. drag' \in Drags
        BY SelectionTypes, <1>1, <2>2 DEF Select
      <3> QED
        BY <1>2, <2>2, <3>1, GestureTypes
    <2>3. CASE Gesture(Resized(plan)) /\ \E b \in BOOLEAN : Select(b)
      <3>1. drag' \in Drags
        BY SelectionTypes, <1>1, <2>3 DEF Select
      <3> QED
        BY <1>2, <2>3, <3>1, GestureTypes
    <2>4. CASE Unrecorded(Restyled(plan))
      BY <1>2, <2>4, UnrecordedTypes
    <2>5. CASE EntryOnly
      BY <2>5, EntryOnlyTypes
    <2> QED
      BY <1>12, <2>1, <2>2, <2>3, <2>4, <2>5 DEF ArrangePanel
  <1>13. CASE SeatPanel
    BY <1>1, <1>2, <1>13, GestureTypes DEF SeatPanel
  <1>14. CASE Toolbar
    <2>1. CASE LockGroup
      <3>1. PICK n \in 2..(MaxSeats + MaxRows) :
              \E p \in [1..n -> Restyled(plan)] :
                 /\ past' = Latest(Append(past, plan) \o SubSeq(p, 1, n - 1))
                 /\ Drawn(p[n])
        BY <2>1 DEF LockGroup
      <3>2. PICK p \in [1..n -> Restyled(plan)] :
              /\ past' = Latest(Append(past, plan) \o SubSeq(p, 1, n - 1))
              /\ Drawn(p[n])
        BY <3>1
      <3>3. n \in Nat /\ n >= 2
        BY <3>1, VenueEditorAssumption
      <3>4. /\ p \in Seq(Plans) /\ Len(p) = n /\ p[n] \in Plans
        BY <1>2, <3>3, <3>2
      <3>5. SubSeq(p, 1, n - 1) \in Seq(Plans)
        BY <3>3, <3>4, SubSeqProperties
      <3>6. past' \in Seq(Plans) /\ Len(past') <= MaxPast
        <4>1. past \in Seq(Plans) /\ plan \in Plans
          BY DEF TypeInv, TypeOK
        <4>2. Append(past, plan) \o SubSeq(p, 1, n - 1) \in Seq(Plans)
          BY <4>1, <3>5, AppendProperties, ConcatProperties
        <4> QED
          BY <3>2, <4>2, LatestShort
      <3>7. /\ future' \in Seq(Plans) /\ Len(past') + Len(future') <= MaxPast
            /\ future' = <<>>
        BY <2>1, <3>6, PastBound, LenProperties, EmptySeq DEF LockGroup
      <3>8. plan' \in Plans /\ made' \subseteq 1..MaxSeats
        BY <3>2, <3>4 DEF Drawn, TypeInv, TypeOK
      <3>9. /\ Editing /\ acts' \in Nat /\ gesture' = None
            /\ UNCHANGED <<page, layout, token, drag, file, call, server, history>>
        BY <2>1 DEF LockGroup, Counted, TypeInv, TypeOK
      <3> QED
        BY <1>1, <3>6, <3>7, <3>8, <3>9 DEF TypeInv, TypeOK, Addressed, Editing,
           server, history
    <2> QED
      BY <1>1, <1>2, <1>14, <2>1, GestureTypes DEF Toolbar
  <1>15. CASE Undo
    <2>1. /\ past \in Seq(Plans) /\ past # <<>> /\ future \in Seq(Plans)
          /\ Len(past) + Len(future) <= MaxPast
      BY <1>15 DEF Undo, TypeInv, TypeOK
    <2>2. Len(future) \in Nat
      BY <2>1, LenProperties
    <2>3. /\ Len(past) \in Nat /\ past[Len(past)] \in Plans
          /\ past' \in Seq(Plans) /\ Len(past') = Len(past) - 1
      BY <1>15, <2>1, LastGoes DEF Undo
    <2>4. future' \in Seq(Plans) /\ Len(future') = Len(future) + 1
      BY <1>1, <1>15, <2>1, FirstComes DEF Undo
    <2>5. Len(past') + Len(future') <= MaxPast
      BY <2>1, <2>2, <2>3, <2>4, PastBound
    <2>6. Restored(past[Len(past)])
      BY <1>15 DEF Undo
    <2> QED
      BY <2>3, <2>4, <2>5, <2>6, RestoredTypes
  <1>16. CASE Redo
    <2>1. /\ future \in Seq(Plans) /\ future # <<>> /\ past \in Seq(Plans)
          /\ Len(past) + Len(future) <= MaxPast
      BY <1>16 DEF Redo, TypeInv, TypeOK
    <2>2. Len(future) \in Nat \ {0} /\ Len(past) \in Nat
      BY <2>1, LenProperties, EmptySeq
    <2>3. /\ Head(future) \in Plans /\ future' \in Seq(Plans)
          /\ Len(future') = Len(future) - 1
      BY <1>16, <2>1, <2>2, HeadTailProperties DEF Redo
    <2>4. past' \in Seq(Plans) /\ Len(past') = Len(past) + 1
      BY <1>1, <1>16, <2>1, AppendProperties DEF Redo
    <2>5. Len(past') + Len(future') <= MaxPast
      BY <2>1, <2>2, <2>3, <2>4, PastBound
    <2>6. Restored(Head(future))
      BY <1>16 DEF Redo
    <2> QED
      BY <2>3, <2>4, <2>5, <2>6, RestoredTypes
  <1>17. CASE Export
    <2>1. /\ file' \in Plans /\ acts' \in Nat
          /\ UNCHANGED <<page, store, drag, call, server, history, gesture, made>>
      BY <1>1, <1>17 DEF Export, Counted, TypeInv, TypeOK
    <2> QED
      BY <2>1 DEF TypeInv, TypeOK, Addressed, Editing, store, server, history
  <1>18. CASE Import
    <2>1. file \in Plans /\ Restored(file)
      BY <1>18 DEF Import, TypeInv, TypeOK
    <2>2. past' \in Seq(Plans) /\ Len(past') = 1
      BY <1>18, <2>1, OneEntry DEF Import
    <2>3. future' \in Seq(Plans) /\ Len(future') = 0
      BY <1>18, EmptySeq DEF Import
    <2>4. Len(past') + Len(future') <= MaxPast
      BY <2>2, <2>3, PastBound
    <2> QED
      BY <2>1, <2>2, <2>3, <2>4, RestoredTypes
  <1> QED
    BY <1>3, <1>4, <1>5, <1>6, <1>7, <1>8, <1>9, <1>10, <1>11, <1>12, <1>13,
       <1>14, <1>15, <1>16, <1>17, <1>18 DEF Edit

(* A request that is not under way, and one that opens a layout. *)
LEMMA IdleTypes ==
    /\ NoSeats \in UNION {[S -> Rows] : S \in SUBSET SeatIds}
    /\ Idle \in Requests
    /\ Idle.kind = "idle" /\ Idle.step = "idle"
  <1>1. NoSeats \in [{} -> Rows]
    BY DEF NoSeats
  <1>2. NoSeats \in UNION {[S -> Rows] : S \in SUBSET SeatIds}
    BY <1>1
  <1> QED
    BY <1>2 DEF Idle, Requests

(* A request that opens a layout. *)
LEMMA LoadTypes ==
    ASSUME TypeInv, NEW l \in Layouts
    PROVE  /\ LoadOf(l) \in Requests
           /\ LoadOf(l).kind = "load" /\ LoadOf(l).step = "sent"
           /\ LoadOf(l).layout = l
           /\ LoadOf(l).plan \in [seats : Seatings, look : Looks \cup {None}]
  <1>1. [seats |-> NoSeats, look |-> None] \in
           [seats : Seatings, look : Looks \cup {None}]
    BY SeatingsAre
  <1>2. page.visit + 1 \in Nat
    BY DEF TypeInv, TypeOK
  <1> QED
    BY <1>1, <1>2, IdleTypes DEF LoadOf, Idle, Requests

(* Requests and their replies keep the types. *)
LEMMA CallTypes ==
    ASSUME TypeInv, NEW c \in Calls, Saving(c) \/ Loading(c) \/ Fail(c)
    PROVE  TypeInv'
  <1>0. /\ call \in [Calls -> Requests] /\ call[c] \in Requests
        /\ plan \in Plans /\ drag \in Drags
    BY DEF TypeInv, TypeOK
  <1>1. CASE ClickSave(c)
    <2>1. /\ past' \in Seq(Plans) /\ future' \in Seq(Plans)
          /\ Len(past') + Len(future') <= MaxPast
      BY <1>1, SaveHistoryTypes DEF ClickSave, TypeInv, TypeOK
    <2> DEFINE new == [kind |-> "save", step |-> "sent", visit |-> page.visit,
                       layout |-> layout, token |-> token, base |-> base,
                       doubt |-> doubt, plan |-> plan, ids |-> NoSeats,
                       late |-> FALSE]
    <2>2. NoSeats \in UNION {[S -> Rows] : S \in SUBSET SeatIds}
      BY IdleTypes
    <2>3. plan \in [seats : Seatings, look : Looks \cup {None}]
      BY <1>0 DEF Plans
    <2>4. new \in Requests /\ layout \in Layouts
      BY <1>1, <2>2, <2>3 DEF ClickSave, Editing, Requests, TypeInv, TypeOK
    <2>5. call' = [call EXCEPT ![c] = new]
      BY <1>1 DEF ClickSave
    <2>6. /\ new.kind = "save" /\ new.layout = layout /\ new.plan = plan
          /\ new.step = "sent"
      OBVIOUS
    <2> HIDE DEF new
    <2>7. call' \in [Calls -> Requests]
      BY <1>0, <2>4, <2>5
    <2>8. /\ UNCHANGED <<page, layout, token, plan, drag, file, server, history,
                         made>>
          /\ gesture' = None /\ acts' \in Nat
      BY <1>1 DEF ClickSave, Counted, TypeInv, TypeOK
    <2>9. Addressed'
      BY <1>0, <2>4, <2>5, <2>6, <2>8 DEF TypeInv, Addressed
    <2> QED
      BY <2>1, <2>7, <2>8, <2>9 DEF TypeInv, TypeOK, Editing, server, history
  <1>2. CASE Commit(c)
    <2>1. PICK ids \in [NewSeats(call[c].plan) -> Rows], n \in rowSeq..MaxRows :
             /\ rowSeq' = n
             /\ stored' = [stored EXCEPT ![call[c].layout] =
                              [born |-> RowsAfter(c, ids),
                               look |-> call[c].plan.look]]
             /\ call' = [call EXCEPT ![c].step = "committed", ![c].ids = ids,
                                     ![c].base = version[call[c].layout] + 1]
             /\ \A s, t \in DOMAIN ids : ids[s] = ids[t] => s = t
      BY <1>2 DEF Commit
    <2>2. /\ call[c].kind = "save" /\ call[c].plan \in Plans
          /\ call[c].layout \in Layouts /\ Acceptable(c)
      BY <1>2 DEF Commit, TypeInv, Addressed
    <2>3. PICK S \in SUBSET SeatIds : call[c].plan.seats \in [S -> Rows \cup {NoRow}]
      BY <2>2, SeatingsAre DEF Plans
    <2>4. NewSeats(call[c].plan) \in SUBSET SeatIds
      BY <2>3 DEF NewSeats
    <2>5. ids \in UNION {[T -> Rows] : T \in SUBSET SeatIds}
      BY <2>4
    <2> DEFINE born == stored[call[c].layout].born
    <2> DEFINE new == {ids[s] : s \in DOMAIN ids}
    <2>6. PICK R \in SUBSET Rows : born \in [R -> SeatIds]
      <3>1. stored[call[c].layout] \in
               [born : UNION {[T -> SeatIds] : T \in SUBSET Rows},
                look : Looks \cup {None}]
        BY <2>2 DEF TypeInv, TypeOK
      <3>2. born \in UNION {[T -> SeatIds] : T \in SUBSET Rows}
        BY <3>1
      <3> QED
        BY <3>2
    <2>7. RowsOf(call[c].plan) \subseteq R
      BY <2>2, <2>6 DEF Acceptable
    <2>8. new \subseteq Rows /\ RowsOf(call[c].plan) \cup new \in SUBSET Rows
      BY <2>6, <2>7
    <2>9. \A r \in new : (CHOOSE s \in DOMAIN ids : ids[s] = r) \in SeatIds
      BY <2>4
    <2>10. RowsAfter(c, ids) \in [RowsOf(call[c].plan) \cup new -> SeatIds]
      <3> HIDE DEF new
      <3>1. RowsAfter(c, ids) =
              [r \in RowsOf(call[c].plan) \cup new |->
                 IF r \in new THEN CHOOSE s \in DOMAIN ids : ids[s] = r
                 ELSE born[r]]
        BY DEF RowsAfter, new
      <3> HIDE DEF born
      <3> QED
        BY <2>6, <2>7, <2>9, <3>1
    <2>11. RowsAfter(c, ids) \in UNION {[T -> SeatIds] : T \in SUBSET Rows}
      BY <2>8, <2>10
    <2>12. call[c].plan.look \in Looks
      BY <2>2 DEF Plans
    <2> HIDE DEF born, new
    <2>13. stored' \in [Layouts -> [born : UNION {[T -> SeatIds] : T \in SUBSET Rows},
                                    look : Looks \cup {None}]]
      BY <2>1, <2>2, <2>11, <2>12 DEF TypeInv, TypeOK
    <2>14. rowSeq' \in 0..MaxRows
      BY <2>1 DEF TypeInv, TypeOK
    <2>15. /\ version' \in [Layouts -> Nat]
           /\ version[call[c].layout] + 1 \in Nat
      BY <1>2, <2>2 DEF Commit, TypeInv, TypeOK
    <2> DEFINE v == version[call[c].layout] + 1
    <2> HIDE DEF v
    <2>16. [call[c] EXCEPT !.step = "committed", !.ids = ids, !.base = v] \in Requests
      BY <1>0, <2>5, <2>15 DEF Requests, v
    <2>17. /\ call' \in [Calls -> Requests]
           /\ \A d \in Calls : /\ call'[d].kind = call[d].kind
                               /\ call'[d].layout = call[d].layout
                               /\ call'[d].plan = call[d].plan
                               /\ d # c => call'[d].step = call[d].step
      <3>1. call' = [call EXCEPT ![c] =
                        [call[c] EXCEPT !.step = "committed", !.ids = ids,
                                        !.base = v]]
        BY <1>0, <2>1 DEF v, Requests
      <3> QED
        BY <1>0, <2>16, <3>1 DEF Requests
    <2>18. Addressed'
      BY <1>2, <2>2, <2>17 DEF Commit, TypeInv, Addressed
    <2>19. UNCHANGED <<page, store, drag, file, used, history, gesture, made, acts>>
      BY <1>2 DEF Commit
    <2> QED
      BY <2>13, <2>14, <2>15, <2>17, <2>18, <2>19 DEF TypeInv, TypeOK, Editing,
         store, history
  <1>3. CASE ReRead(c)
    <2>1. call[c].kind = "save" /\ call[c].layout \in Layouts
      BY <1>3 DEF ReRead, TypeInv, Addressed
    <2> DEFINE v == version[call[c].layout]
    <2>2. v \in Nat
      BY <2>1 DEF TypeInv, TypeOK
    <2>3. call' = [call EXCEPT ![c] = [call[c] EXCEPT !.step = "replied",
                                                      !.token = v]]
      BY <1>0, <1>3 DEF ReRead, Requests
    <2> HIDE DEF v
    <2>4. /\ call' \in [Calls -> Requests]
          /\ \A d \in Calls : /\ call'[d].kind = call[d].kind
                              /\ call'[d].layout = call[d].layout
                              /\ call'[d].plan = call[d].plan
                              /\ d # c => call'[d].step = call[d].step
          /\ call'[c].step = "replied"
      BY <1>0, <2>2, <2>3 DEF Requests
    <2> QED
      BY <1>3, <2>4 DEF ReRead, TypeInv, TypeOK, Addressed, Editing, store,
         server, history
  <1>4. CASE ApplySave(c)
    <2>1. /\ call[c].kind = "save" /\ call[c].layout \in Layouts
          /\ call[c].token \in Nat /\ call[c].base \in Nat
          /\ call[c].ids \in UNION {[S -> Rows] : S \in SUBSET SeatIds}
      BY <1>0, <1>4 DEF ApplySave, TypeInv, Addressed, Requests
    <2>2. plan' \in Plans
      <3>1. PICK S \in SUBSET SeatIds : plan.seats \in [S -> Rows \cup {NoRow}]
        BY <1>0, SeatingsAre DEF Plans
      <3>2. PICK T \in SUBSET SeatIds : call[c].ids \in [T -> Rows]
        BY <2>1
      <3> DEFINE f == [s \in DOMAIN plan.seats |->
                          IF s \in DOMAIN call[c].ids THEN call[c].ids[s]
                          ELSE plan.seats[s]]
      <3>3. f \in [S -> Rows \cup {NoRow}]
        BY <3>1, <3>2
      <3>4. f \in Seatings
        BY <3>3, SeatingsAre
      <3>5. plan' = [plan EXCEPT !.seats = f]
        BY <1>4 DEF ApplySave, Stamped
      <3> HIDE DEF f
      <3> QED
        BY <1>0, <3>4, <3>5 DEF Plans
    <2>3. call' = [call EXCEPT ![c] = Idle]
      BY <1>4 DEF ApplySave
    <2>4. Idle \in Requests
      BY IdleTypes
    <2>5. call' \in [Calls -> Requests]
      BY <1>0, <2>3, <2>4
    <2>6. /\ layout' \in Layouts /\ token' \in Nat /\ base' \in Nat
          /\ doubt' \subseteq {"rewound", "late", "overtaken"}
          /\ UNCHANGED <<page, past, future, drag, file, server, gesture, made, acts>>
      BY <1>4, <2>1 DEF ApplySave, TypeInv, TypeOK
    <2>7. Idle.kind = "idle" /\ Idle.step = "idle"
      BY DEF Idle
    <2>8. Addressed'
      BY <1>0, <2>3, <2>6, <2>7 DEF TypeInv, Addressed
    <2> QED
      BY <2>2, <2>5, <2>6, <2>8, VenueEditorAssumption DEF TypeInv, TypeOK,
         Editing, server
  <1>5. CASE GetLayout(c)
    <2>1. /\ call[c].kind = "load" /\ call[c].layout \in Layouts
          /\ call[c].plan \in [seats : Seatings, look : Looks \cup {None}]
      BY <1>5 DEF GetLayout, TypeInv, Addressed
    <2> DEFINE l == call[c].layout
    <2>2. /\ version[l] \in Nat /\ stored[l].look \in Looks \cup {None}
      BY <2>1 DEF TypeInv, TypeOK
    <2>3. SeatsOf(l) \in Seatings
      <3>1. stored[l] \in [born : UNION {[T -> SeatIds] : T \in SUBSET Rows},
                           look : Looks \cup {None}]
        BY <2>1 DEF TypeInv, TypeOK
      <3>2. DOMAIN stored[l].born \subseteq Rows
        BY <3>1
      <3> DEFINE S == {RowSeat(r) : r \in DOMAIN stored[l].born}
      <3>3. S \in SUBSET SeatIds
        BY <3>2 DEF SeatIds
      <3>4. \A s \in S : (CHOOSE r \in Rows : s = RowSeat(r)) \in Rows
        BY <3>2
      <3>5. SeatsOf(l) \in [S -> Rows \cup {NoRow}]
        BY <3>4 DEF SeatsOf
      <3> QED
        BY <3>3, <3>5, SeatingsAre
    <2> HIDE DEF l
    <2>4. PICK i \in {1, 2}, step \in {"half", "replied"} : Read(c, i, step)
      BY <1>5 DEF GetLayout
    <2> DEFINE seen == [call[c].plan EXCEPT !.look = stored[l].look]
    <2> DEFINE placed == [call[c].plan EXCEPT !.seats = SeatsOf(l)]
    <2>5. /\ seen \in [seats : Seatings, look : Looks \cup {None}]
          /\ placed \in [seats : Seatings, look : Looks \cup {None}]
      BY <2>1, <2>2, <2>3
    <2>6. \/ call' = [call EXCEPT ![c] = [call[c] EXCEPT !.step = step,
                                         !.token = version[l], !.plan = seen]]
          \/ call' = [call EXCEPT ![c] = [call[c] EXCEPT !.step = step,
                                         !.plan = placed]]
      BY <1>0, <2>4 DEF Read, Requests, l
    <2> HIDE DEF seen, placed
    <2>7. PICK r \in Requests :
             /\ call' = [call EXCEPT ![c] = r]
             /\ r.kind = call[c].kind /\ r.layout = call[c].layout
             /\ r.step = step /\ r.plan \in {seen, placed}
      <3>1. CASE call' = [call EXCEPT ![c] =
                             [call[c] EXCEPT !.step = step, !.token = version[l],
                                             !.plan = seen]]
        <4>1. [call[c] EXCEPT !.step = step, !.token = version[l],
                              !.plan = seen] \in Requests
          BY <1>0, <2>2, <2>5 DEF Requests
        <4> QED
          BY <1>0, <3>1, <4>1 DEF Requests
      <3>2. CASE call' = [call EXCEPT ![c] = [call[c] EXCEPT !.step = step,
                                                             !.plan = placed]]
        <4>1. [call[c] EXCEPT !.step = step, !.plan = placed] \in Requests
          BY <1>0, <2>5 DEF Requests
        <4> QED
          BY <1>0, <3>2, <4>1 DEF Requests
      <3> QED
        BY <2>6, <3>1, <3>2
    <2>8. UNCHANGED <<page, store, drag, file, server, history, gesture, made, acts>>
      BY <2>4 DEF Read
    <2>9. Addressed'
      BY <1>0, <2>1, <2>5, <2>7, <2>8 DEF TypeInv, Addressed
    <2> QED
      BY <1>0, <2>7, <2>8, <2>9 DEF TypeInv, TypeOK, Editing, store, server, history
  <1>6. CASE ApplyLoad(c)
    <2>1. /\ call[c].kind = "load" /\ call[c].layout \in Layouts
          /\ call[c].token \in Nat
          /\ call[c].plan \in [seats : Seatings, look : Looks \cup {None}]
      BY <1>0, <1>6 DEF ApplyLoad, TypeInv, Addressed, Requests
    <2>2. Hydrated(call[c].plan) \in Plans
      BY <1>0, <2>1 DEF Hydrated, Plans
    <2>3. /\ plan' = Hydrated(call[c].plan) /\ layout' = call[c].layout
          /\ token' = call[c].token /\ base' = call[c].token
          /\ past' = <<>> /\ future' = <<>> /\ doubt' = {} /\ gesture' = None
          /\ Deselected(Hydrated(call[c].plan))
          /\ UNCHANGED <<file, server, made, acts>>
      BY <1>6 DEF ApplyLoad
    <2>4. drag' \in Drags
      BY <1>0, <2>3, DeselectedTypes
    <2>5. /\ past' \in Seq(Plans) /\ future' \in Seq(Plans)
          /\ Len(past') + Len(future') <= MaxPast
      BY <2>3, EmptySeq, PastBound
    <2>6. /\ page' \in [screen : {"list", "loading", "editing", "error"},
                        layout : Layouts \cup {None}, visit : Nat]
          /\ page'.screen # "list" => page'.layout \in Layouts
      BY <1>6 DEF ApplyLoad, TypeInv, TypeOK, Addressed
    <2>7. call' = [d \in Calls |->
                     IF d = c THEN Idle
                     ELSE IF Waiting(d) THEN [call[d] EXCEPT !.late = TRUE]
                     ELSE call[d]]
      BY <1>6 DEF ApplyLoad
    <2>8. \A d \in Calls : [call[d] EXCEPT !.late = TRUE] \in Requests
      BY <1>0 DEF Requests
    <2>9. call' \in [Calls -> Requests]
      BY <1>0, <2>7, <2>8, IdleTypes
    <2>10. \A d \in Calls :
              \/ d = c /\ call'[d] = Idle
              \/ /\ call'[d].kind = call[d].kind
                 /\ call'[d].layout = call[d].layout
                 /\ call'[d].plan = call[d].plan
                 /\ call'[d].step = call[d].step
      BY <1>0, <2>7 DEF Requests
    <2>11. Addressed'
      BY <2>6, <2>10, IdleTypes DEF TypeInv, Addressed
    <2> QED
      BY <2>1, <2>2, <2>3, <2>4, <2>5, <2>6, <2>9, <2>11, VenueEditorAssumption
         DEF TypeInv, TypeOK, Editing, server
  <1>7. CASE Fail(c)
    <2>1. /\ page' \in [screen : {"list", "loading", "editing", "error"},
                        layout : Layouts \cup {None}, visit : Nat]
          /\ page'.screen # "list" => page'.layout \in Layouts
          /\ page'.screen = "editing" => page.screen = "editing"
      BY <1>7 DEF Fail, TypeInv, TypeOK, Addressed
    <2>2. call' = [call EXCEPT ![c] = Idle]
      BY <1>7 DEF Fail
    <2>3. call' \in [Calls -> Requests]
      BY <1>0, <2>2, IdleTypes
    <2>4. Addressed'
      BY <1>0, <2>1, <2>2, IdleTypes DEF TypeInv, Addressed
    <2>5. UNCHANGED <<store, drag, file, server, history, gesture, made, acts>>
      BY <1>7 DEF Fail
    <2> QED
      BY <2>1, <2>3, <2>4, <2>5 DEF TypeInv, TypeOK, Editing, store, server, history
  <1> QED
    BY <1>1, <1>2, <1>3, <1>4, <1>5, <1>6, <1>7 DEF Saving, Loading

(* Opening, leaving and reloading keep the types. *)
LEMMA VisitTypes ==
    ASSUME TypeInv,
           \/ Leave
           \/ \E c \in Calls : Reload(c) \/ \E l \in Layouts : Open(c, l)
    PROVE  TypeInv'
  <1>0. /\ call \in [Calls -> Requests] /\ page.visit + 1 \in Nat
    BY DEF TypeInv, TypeOK
  <1>4. NoDrag \in Drags
    BY DEF NoDrag, Drags
  <1>1. CASE Leave
    <2>1. /\ page' \in [screen : {"list", "loading", "editing", "error"},
                        layout : Layouts \cup {None}, visit : Nat]
          /\ page'.screen = "list" /\ drag' = NoDrag /\ acts' \in Nat
      BY <1>1 DEF Leave, Placed, Counted, TypeInv, TypeOK
    <2>2. /\ gesture' = None
          /\ UNCHANGED <<store, file, call, server, history, made>>
      BY <1>1 DEF Leave
    <2> QED
      BY <1>4, <2>1, <2>2 DEF TypeInv, TypeOK, Addressed, Editing, store, server,
         history
  <1>2. ASSUME NEW c \in Calls, NEW l \in Layouts, Open(c, l) PROVE TypeInv'
    <2>1. /\ page' = [screen |-> "loading", layout |-> l, visit |-> page.visit + 1]
          /\ drag' = NoDrag /\ acts' \in Nat /\ gesture' = None
      BY <1>2 DEF Open, NewVisit, Placed, Counted, TypeInv, TypeOK
    <2>2. call' = [call EXCEPT ![c] = LoadOf(l)]
      BY <1>2 DEF Open
    <2>3. call' \in [Calls -> Requests]
      BY <1>0, <2>2, LoadTypes
    <2>4. Addressed'
      BY <1>0, <2>1, <2>2, LoadTypes DEF TypeInv, Addressed
    <2>5. UNCHANGED <<store, file, server, history, made>>
      BY <1>2 DEF Open
    <2> QED
      BY <1>4, <2>1, <2>3, <2>4, <2>5 DEF TypeInv, TypeOK, Editing, store, server,
         history
  <1>3. ASSUME NEW c \in Calls, Reload(c) PROVE TypeInv'
    <2>1. page.layout \in Layouts
      BY <1>3 DEF Reload, TypeInv, Addressed
    <2>2. /\ page' = [screen |-> "loading", layout |-> page.layout,
                      visit |-> page.visit + 1]
          /\ drag' = NoDrag /\ acts' \in Nat /\ gesture' = None
          /\ past' = <<>> /\ future' = <<>>
          /\ UNCHANGED <<layout, token, plan, file, server, history, made>>
      BY <1>3 DEF Reload, NewVisit, Placed, Counted, TypeInv, TypeOK
    <2>3. /\ past' \in Seq(Plans) /\ future' \in Seq(Plans)
          /\ Len(past') + Len(future') <= MaxPast
      BY <2>2, EmptySeq, PastBound
    <2>4. call' = [d \in Calls |->
                     IF d = c THEN LoadOf(page.layout)
                     ELSE IF call[d].kind = "load" THEN Idle
                     ELSE [call[d] EXCEPT !.visit = 0]]
      BY <1>3 DEF Reload
    <2>5. \A d \in Calls : [call[d] EXCEPT !.visit = 0] \in Requests
      BY <1>0 DEF Requests
    <2>6. call' \in [Calls -> Requests]
      BY <1>0, <2>1, <2>4, <2>5, LoadTypes, IdleTypes
    <2>7. \A d \in Calls :
             \/ d = c /\ call'[d] = LoadOf(page.layout)
             \/ call'[d] = Idle
             \/ /\ call'[d].kind = call[d].kind
                /\ call'[d].layout = call[d].layout
                /\ call'[d].plan = call[d].plan
                /\ call'[d].step = call[d].step
      BY <1>0, <2>4 DEF Requests
    <2>8. Addressed'
      BY <2>1, <2>2, <2>7, IdleTypes, LoadTypes DEF TypeInv, Addressed
    <2> QED
      BY <1>4, <2>1, <2>2, <2>3, <2>6, <2>8 DEF TypeInv, TypeOK, Editing, server,
         history
  <1> QED
    BY <1>1, <1>2, <1>3

(* Saves from elsewhere and events keep the types. *)
LEMMA WorldTypes ==
    ASSUME TypeInv, NEW l \in Layouts, SaveElsewhere(l) \/ Assign(l)
    PROVE  TypeInv'
  <1>1. stored[l] \in [born : UNION {[T -> SeatIds] : T \in SUBSET Rows},
                       look : Looks \cup {None}]
    BY DEF TypeInv, TypeOK
  <1>2. PICK R \in SUBSET Rows : stored[l].born \in [R -> SeatIds]
    BY <1>1
  <1>3. CASE SaveElsewhere(l)
    <2>1. PICK gone \in SUBSET (DOMAIN stored[l].born \ used),
               n \in rowSeq..MaxRows, k \in Looks :
             /\ rowSeq' = n
             /\ stored' = [stored EXCEPT ![l] =
                   [born |-> [r \in (DOMAIN stored[l].born \ gone)
                                    \cup ((rowSeq + 1)..n) |->
                                 IF r \in DOMAIN stored[l].born \ gone
                                   THEN stored[l].born[r] ELSE RowSeat(r)],
                    look |-> k]]
      BY <1>3 DEF SaveElsewhere
    <2> DEFINE kept == DOMAIN stored[l].born \ gone
    <2> DEFINE rows == kept \cup ((rowSeq + 1)..n)
    <2> DEFINE born == [r \in rows |-> IF r \in kept THEN stored[l].born[r]
                                       ELSE RowSeat(r)]
    <2>2. rowSeq \in 0..MaxRows /\ n \in 0..MaxRows /\ MaxRows \in Nat
      BY VenueEditorAssumption DEF TypeInv, TypeOK
    <2>3. rows \in SUBSET Rows
      <3>1. (rowSeq + 1)..n \subseteq Rows
        BY <2>2 DEF Rows
      <3>2. kept \subseteq Rows
        BY <1>2
      <3> QED
        BY <3>1, <3>2
    <2>4. \A r \in Rows : RowSeat(r) \in SeatIds
      BY DEF SeatIds
    <2>5. born \in [rows -> SeatIds]
      BY <1>2, <2>3, <2>4
    <2>6. born \in UNION {[T -> SeatIds] : T \in SUBSET Rows}
      BY <2>3, <2>5
    <2>7. stored' = [stored EXCEPT ![l] = [born |-> born, look |-> k]]
      BY <2>1
    <2> HIDE DEF born
    <2>8. stored' \in [Layouts -> [born : UNION {[T -> SeatIds] : T \in SUBSET Rows},
                                   look : Looks \cup {None}]]
      BY <2>6, <2>7 DEF TypeInv, TypeOK
    <2>9. /\ rowSeq' \in 0..MaxRows /\ version' \in [Layouts -> Nat]
          /\ acts' \in Nat
      BY <1>3, <2>1, <2>2 DEF SaveElsewhere, Counted, TypeInv, TypeOK
    <2>10. UNCHANGED <<page, store, drag, file, call, used, history, gesture, made>>
      BY <1>3 DEF SaveElsewhere
    <2> QED
      BY <2>8, <2>9, <2>10 DEF TypeInv, TypeOK, Addressed, Editing, store, history
  <1>4. CASE Assign(l)
    <2>1. used' \subseteq Rows /\ acts' \in Nat
      BY <1>2, <1>4 DEF Assign, Counted, TypeInv, TypeOK
    <2>2. UNCHANGED <<page, store, drag, file, call, version, stored, rowSeq,
                      history, gesture, made>>
      BY <1>4 DEF Assign
    <2> QED
      BY <2>1, <2>2 DEF TypeInv, TypeOK, Addressed, Editing, store, history
  <1> QED
    BY <1>3, <1>4

(* The initial states have the types. *)
LEMMA InitTypes == Init => TypeInv
  <1> SUFFICES ASSUME Init PROVE TypeInv
    OBVIOUS
  <1>1. call \in [Calls -> Requests] /\ \A c \in Calls : call[c] = Idle
    BY IdleTypes DEF Init
  <1>2. plan \in Plans
    BY SeatingsAre DEF Init, Plans
  <1>3. /\ past \in Seq(Plans) /\ future \in Seq(Plans)
        /\ Len(past) + Len(future) <= MaxPast
    BY EmptySeq, PastBound DEF Init
  <1>4. stored \in [Layouts -> [born : UNION {[T -> SeatIds] : T \in SUBSET Rows},
                                look : Looks \cup {None}]]
    <2>1. \A l \in Layouts :
             [r \in Given[l] |-> RowSeat(r)] \in
                UNION {[T -> SeatIds] : T \in SUBSET Rows}
      <3> SUFFICES ASSUME NEW l \in Layouts
                   PROVE  [r \in Given[l] |-> RowSeat(r)] \in
                             UNION {[T -> SeatIds] : T \in SUBSET Rows}
        OBVIOUS
      <3>1. Given[l] \in SUBSET Rows
        BY VenueEditorAssumption
      <3>2. [r \in Given[l] |-> RowSeat(r)] \in [Given[l] -> SeatIds]
        BY <3>1 DEF SeatIds
      <3> QED
        BY <3>1, <3>2
    <2> QED
      BY <2>1 DEF Init
  <1>5. drag \in Drags
    BY DEF Init, NoDrag, Drags
  <1> QED
    BY <1>1, <1>2, <1>3, <1>4, <1>5, IdleTypes DEF Init, TypeInv, TypeOK, Addressed,
       Editing

(* No step leaves the types. *)
LEMMA NextTypes == TypeInv /\ [Next]_vars => TypeInv'
  <1> SUFFICES ASSUME TypeInv, [Next]_vars PROVE TypeInv'
    OBVIOUS
  <1>1. CASE Edit
    BY <1>1, EditTypes
  <1>2. ASSUME NEW c \in Calls, Saving(c) \/ Loading(c) \/ Fail(c) PROVE TypeInv'
    BY <1>2, CallTypes
  <1>3. CASE \/ Leave
             \/ \E c \in Calls : Reload(c) \/ \E l \in Layouts : Open(c, l)
    BY <1>3, VisitTypes
  <1>4. ASSUME NEW l \in Layouts, SaveElsewhere(l) \/ Assign(l) PROVE TypeInv'
    BY <1>4, WorldTypes
  <1>5. CASE UNCHANGED vars
    BY <1>5 DEF vars, TypeInv, TypeOK, Addressed, Editing, store, server, history
  <1> QED
    BY <1>1, <1>2, <1>3, <1>4, <1>5 DEF Next

(* The undo history stays within its length and every variable in its type *)
(* for any number of undos and redos.                                      *)
THEOREM TypeCorrect == Spec => []TypeOK
  <1>1. TypeInv => TypeOK
    BY DEF TypeInv
  <1> QED
    BY InitTypes, NextTypes, <1>1, PTL DEF Spec

----------------------------------------------------------------------------
(* No lost update: the version a plan carries is the one it descends from. *)

Misled == {"late", "overtaken"}

VersionInv ==
    /\ doubt \cap Misled = {} => base = token
    /\ \A c \in Calls :
          /\ call[c].kind = "save" /\ call[c].step = "sent"
          /\ call[c].doubt \cap Misled = {}
          => call[c].base = call[c].token

(* Nothing done on the page touches the version, the requests or the       *)
(* server, nor takes a doubt back.                                         *)
LEMMA EditFrame ==
    ASSUME Edit
    PROVE  /\ UNCHANGED <<page, layout, token, call, server, base>>
           /\ doubt' = doubt \/ doubt' = doubt \cup {"rewound"}
  <1>1. CASE Undo \/ Redo \/ Import
    BY <1>1 DEF Undo, Redo, Import, Restored
  <1>2. CASE ~(Undo \/ Redo \/ Import)
    BY <1>2 DEF Edit, CanvasPointer, KeyDown, SeatMenu, SectionMenu, DragShape,
       DragFacility, PressSeat, MoveGroup, ReleaseSeat, ArrangePanel, SeatPanel,
       Toolbar, LockGroup, Export, Gesture, Unrecorded, EntryOnly, store, history
  <1> QED
    BY <1>1, <1>2

(* VersionInv holds at first. *)
LEMMA InitVersion == Init => VersionInv
  BY IdleTypes DEF Init, VersionInv

(* VersionInv holds after every step. *)
LEMMA NextVersion == TypeInv /\ VersionInv /\ [Next]_vars => VersionInv'
  <1> SUFFICES ASSUME TypeInv, VersionInv, [Next]_vars PROVE VersionInv'
    OBVIOUS
  <1>0. call \in [Calls -> Requests]
    BY DEF TypeInv, TypeOK
  <1>1. CASE Edit
    BY <1>1, EditFrame DEF VersionInv, Misled
  <1>2. ASSUME NEW c \in Calls, ClickSave(c) PROVE VersionInv'
    BY <1>0, <1>2 DEF ClickSave, VersionInv, history
  <1>3. ASSUME NEW c \in Calls, Commit(c) \/ ReRead(c) PROVE VersionInv'
    <2>1. UNCHANGED <<token, base, doubt>>
      BY <1>3 DEF Commit, ReRead, store, history
    <2>2. /\ \A d \in Calls : d # c => call'[d] = call[d]
          /\ call'[c].step # "sent"
      <3>1. CASE Commit(c)
        <4>1. PICK ids, v : call' = [call EXCEPT ![c].step = "committed",
                                                 ![c].ids = ids, ![c].base = v]
          BY <3>1 DEF Commit
        <4> QED
          BY <1>0, <4>1 DEF Requests
      <3>2. CASE ReRead(c)
        BY <1>0, <3>2 DEF ReRead, Requests
      <3> QED
        BY <1>3, <3>1, <3>2
    <2> QED
      BY <2>1, <2>2 DEF VersionInv
  <1>4. ASSUME NEW c \in Calls, ApplySave(c) PROVE VersionInv'
    <2>1. /\ doubt' \cap Misled = {} => base' = token'
      BY <1>4 DEF ApplySave, Misled
    <2>2. \A d \in Calls : call'[d] = call[d] \/ call'[d] = Idle
      BY <1>0, <1>4 DEF ApplySave
    <2> QED
      BY <2>1, <2>2, IdleTypes DEF VersionInv
  <1>5. ASSUME NEW c \in Calls, GetLayout(c) PROVE VersionInv'
    <2>1. /\ UNCHANGED <<token, base, doubt>>
          /\ \A d \in Calls : d # c => call'[d] = call[d]
          /\ call'[c].kind # "save"
      BY <1>0, <1>5 DEF GetLayout, Read, store, history, Requests
    <2> QED
      BY <2>1 DEF VersionInv
  <1>6. ASSUME NEW c \in Calls, ApplyLoad(c) PROVE VersionInv'
    <2>1. base' = token'
      BY <1>6 DEF ApplyLoad
    <2>2. \A d \in Calls :
             \/ call'[d] = Idle
             \/ /\ call'[d].kind = call[d].kind /\ call'[d].step = call[d].step
                /\ call'[d].doubt = call[d].doubt
                /\ call'[d].base = call[d].base /\ call'[d].token = call[d].token
      BY <1>0, <1>6 DEF ApplyLoad, Requests
    <2> QED
      BY <2>1, <2>2, IdleTypes DEF VersionInv
  <1>7. ASSUME NEW c \in Calls, Fail(c) PROVE VersionInv'
    <2>1. \A d \in Calls : call'[d] = call[d] \/ call'[d] = Idle
      BY <1>0, <1>7 DEF Fail
    <2> QED
      BY <1>7, <2>1, IdleTypes DEF Fail, VersionInv, store, history
  <1>8. ASSUME NEW c \in Calls, Reload(c) PROVE VersionInv'
    <2>1. page.layout \in Layouts
      BY <1>8 DEF Reload, TypeInv, Addressed
    <2>2. \A d \in Calls :
             \/ call'[d] = Idle \/ call'[d] = LoadOf(page.layout)
             \/ /\ call'[d].kind = call[d].kind /\ call'[d].step = call[d].step
                /\ call'[d].doubt = call[d].doubt
                /\ call'[d].base = call[d].base /\ call'[d].token = call[d].token
      BY <1>0, <1>8 DEF Reload, Requests
    <2> QED
      BY <1>8, <2>1, <2>2, IdleTypes, LoadTypes DEF Reload, VersionInv, history
  <1>9. ASSUME NEW c \in Calls, NEW l \in Layouts, Open(c, l) PROVE VersionInv'
    BY <1>0, <1>9, LoadTypes DEF Open, VersionInv, store, history
  <1>10. CASE Leave
    BY <1>10 DEF Leave, VersionInv, store, history
  <1>11. ASSUME NEW l \in Layouts, SaveElsewhere(l) \/ Assign(l) PROVE VersionInv'
    BY <1>11 DEF SaveElsewhere, Assign, VersionInv, store, history
  <1>12. CASE UNCHANGED vars
    BY <1>12 DEF vars, VersionInv, store, history
  <1> QED
    BY <1>1, <1>2, <1>3, <1>4, <1>5, <1>6, <1>7, <1>8, <1>9, <1>10, <1>11, <1>12
       DEF Next, Saving, Loading

(* Only the server's transaction makes a sent save a committed one.        *)
LEMMA OnlyCommitCommits ==
    ASSUME TypeInv, [Next]_vars, NEW c \in Calls, Committed(c)
    PROVE  Commit(c)
  <1>0. /\ call \in [Calls -> Requests]
        /\ call[c].step = "sent" /\ call'[c].step = "committed"
    BY DEF TypeInv, TypeOK, Committed
  <1>1. ~Edit
    BY <1>0, EditFrame
  <1>2. ASSUME NEW d \in Calls
        PROVE  /\ ~ClickSave(d) /\ ~ReRead(d) /\ ~ApplySave(d) /\ ~GetLayout(d)
               /\ ~ApplyLoad(d) /\ ~Fail(d)
    <2>1. ~ClickSave(d)
      BY <1>0 DEF ClickSave
    <2>2. ~ReRead(d)
      BY <1>0 DEF ReRead, Requests
    <2>3. ~ApplySave(d)
      BY <1>0, IdleTypes DEF ApplySave
    <2>4. ~GetLayout(d)
      BY <1>0 DEF GetLayout, Read, Requests
    <2>5. ~ApplyLoad(d)
      <3> SUFFICES ASSUME ApplyLoad(d) PROVE FALSE
        OBVIOUS
      <3>1. call' = [e \in Calls |->
                       IF e = d THEN Idle
                       ELSE IF Waiting(e) THEN [call[e] EXCEPT !.late = TRUE]
                       ELSE call[e]]
        BY DEF ApplyLoad
      <3>2. [call[c] EXCEPT !.late = TRUE].step = call[c].step
        BY <1>0 DEF Requests
      <3> QED
        BY <1>0, <3>1, <3>2, IdleTypes
    <2>6. ~Fail(d)
      BY <1>0, IdleTypes DEF Fail
    <2> QED
      BY <2>1, <2>2, <2>3, <2>4, <2>5, <2>6
  <1>3. \A d \in Calls : ~Reload(d)
    <2> SUFFICES ASSUME NEW d \in Calls, Reload(d) PROVE FALSE
      OBVIOUS
    <2>1. page.layout \in Layouts
      BY DEF Reload, TypeInv, Addressed
    <2> QED
      BY <1>0, <2>1, IdleTypes, LoadTypes DEF Reload, Requests
  <1>4. \A d \in Calls, l \in Layouts : ~Open(d, l)
    BY <1>0, LoadTypes DEF Open
  <1>5. ~Leave /\ \A l \in Layouts : ~SaveElsewhere(l) /\ ~Assign(l)
    BY <1>0 DEF Leave, SaveElsewhere, Assign
  <1>6. ~UNCHANGED vars
    BY <1>0 DEF vars
  <1>7. PICK d \in Calls : Commit(d)
    BY <1>1, <1>2, <1>3, <1>4, <1>5, <1>6 DEF Next, Saving, Loading
  <1>8. d = c
    BY <1>0, <1>7 DEF Commit, Requests
  <1> QED
    BY <1>7, <1>8

(* No save replaces a version its plan does not descend from, with any     *)
(* number of requests under way, unless the tab was misled.                *)
THEOREM NoUpdateLost == Spec => NoLostUpdate
  <1>1. TypeInv /\ VersionInv /\ [Next]_vars =>
           [\A c \in Calls :
               Committed(c) /\ call[c].doubt \cap Misled = {} =>
                  version[call[c].layout] = call[c].base]_vars
    <2> SUFFICES ASSUME TypeInv, VersionInv, [Next]_vars, NEW c \in Calls,
                        Committed(c), call[c].doubt \cap Misled = {}
                 PROVE  version[call[c].layout] = call[c].base
      OBVIOUS
    <2>1. Commit(c)
      BY OnlyCommitCommits
    <2>2. call[c].base = call[c].token
      BY <2>1 DEF Commit, VersionInv
    <2> QED
      BY <2>1, <2>2 DEF Commit, Acceptable
  <1> QED
    BY InitTypes, NextTypes, InitVersion, NextVersion, <1>1, PTL
       DEF Spec, NoLostUpdate, Misled

----------------------------------------------------------------------------
(* Undo: the newest snapshot is the plan before the last gesture.          *)

GestureInv ==
    /\ gesture # None => past # <<>> /\ past[Len(past)] = gesture
    /\ drag.active /\ ~drag.cut => drag.moved /\ drag.down /\ drag.multi
    /\ drag.moved /\ ~drag.cut => drag.active

(* GestureInv holds at first. *)
LEMMA InitGesture == Init => GestureInv
  BY DEF Init, GestureInv, NoDrag

(* GestureInv holds after every step. *)
LEMMA NextGesture == TypeInv /\ GestureInv /\ [Next]_vars => GestureInv'
  <1> SUFFICES ASSUME TypeInv, GestureInv, [Next]_vars PROVE GestureInv'
    OBVIOUS
  <1>0. drag \in Drags
    BY DEF TypeInv, TypeOK
  <1> DEFINE Dragged == /\ drag.active /\ ~drag.cut =>
                              drag.moved /\ drag.down /\ drag.multi
                        /\ drag.moved /\ ~drag.cut => drag.active
  <1>a. Dragged
    BY DEF GestureInv
  <1>b. ASSUME NEW P, Gesture(P), Dragged' PROVE GestureInv'
    <2>1. past' # <<>> /\ past'[Len(past')] = plan /\ gesture' = plan
      BY <1>b, SaveHistoryTypes DEF Gesture
    <2> QED
      BY <1>b, <2>1 DEF GestureInv
  <1>c. ASSUME gesture' = None, Dragged' PROVE GestureInv'
    BY <1>c DEF GestureInv
  <1>d. ASSUME UNCHANGED <<past, gesture>>, Dragged' PROVE GestureInv'
    BY <1>d DEF GestureInv
  <1>e. UNCHANGED drag => Dragged'
    BY <1>a
  <1>f. NoDrag = drag' => Dragged'
    BY DEF NoDrag
  <1>g. \A p : Deselected(p) => Dragged'
    BY <1>0, <1>a DEF Deselected, Drags
  <1>h. PointerFree => \A b \in BOOLEAN : Select(b) => Dragged'
    BY <1>0, <1>a DEF PointerFree, Select, Drags
  <1> HIDE DEF Dragged
  <1>1. CASE CanvasPointer
    BY <1>1, <1>b, <1>d, <1>h DEF CanvasPointer, store
  <1>2. CASE KeyDown
    <2>1. Dragged'
      BY <1>0, <1>2, <1>a DEF KeyDown, Drags, Dragged
    <2> QED
      BY <1>2, <2>1, <1>b DEF KeyDown
  <1>3. CASE SeatMenu \/ DragShape \/ SeatPanel \/ Toolbar
    BY <1>3, <1>b, <1>c, <1>e DEF SeatMenu, DragShape, SeatPanel, Toolbar,
       LockGroup
  <1>4. CASE SectionMenu
    BY <1>4, <1>b, <1>c, <1>e DEF SectionMenu, Unrecorded, EntryOnly
  <1>5. CASE DragFacility
    BY <1>5, <1>b, <1>c, <1>e DEF DragFacility, Unrecorded
  <1>6. CASE PressSeat
    <2>1. Dragged'
      BY <1>0, <1>6, <1>a DEF PressSeat, PointerFree, Drags, Dragged
    <2> QED
      BY <1>6, <2>1, <1>d DEF PressSeat, store
  <1>7. CASE MoveGroup
    <2>1. drag.down /\ drag.multi
          /\ drag' = [drag EXCEPT !.active = TRUE, !.moved = TRUE]
      BY <1>7 DEF MoveGroup
    <2>2. Dragged'
      BY <1>0, <2>1 DEF Drags, Dragged
    <2>3. CASE drag.cut
      BY <1>7, <1>c, <2>2, <2>3 DEF MoveGroup
    <2>4. CASE ~drag.cut /\ drag.moved
      <3>1. drag.active
        BY <1>a, <2>4 DEF Dragged
      <3> QED
        BY <1>7, <1>d, <2>2, <2>4, <3>1 DEF MoveGroup, FirstMove
    <2>5. CASE ~drag.cut /\ ~drag.moved
      <3>1. ~drag.active
        BY <1>a, <2>5 DEF Dragged
      <3>2. SaveHistory /\ gesture' = plan
        BY <1>7, <2>5, <3>1 DEF MoveGroup, FirstMove
      <3>3. past' # <<>> /\ past'[Len(past')] = plan
        BY <3>2, SaveHistoryTypes
      <3> QED
        BY <2>2, <3>2, <3>3 DEF GestureInv, Dragged
    <2> QED
      BY <2>3, <2>4, <2>5
  <1>8. CASE ReleaseSeat
    <2>1. Dragged'
      BY <1>0, <1>8, <1>a DEF ReleaseSeat, Drags, Dragged
    <2> QED
      BY <1>8, <2>1, <1>b, <1>d DEF ReleaseSeat, store
  <1>9. CASE ArrangePanel
    BY <1>9, <1>b, <1>c, <1>e, <1>h DEF ArrangePanel, Unrecorded, EntryOnly
  <1>10. CASE Undo \/ Redo \/ Import
    BY <1>10, <1>c, <1>g DEF Undo, Redo, Import, Restored
  <1>11. CASE Export
    BY <1>11, <1>d, <1>e DEF Export, store
  <1>12. CASE Leave
    BY <1>12, <1>c, <1>f DEF Leave
  <1>13. ASSUME NEW c \in Calls,
                Saving(c) \/ Loading(c) \/ Fail(c) \/ Reload(c)
         PROVE  GestureInv'
    <2>1. CASE ClickSave(c)
      BY <2>1, <1>c, <1>e DEF ClickSave
    <2>2. CASE Commit(c) \/ ReRead(c) \/ Fail(c)
      BY <2>2, <1>d, <1>e DEF Commit, ReRead, Fail, store
    <2>3. CASE ApplySave(c)
      BY <2>3, <1>d, <1>e DEF ApplySave
    <2>4. CASE GetLayout(c)
      BY <2>4, <1>d, <1>e DEF GetLayout, Read, store
    <2>5. CASE ApplyLoad(c)
      BY <2>5, <1>c, <1>g DEF ApplyLoad
    <2>6. CASE Reload(c)
      BY <2>6, <1>c, <1>f DEF Reload, NewVisit
    <2> QED
      BY <1>13, <2>1, <2>2, <2>3, <2>4, <2>5, <2>6 DEF Saving, Loading
  <1>14. ASSUME NEW c \in Calls, NEW l \in Layouts, Open(c, l) PROVE GestureInv'
    BY <1>14, <1>c, <1>f DEF Open, NewVisit
  <1>15. ASSUME NEW l \in Layouts, SaveElsewhere(l) \/ Assign(l) PROVE GestureInv'
    BY <1>15, <1>d, <1>e DEF SaveElsewhere, Assign, store
  <1>16. CASE UNCHANGED vars
    BY <1>16, <1>d, <1>e DEF vars, store
  <1> QED
    BY <1>1, <1>2, <1>3, <1>4, <1>5, <1>6, <1>7, <1>8, <1>9, <1>10, <1>11, <1>12,
       <1>13, <1>14, <1>15, <1>16 DEF Next, Edit

(* Undo right after a gesture restores the plan from before it, however    *)
(* many moves a drag has, unless a key had cut an earlier drag short.      *)
THEOREM UndoRestores == Spec => UndoRestoresTheGesture
  <1>1. GestureInv /\ [Next]_vars =>
           [Undo /\ gesture # None => plan' = gesture]_vars
    BY DEF GestureInv, Undo, Restored
  <1> QED
    BY InitTypes, NextTypes, InitGesture, NextGesture, <1>1, PTL
       DEF Spec, UndoRestoresTheGesture

----------------------------------------------------------------------------
(* One row per seat: a plan never shows a row's seat as new.               *)

(* What a plan knows of the rows, given the rows stored, the last row id   *)
(* and the seat ids used up: its rows were handed out, its seats without a *)
(* row were made in this tab, and none of them is the one that a row of    *)
(* the plan was inserted for.                                              *)
Fits(p, st, last, used_up) ==
    /\ \A s \in DOMAIN p.seats : p.seats[s] \in 0..last
    /\ NewSeats(p) \subseteq {MadeSeat(n) : n \in used_up}
    /\ \A l \in Layouts : \A s \in DOMAIN p.seats :
          p.seats[s] \in DOMAIN st[l].born =>
              st[l].born[p.seats[s]] \notin NewSeats(p)

Sound(st, last, used_up) == {p \in Plans : Fits(p, st, last, used_up)}

(* What the server knows: rows come from the sequence, each was inserted   *)
(* for a seat made in the tab or is the first to be shown as its own seat, *)
(* and no two for one seat.                                                *)
StoredOnce(st, last, used_up) ==
    \A l \in Layouts :
        /\ DOMAIN st[l].born \subseteq 1..last
        /\ \A r \in DOMAIN st[l].born :
              st[l].born[r] \in {RowSeat(r)} \cup {MadeSeat(n) : n \in used_up}
        /\ \A r, q \in DOMAIN st[l].born : st[l].born[r] = st[l].born[q] => r = q

(* The rows a save returns are those inserted for its seats. *)
Named(ids, st, last) ==
    \A s \in DOMAIN ids :
        /\ ids[s] \in 1..last
        /\ \A l \in Layouts :
              ids[s] \in DOMAIN st[l].born => st[l].born[ids[s]] = s

SeatInv ==
    /\ StoredOnce(stored, rowSeq, made)
    /\ plan \in Sound(stored, rowSeq, made)
    /\ past \in Seq(Sound(stored, rowSeq, made))
    /\ future \in Seq(Sound(stored, rowSeq, made))
    /\ file \in Sound(stored, rowSeq, made) \cup {None}
    /\ \A c \in Calls :
          /\ call[c].kind # "idle" => Fits(call[c].plan, stored, rowSeq, made)
          /\ Named(call[c].ids, stored, rowSeq)

(* Rows that are new to the server are new to every plan. *)
Grows(st, last, used_up, st2, last2, used_up2) ==
    /\ last <= last2
    /\ used_up \subseteq used_up2
    /\ \A l \in Layouts : \A r \in DOMAIN st2[l].born :
          \/ r \in DOMAIN st[l].born /\ st2[l].born[r] = st[l].born[r]
          \/ r > last

(* So a plan that fitted still fits, and so does a reply. *)
LEMMA GrownFits ==
    ASSUME NEW st, NEW last \in Nat, NEW ups, NEW st2, NEW last2 \in Nat, NEW ups2,
           Grows(st, last, ups, st2, last2, ups2)
    PROVE  /\ \A p : Fits(p, st, last, ups) => Fits(p, st2, last2, ups2)
           /\ Sound(st, last, ups) \subseteq Sound(st2, last2, ups2)
           /\ \A ids : Named(ids, st, last) => Named(ids, st2, last2)
  <1>1. ASSUME NEW p, Fits(p, st, last, ups) PROVE Fits(p, st2, last2, ups2)
    <2>1. \A s \in DOMAIN p.seats : p.seats[s] \in 0..last2 /\ ~(p.seats[s] > last)
      BY <1>1 DEF Fits, Grows
    <2>2. NewSeats(p) \subseteq {MadeSeat(n) : n \in ups2}
      BY <1>1 DEF Fits, Grows
    <2>3. ASSUME NEW l \in Layouts, NEW s \in DOMAIN p.seats,
                 p.seats[s] \in DOMAIN st2[l].born
          PROVE  st2[l].born[p.seats[s]] \notin NewSeats(p)
      <3>1. /\ p.seats[s] \in DOMAIN st[l].born
            /\ st2[l].born[p.seats[s]] = st[l].born[p.seats[s]]
        BY <2>1, <2>3 DEF Grows
      <3> QED
        BY <1>1, <3>1 DEF Fits
    <2> QED
      BY <2>1, <2>2, <2>3 DEF Fits
  <1>2. ASSUME NEW ids, Named(ids, st, last) PROVE Named(ids, st2, last2)
    <2> SUFFICES ASSUME NEW s \in DOMAIN ids
                 PROVE  /\ ids[s] \in 1..last2
                        /\ \A l \in Layouts : ids[s] \in DOMAIN st2[l].born =>
                              st2[l].born[ids[s]] = s
      BY DEF Named
    <2>1. ids[s] \in 1..last2 /\ ~(ids[s] > last)
      BY <1>2 DEF Named, Grows
    <2> QED
      BY <1>2, <2>1 DEF Named, Grows
  <1>3. Sound(st, last, ups) \subseteq Sound(st2, last2, ups2)
    BY <1>1 DEF Sound
  <1> QED
    BY <1>1, <1>2, <1>3

(* A sequence over a set is one over a larger set. *)
LEMMA SeqGrows ==
    ASSUME NEW S, NEW T, S \subseteq T, NEW h \in Seq(S) PROVE h \in Seq(T)
  <1>1. Len(h) \in Nat /\ DOMAIN h = 1..Len(h) /\ \A i \in 1..Len(h) : h[i] \in S
    BY LenProperties, ElementOfSeq
  <1>2. h = [i \in 1..Len(h) |-> h[i]]
    BY <1>1, SeqDef
  <1> DEFINE n == Len(h)
  <1> HIDE DEF n
  <1>3. h \in [1..n -> T] /\ n \in Nat
    BY <1>1, <1>2 DEF n
  <1> QED
    BY <1>3, SeqDef

(* The invariant grows with the server, as long as the server keeps one    *)
(* row per seat.                                                           *)
LEMMA GrownInv ==
    ASSUME TypeInv, SeatInv, TypeInv',
           Grows(stored, rowSeq, made, stored', rowSeq', made'),
           StoredOnce(stored', rowSeq', made')
    PROVE  LET S == Sound(stored, rowSeq, made)
               T == Sound(stored', rowSeq', made')
           IN  /\ S \subseteq T
               /\ plan \in T /\ past \in Seq(T) /\ future \in Seq(T)
               /\ file \in T \cup {None} /\ <<>> \in Seq(T)
               /\ \A p : Fits(p, stored, rowSeq, made) =>
                            Fits(p, stored', rowSeq', made')
               /\ \A ids : Named(ids, stored, rowSeq) => Named(ids, stored', rowSeq')
  <1> DEFINE S == Sound(stored, rowSeq, made)
  <1> DEFINE T == Sound(stored', rowSeq', made')
  <1>1. rowSeq \in Nat /\ rowSeq' \in Nat
    BY VenueEditorAssumption DEF TypeInv, TypeOK
  <1>2. /\ S \subseteq T
        /\ \A p : Fits(p, stored, rowSeq, made) => Fits(p, stored', rowSeq', made')
        /\ \A ids : Named(ids, stored, rowSeq) => Named(ids, stored', rowSeq')
    BY <1>1, GrownFits
  <1>3. plan \in S /\ past \in Seq(S) /\ future \in Seq(S) /\ file \in S \cup {None}
    BY DEF SeatInv
  <1> HIDE DEF S, T
  <1>4. past \in Seq(T) /\ future \in Seq(T)
    BY <1>2, <1>3, SeqGrows
  <1>5. <<>> \in Seq(T)
    BY EmptySeq
  <1> QED
    BY <1>2, <1>3, <1>4, <1>5 DEF S, T

(* A seat's id tells where it comes from. *)
LEMMA SeatIdsDiffer ==
    /\ \A r, q : RowSeat(r) = RowSeat(q) => r = q
    /\ \A r, n : RowSeat(r) # MadeSeat(n)
  BY DEF RowSeat, MadeSeat

(* Seats that are kept fit; so do fresh ones that have no row or one of    *)
(* the plan's.                                                             *)
LEMMA KeepFits ==
    ASSUME NEW p \in Plans, NEW S \in SUBSET DOMAIN p.seats,
           NEW st, NEW last, NEW ups, Fits(p, st, last, ups)
    PROVE  Fits(Keep(p, S), st, last, ups) /\ RowsOf(Keep(p, S)) \subseteq RowsOf(p)
  <1> DEFINE q == Keep(p, S)
  <1>1. q.seats = [s \in S |-> p.seats[s]]
    BY DEF Keep, Plans
  <1> HIDE DEF q
  <1>2. DOMAIN q.seats = S /\ \A s \in S : q.seats[s] = p.seats[s]
    BY <1>1
  <1>3. NewSeats(q) \subseteq NewSeats(p)
    BY <1>2 DEF NewSeats
  <1>4. Fits(q, st, last, ups)
    BY <1>2, <1>3 DEF Fits
  <1>5. RowsOf(q) \subseteq RowsOf(p)
    BY <1>2 DEF RowsOf
  <1> QED
    BY <1>4, <1>5 DEF q

LEMMA WithFits ==
    ASSUME NEW p \in Plans, NEW N \in FreshSets, NEW row \in [N -> Rows \cup {NoRow}],
           \A n \in N : row[n] = NoRow \/ \E s \in DOMAIN p.seats : row[n] = p.seats[s],
           NEW st, NEW last \in Nat, NEW ups, made \subseteq ups,
           \A n \in 1..MaxSeats : MadeSeat(n) \in DOMAIN With(p, N, row).seats => n \in ups,
           Fits(p, st, last, made), StoredOnce(st, last, made)
    PROVE  /\ Fits(With(p, N, row), st, last, ups)
           /\ RowsOf(With(p, N, row)) \subseteq RowsOf(p)
  <1> DEFINE q == With(p, N, row)
  <1>1. q.seats = [s \in DOMAIN p.seats \cup N |->
                      IF s \in N THEN row[s] ELSE p.seats[s]]
    BY DEF With, Plans
  <1>a. \A n \in 1..MaxSeats : MadeSeat(n) \in DOMAIN q.seats => n \in ups
    OBVIOUS
  <1> HIDE DEF q
  <1>2. /\ DOMAIN q.seats = DOMAIN p.seats \cup N
        /\ \A s \in DOMAIN q.seats :
              q.seats[s] = IF s \in N THEN row[s] ELSE p.seats[s]
    BY <1>1
  <1>3. \A s \in N : \E n \in (1..MaxSeats) \ made : s = MadeSeat(n)
    BY DEF FreshSets
  <1>4. \A s \in DOMAIN q.seats :
           q.seats[s] = NoRow \/ \E t \in DOMAIN p.seats : q.seats[s] = p.seats[t]
    BY <1>2
  <1>5. NewSeats(q) \subseteq NewSeats(p) \cup N
    BY <1>2 DEF NewSeats
  <1>6. \A s \in DOMAIN q.seats : q.seats[s] \in 0..last
    BY <1>4 DEF Fits, NoRow
  <1>7. NewSeats(q) \subseteq {MadeSeat(n) : n \in ups}
    <2> SUFFICES ASSUME NEW s \in NewSeats(q) PROVE s \in {MadeSeat(n) : n \in ups}
      OBVIOUS
    <2>1. CASE s \in N
      BY <1>2, <1>3, <1>a, <2>1
    <2>2. CASE s \in NewSeats(p)
      BY <2>2 DEF Fits
    <2> QED
      BY <1>5, <2>1, <2>2
  <1>8. ASSUME NEW l \in Layouts, NEW s \in DOMAIN q.seats,
               q.seats[s] \in DOMAIN st[l].born
        PROVE  st[l].born[q.seats[s]] \notin NewSeats(q)
    <2>1. q.seats[s] # NoRow
      BY <1>8 DEF StoredOnce, NoRow
    <2>2. PICK t \in DOMAIN p.seats : q.seats[s] = p.seats[t]
      BY <1>4, <2>1
    <2>3. st[l].born[q.seats[s]] \notin NewSeats(p)
      BY <1>8, <2>2 DEF Fits
    <2>4. st[l].born[q.seats[s]] \notin N
      <3>1. st[l].born[q.seats[s]] \in
               {RowSeat(q.seats[s])} \cup {MadeSeat(n) : n \in made}
        BY <1>8 DEF StoredOnce
      <3> QED
        BY <1>3, <3>1 DEF RowSeat, MadeSeat
    <2> QED
      BY <1>5, <2>3, <2>4
  <1>9. Fits(q, st, last, ups)
    BY <1>6, <1>7, <1>8 DEF Fits
  <1>10. RowsOf(q) \subseteq RowsOf(p)
    BY <1>4 DEF RowsOf
  <1> QED
    BY <1>9, <1>10 DEF q

(* What a gesture on the canvas or in a panel may make of a plan.          *)
Derived(p) == Resized(p) \cup Filled(p) \cup RowDuplicated(p) \cup Restyled(p)

(* It fits, and shows no row that was not there. *)
LEMMA DerivedFits ==
    ASSUME NEW p \in Plans, NEW q \in Derived(p),
           NEW st, NEW last \in Nat, NEW ups, made \subseteq ups,
           \A n \in 1..MaxSeats : MadeSeat(n) \in DOMAIN q.seats => n \in ups,
           Fits(p, st, last, made), StoredOnce(st, last, made)
    PROVE  q \in Plans /\ Fits(q, st, last, ups) /\ RowsOf(q) \subseteq RowsOf(p)
  <1>0. q \in Plans
    BY OperationsMakePlans DEF Derived
  <1>g. \A r : Fits(r, st, last, made) => Fits(r, st, last, ups)
    <2>1. Grows(st, last, made, st, last, ups)
      BY DEF Grows
    <2> QED
      BY <2>1, GrownFits
  <1>u. \A N : /\ Unstored(N) \in [N -> Rows \cup {NoRow}]
               /\ \A n \in N : Unstored(N)[n] = NoRow
    BY DEF Unstored
  <1>1. CASE q \in Added(p)
    <2>1. PICK N \in FreshSets : q = With(p, N, Unstored(N))
      BY <1>1 DEF Added
    <2> QED
      BY <1>0, <1>u, <2>1, WithFits
  <1>2. CASE q \in Deleted(p)
    BY <1>0, <1>2, <1>g, KeepFits DEF Deleted
  <1>3. CASE q \in Filled(p)
    <2>1. PICK S \in SUBSET DOMAIN p.seats, N \in FreshSets :
             q = With(Keep(p, S), N, Unstored(N))
      BY <1>3 DEF Filled
    <2>2. /\ Keep(p, S) \in Plans /\ Fits(Keep(p, S), st, last, made)
          /\ RowsOf(Keep(p, S)) \subseteq RowsOf(p)
      BY KeepIsPlan, KeepFits
    <2>3. Fits(q, st, last, ups) /\ RowsOf(q) \subseteq RowsOf(Keep(p, S))
      BY <1>u, <2>1, <2>2, WithFits
    <2> QED
      BY <1>0, <2>2, <2>3
  <1>4. CASE q \in RowDuplicated(p)
    <2> DEFINE Copies(N) ==
                 {With(p, N, [n \in N |-> p.seats[f[n]]]) :
                    f \in {g \in [N -> DOMAIN p.seats] :
                              \A m, n \in N : g[m] = g[n] => m = n}}
    <2>0. PICK N \in FreshSets : q \in Copies(N)
      <3>1. RowDuplicated(p) = UNION {Copies(N) : N \in FreshSets \ {{}}}
        BY Zenon DEF RowDuplicated
      <3> HIDE DEF Copies
      <3> QED
        BY <1>4, <3>1
    <2>1. PICK f \in [N -> DOMAIN p.seats] :
             q = With(p, N, [n \in N |-> p.seats[f[n]]])
      BY <2>0
    <2>2. PICK S \in SUBSET SeatIds : p.seats \in [S -> Rows \cup {NoRow}]
      BY SeatingsAre DEF Plans
    <2> DEFINE row == [n \in N |-> p.seats[f[n]]]
    <2>3. /\ row \in [N -> Rows \cup {NoRow}]
          /\ \A n \in N : \E s \in DOMAIN p.seats : row[n] = p.seats[s]
      BY <2>2
    <2>4. q = With(p, N, row)
      BY <2>1
    <2> HIDE DEF row
    <2> QED
      BY <1>0, <2>3, <2>4, WithFits
  <1>5. CASE q \in Restyled(p)
    <2>1. q.seats = p.seats
      BY <1>5 DEF Restyled, Plans
    <2>2. NewSeats(q) = NewSeats(p) /\ RowsOf(q) = RowsOf(p)
      BY <2>1 DEF NewSeats, RowsOf
    <2>3. Fits(q, st, last, made)
      BY <2>1, <2>2 DEF Fits
    <2> QED
      BY <1>0, <1>g, <2>2, <2>3
  <1> QED
    BY <1>1, <1>2, <1>3, <1>4, <1>5 DEF Derived, Resized

(* What the operations of the page do to the plan and its history.         *)
LEMMA EditForms ==
    ASSUME Edit
    PROVE  \/ /\ SaveHistory \/ UNCHANGED <<past, future>>
              /\ (\E q \in Derived(plan) : Drawn(q)) \/ UNCHANGED <<plan, made>>
              /\ UNCHANGED <<file, doubt>>
           \/ LockGroup /\ UNCHANGED <<file, doubt>>
           \/ Undo \/ Redo \/ Export \/ Import
  <1> USE DEF Derived, Resized, Gesture, Unrecorded, EntryOnly, store, history
  <1>1. CASE CanvasPointer \/ KeyDown \/ SeatMenu \/ SectionMenu
    BY <1>1 DEF CanvasPointer, KeyDown, SeatMenu, SectionMenu
  <1>2. CASE DragShape \/ DragFacility \/ PressSeat \/ ReleaseSeat
    BY <1>2 DEF DragShape, DragFacility, PressSeat, ReleaseSeat
  <1>3. CASE MoveGroup
    BY <1>3 DEF MoveGroup
  <1>4. CASE ArrangePanel \/ SeatPanel \/ Toolbar
    BY <1>4 DEF ArrangePanel, SeatPanel, Toolbar, LockGroup
  <1> QED
    BY <1>1, <1>2, <1>3, <1>4 DEF Edit

(* The operations of the page keep one row per seat. *)
LEMMA EditSeats == ASSUME TypeInv, SeatInv, TypeInv', Edit PROVE SeatInv'
  <1> DEFINE T == Sound(stored', rowSeq', made')
  <1>0. /\ UNCHANGED <<stored, rowSeq, call>> /\ rowSeq \in Nat
        /\ plan \in Plans /\ Fits(plan, stored, rowSeq, made)
        /\ StoredOnce(stored, rowSeq, made)
    BY EditFrame, VenueEditorAssumption DEF server, TypeInv, TypeOK, SeatInv, Sound
  <1>m. made \subseteq made'
    <2>1. \A q : Drawn(q) => made \subseteq made'
      BY DEF Drawn
    <2>2. CASE LockGroup
      BY <2>1, <2>2 DEF LockGroup
    <2>3. CASE Undo \/ Redo \/ Export \/ Import
      BY <2>3 DEF Undo, Redo, Export, Import, Restored
    <2> QED
      BY <2>1, <2>2, <2>3, EditForms
  <1>a. StoredOnce(stored', rowSeq', made')
    BY <1>0, <1>m DEF StoredOnce
  <1>b. /\ plan \in T /\ past \in Seq(T) /\ future \in Seq(T)
        /\ file \in T \cup {None} /\ <<>> \in Seq(T)
        /\ \A c \in Calls :
              /\ call'[c].kind # "idle" => Fits(call'[c].plan, stored', rowSeq', made')
              /\ Named(call'[c].ids, stored', rowSeq')
    <2>1. Grows(stored, rowSeq, made, stored', rowSeq', made')
      BY <1>0, <1>m DEF Grows
    <2>2. /\ plan \in T /\ past \in Seq(T) /\ future \in Seq(T)
          /\ file \in T \cup {None} /\ <<>> \in Seq(T)
          /\ \A p : Fits(p, stored, rowSeq, made) => Fits(p, stored', rowSeq', made')
          /\ \A ids : Named(ids, stored, rowSeq) => Named(ids, stored', rowSeq')
      BY <1>a, <2>1, GrownInv
    <2> QED
      BY <1>0, <2>2 DEF SeatInv
  <1> HIDE DEF T
  <1>c. ASSUME plan' \in T, past' \in Seq(T), future' \in Seq(T),
               file' \in T \cup {None}
        PROVE  SeatInv'
    BY <1>a, <1>b, <1>c DEF SeatInv, T
  <1>d. ASSUME NEW q \in Derived(plan), Drawn(q) PROVE plan' \in T
    <2>1. /\ plan' = q /\ made \subseteq made'
          /\ \A n \in 1..MaxSeats : MadeSeat(n) \in DOMAIN q.seats => n \in made'
      BY <1>d DEF Drawn
    <2>2. q \in Plans /\ Fits(q, stored, rowSeq, made')
      BY <1>0, <2>1, DerivedFits
    <2> QED
      BY <1>0, <2>1, <2>2 DEF T, Sound
  <1>e. ASSUME SaveHistory PROVE past' \in Seq(T) /\ future' \in Seq(T)
    <2>1. past' = Append(Recent(past), plan) /\ future' = <<>>
      BY <1>e DEF SaveHistory
    <2>2. Len(past) <= MaxPast
      BY PastBound, LenProperties DEF TypeInv, TypeOK
    <2>3. Recent(past) \in Seq(T)
      BY <1>b, <2>2, RecentShort
    <2> QED
      BY <1>b, <2>1, <2>3, AppendProperties
  <1>1. CASE /\ SaveHistory \/ UNCHANGED <<past, future>>
             /\ (\E q \in Derived(plan) : Drawn(q)) \/ UNCHANGED <<plan, made>>
             /\ UNCHANGED <<file, doubt>>
    <2>1. plan' \in T
      BY <1>1, <1>b, <1>d
    <2>2. past' \in Seq(T) /\ future' \in Seq(T)
      BY <1>1, <1>b, <1>e
    <2> QED
      BY <1>1, <1>b, <1>c, <2>1, <2>2
  <1>2. CASE LockGroup /\ UNCHANGED file
    <2>1. PICK n \in 2..(MaxSeats + MaxRows) :
            \E p \in [1..n -> Restyled(plan)] :
               /\ past' = Latest(Append(past, plan) \o SubSeq(p, 1, n - 1))
               /\ Drawn(p[n])
      BY <1>2 DEF LockGroup
    <2>2. PICK p \in [1..n -> Restyled(plan)] :
            /\ past' = Latest(Append(past, plan) \o SubSeq(p, 1, n - 1))
            /\ Drawn(p[n])
      BY <2>1
    <2>3. n \in Nat /\ n >= 2
      BY <2>1, VenueEditorAssumption
    <2>4. p[n] \in Derived(plan)
      BY <2>2, <2>3 DEF Derived
    <2>5. plan' \in T
      BY <1>d, <2>2, <2>4
    <2>6. Restyled(plan) \subseteq T
      <3> SUFFICES ASSUME NEW q \in Restyled(plan) PROVE q \in T
        OBVIOUS
      <3>1. q \in Plans /\ q.seats = plan.seats
        BY <1>0, OperationsMakePlans DEF Restyled, Plans
      <3>2. NewSeats(q) = NewSeats(plan)
        BY <3>1 DEF NewSeats
      <3>3. Fits(plan, stored', rowSeq', made')
        BY <1>b DEF T, Sound
      <3> QED
        BY <3>1, <3>2, <3>3 DEF T, Sound, Fits
    <2>7. p \in Seq(T) /\ Len(p) = n
      BY <2>2, <2>3, <2>6
    <2>8. SubSeq(p, 1, n - 1) \in Seq(T)
      BY <2>3, <2>7, SubSeqProperties
    <2>9. past' \in Seq(T)
      <3>1. Append(past, plan) \o SubSeq(p, 1, n - 1) \in Seq(T)
        BY <1>b, <2>8, AppendProperties, ConcatProperties
      <3> QED
        BY <2>2, <3>1, LatestShort
    <2>10. future' = <<>>
      BY <1>2 DEF LockGroup
    <2> QED
      BY <1>2, <1>b, <1>c, <2>5, <2>9, <2>10
  <1>3. CASE Undo
    <2>1. past # <<>> /\ plan' = past[Len(past)] /\ file' = file
      BY <1>3 DEF Undo, Restored
    <2>2. past[Len(past)] \in T /\ past' \in Seq(T)
      BY <1>3, <1>b, <2>1, LastGoes DEF Undo
    <2>3. future' \in Seq(T)
      BY <1>3, <1>b, FirstComes DEF Undo
    <2> QED
      BY <1>b, <1>c, <2>1, <2>2, <2>3
  <1>4. CASE Redo
    <2>1. /\ future # <<>> /\ plan' = Head(future) /\ file' = file
          /\ future' = Tail(future) /\ past' = Append(past, plan)
      BY <1>4 DEF Redo, Restored
    <2>2. Head(future) \in T /\ future' \in Seq(T)
      BY <1>b, <2>1, HeadTailProperties, EmptySeq
    <2>3. past' \in Seq(T)
      BY <1>b, <2>1, AppendProperties
    <2> QED
      BY <1>b, <1>c, <2>1, <2>2, <2>3
  <1>5. CASE Export
    BY <1>5, <1>b, <1>c DEF Export, store
  <1>6. CASE Import
    <2>1. /\ file # None /\ plan' = file /\ file' = file
          /\ past' = <<file>> /\ future' = <<>>
      BY <1>6 DEF Import, Restored
    <2>2. past' \in Seq(T)
      BY <1>b, <2>1, OneEntry
    <2> QED
      BY <1>b, <1>c, <2>1, <2>2
  <1> QED
    BY <1>1, <1>2, <1>3, <1>4, <1>5, <1>6, EditForms

(* What a request looks like after it read.                                *)
LEMMA ReadForms ==
    ASSUME TypeInv, NEW c \in Calls, GetLayout(c)
    PROVE  LET l == call[c].layout
           IN  /\ call[c].kind = "load" /\ l \in Layouts
               /\ \/ /\ call[c].step = "sent"
                     /\ call' = [call EXCEPT ![c] =
                           [call[c] EXCEPT !.step = "half", !.token = version[l],
                               !.plan = [call[c].plan EXCEPT !.look = stored[l].look]]]
                  \/ /\ call[c].step = "half"
                     /\ call' = [call EXCEPT ![c] =
                           [call[c] EXCEPT !.step = "replied",
                               !.plan = [call[c].plan EXCEPT !.seats = SeatsOf(l)]]]
               /\ UNCHANGED <<page, store, drag, file, server, history, gesture, made,
                              acts>>
  <1>0. /\ call \in [Calls -> Requests] /\ call[c].kind = "load"
        /\ call[c].layout \in Layouts
        /\ call[c].plan \in [seats : Seatings, look : Looks \cup {None}]
    BY DEF GetLayout, TypeInv, TypeOK, Addressed
  <1>1. CASE call[c].step = "sent" /\ Read(c, 1, "half")
    <2>1. /\ call' = [call EXCEPT ![c].step = "half",
                                 ![c].token = version[call[c].layout],
                                 ![c].plan.look = stored[call[c].layout].look]
          /\ UNCHANGED <<page, store, drag, file, server, history, gesture, made,
                         acts>>
      BY <1>1 DEF Read, ReadOrder
    <2>2. call' = [call EXCEPT ![c] =
            [call[c] EXCEPT !.step = "half", !.token = version[call[c].layout],
               !.plan = [call[c].plan EXCEPT !.look = stored[call[c].layout].look]]]
      BY <1>0, <2>1 DEF Requests
    <2> QED
      BY <1>0, <1>1, <2>1, <2>2
  <1>2. CASE call[c].step = "half" /\ Read(c, 2, "replied")
    <2>1. /\ call' = [call EXCEPT ![c].step = "replied",
                                 ![c].plan.seats = SeatsOf(call[c].layout)]
          /\ UNCHANGED <<page, store, drag, file, server, history, gesture, made,
                         acts>>
      BY <1>2 DEF Read, ReadOrder
    <2>2. call' = [call EXCEPT ![c] =
            [call[c] EXCEPT !.step = "replied",
               !.plan = [call[c].plan EXCEPT !.seats = SeatsOf(call[c].layout)]]]
      BY <1>0, <2>1 DEF Requests
    <2> QED
      BY <1>0, <1>2, <2>1, <2>2
  <1> QED
    BY <1>0, <1>1, <1>2 DEF GetLayout

(* A save that is committed, with the rows it hands out. *)
CommitsAs(c, l, ids, n) ==
    /\ l = call[c].layout /\ l \in Layouts
    /\ call[c].kind = "save" /\ call[c].step = "sent" /\ Acceptable(c)
    /\ DOMAIN ids = NewSeats(call[c].plan)
    /\ \A s, t \in DOMAIN ids : ids[s] = ids[t] => s = t
    /\ {ids[s] : s \in DOMAIN ids} = (rowSeq + 1)..n
    /\ rowSeq' = n
    /\ stored' = [stored EXCEPT ![l] = [born |-> RowsAfter(c, ids),
                                        look |-> call[c].plan.look]]
    /\ call' = [call EXCEPT ![c] =
                   [call[c] EXCEPT !.step = "committed", !.ids = ids,
                                   !.base = version[l] + 1]]
    /\ version' = [version EXCEPT ![l] = @ + 1]
    /\ UNCHANGED <<page, store, drag, file, used, history, gesture, made, acts>>

(* Every commit is of that form. *)
LEMMA CommitForms ==
    ASSUME TypeInv, NEW c \in Calls, Commit(c)
    PROVE  \E ids \in [NewSeats(call[c].plan) -> Rows], n \in rowSeq..MaxRows :
              CommitsAs(c, call[c].layout, ids, n)
  <1>0. call \in [Calls -> Requests] /\ call[c].kind = "save" /\ call[c].layout \in Layouts
    BY DEF Commit, TypeInv, TypeOK, Addressed
  <1>1. PICK ids \in [NewSeats(call[c].plan) -> Rows], n \in rowSeq..MaxRows :
           /\ \A s, t \in DOMAIN ids : ids[s] = ids[t] => s = t
           /\ {ids[s] : s \in DOMAIN ids} = (rowSeq + 1)..n
           /\ rowSeq' = n
           /\ stored' = [stored EXCEPT ![call[c].layout] =
                            [born |-> RowsAfter(c, ids), look |-> call[c].plan.look]]
           /\ call' = [call EXCEPT ![c].step = "committed", ![c].ids = ids,
                                   ![c].base = version[call[c].layout] + 1]
    BY DEF Commit
  <1>2. call' = [call EXCEPT ![c] =
                    [call[c] EXCEPT !.step = "committed", !.ids = ids,
                                    !.base = version[call[c].layout] + 1]]
    BY <1>0, <1>1 DEF Requests
  <1>3. /\ call[c].step = "sent" /\ Acceptable(c)
        /\ version' = [version EXCEPT ![call[c].layout] = @ + 1]
        /\ UNCHANGED <<page, store, drag, file, used, history, gesture, made, acts>>
    BY DEF Commit
  <1>4. CommitsAs(c, call[c].layout, ids, n)
    BY <1>0, <1>1, <1>2, <1>3 DEF CommitsAs
  <1> QED
    BY <1>4

(* The server's transaction keeps one row per seat: the rows it keeps are  *)
(* those of the plan, so none of them is the row of a seat it inserts.     *)
LEMMA CommitSeats ==
    ASSUME TypeInv, SeatInv, TypeInv', NEW c \in Calls, Commit(c)
    PROVE  SeatInv'
  <1> DEFINE l == call[c].layout
  <1> DEFINE born == stored[l].born
  <1>a. PICK ids \in [NewSeats(call[c].plan) -> Rows], n \in rowSeq..MaxRows :
           CommitsAs(c, l, ids, n)
    BY CommitForms
  <1>1. /\ l \in Layouts /\ Acceptable(c) /\ call[c].kind = "save"
        /\ \A s, t \in DOMAIN ids : ids[s] = ids[t] => s = t
        /\ {ids[s] : s \in DOMAIN ids} = (rowSeq + 1)..n
        /\ rowSeq' = n
        /\ call' = [call EXCEPT ![c] =
                       [call[c] EXCEPT !.step = "committed", !.ids = ids,
                                       !.base = version[l] + 1]]
        /\ UNCHANGED <<store, file, made>>
    BY <1>a DEF CommitsAs
  <1> DEFINE new == {ids[s] : s \in DOMAIN ids}
  <1> DEFINE after == stored'[l].born
  <1>b. /\ stored'[l].born = RowsAfter(c, ids)
        /\ \A m \in Layouts : m # l => stored'[m] = stored[m]
    <2>1. stored' = [stored EXCEPT ![l] = [born |-> RowsAfter(c, ids),
                                          look |-> call[c].plan.look]]
      BY <1>a DEF CommitsAs
    <2>2. DOMAIN stored = Layouts
      BY DEF TypeInv, TypeOK
    <2> QED
      BY <1>1, <2>1, <2>2
  <1>2. /\ rowSeq \in Nat /\ n \in Nat /\ rowSeq <= n
        /\ call \in [Calls -> Requests] /\ stored'[l].born = RowsAfter(c, ids)
        /\ \A m \in Layouts : m # l => stored'[m] = stored[m]
    BY <1>b, VenueEditorAssumption DEF TypeInv, TypeOK
  <1>3. /\ Fits(call[c].plan, stored, rowSeq, made)
        /\ StoredOnce(stored, rowSeq, made)
    BY <1>1 DEF SeatInv
  <1>4. RowsOf(call[c].plan) \subseteq DOMAIN born
    BY <1>1 DEF Acceptable
  <1>5. /\ DOMAIN after = RowsOf(call[c].plan) \cup new
        /\ \A r \in new : after[r] \in DOMAIN ids /\ ids[after[r]] = r
        /\ \A r \in RowsOf(call[c].plan) \ new : after[r] = born[r]
    <2>1. after = [r \in RowsOf(call[c].plan) \cup new |->
                      IF r \in new THEN CHOOSE s \in DOMAIN ids : ids[s] = r
                      ELSE born[r]]
      BY <1>2 DEF RowsAfter
    <2>2. \A r \in new : \E s \in DOMAIN ids : ids[s] = r
      OBVIOUS
    <2> HIDE DEF after, born, new
    <2> QED
      BY <2>1, <2>2
  <1>n. new = (rowSeq + 1)..n /\ DOMAIN ids = NewSeats(call[c].plan)
    BY <1>a DEF CommitsAs
  <1> HIDE DEF new, after, born, l
  <1>6. \A r \in new : r > rowSeq /\ r \in 1..n
    BY <1>n, <1>2
  <1>7. \A r \in DOMAIN after : r \in new \/ (r \in DOMAIN born /\ after[r] = born[r])
    BY <1>4, <1>5
  <1>8. Grows(stored, rowSeq, made, stored', rowSeq', made')
    <2> SUFFICES ASSUME NEW m \in Layouts, NEW r \in DOMAIN stored'[m].born
                 PROVE  \/ /\ r \in DOMAIN stored[m].born
                           /\ stored'[m].born[r] = stored[m].born[r]
                        \/ r > rowSeq
      BY <1>1, <1>2 DEF Grows
    <2>1. CASE m = l
      BY <2>1, <1>6, <1>7 DEF after, born
    <2>2. CASE m # l
      BY <2>2, <1>2
    <2> QED
      BY <2>1, <2>2
  <1>9. \A r \in RowsOf(call[c].plan) : born[r] \notin DOMAIN ids
    <2> SUFFICES ASSUME NEW r \in RowsOf(call[c].plan)
                 PROVE  born[r] \notin NewSeats(call[c].plan)
      BY <1>n
    <2>1. PICK s \in DOMAIN call[c].plan.seats : call[c].plan.seats[s] = r
      BY DEF RowsOf
    <2> QED
      BY <1>1, <1>3, <1>4, <2>1 DEF Fits, born
  <1>10. StoredOnce(stored', rowSeq', made')
    <2> SUFFICES ASSUME NEW m \in Layouts
                 PROVE  /\ DOMAIN stored'[m].born \subseteq 1..n
                        /\ \A r \in DOMAIN stored'[m].born :
                              stored'[m].born[r] \in
                                 {RowSeat(r)} \cup {MadeSeat(k) : k \in made}
                        /\ \A r, q \in DOMAIN stored'[m].born :
                              stored'[m].born[r] = stored'[m].born[q] => r = q
      BY <1>1 DEF StoredOnce
    <2>1. CASE m # l
      BY <1>2, <1>3, <2>1 DEF StoredOnce
    <2>2. CASE m = l
      <3>a. l \in Layouts
        BY <1>1
      <3>b. /\ DOMAIN born \subseteq 1..rowSeq
            /\ \A r \in DOMAIN born :
                  born[r] \in {RowSeat(r)} \cup {MadeSeat(k) : k \in made}
            /\ \A r, q \in DOMAIN born : born[r] = born[q] => r = q
        BY <1>3, <3>a DEF StoredOnce, born
      <3>1. DOMAIN after \subseteq 1..n
        BY <1>2, <1>6, <1>7, <3>b
      <3>2. \A r \in DOMAIN after :
               after[r] \in {RowSeat(r)} \cup {MadeSeat(k) : k \in made}
        <4>1. DOMAIN ids \subseteq {MadeSeat(k) : k \in made}
          BY <1>n, <1>3 DEF Fits
        <4> QED
          BY <1>5, <1>7, <3>b, <4>1
      <3>3. ASSUME NEW r \in DOMAIN after, NEW q \in DOMAIN after, after[r] = after[q]
            PROVE  r = q
        <4>1. CASE r \in new /\ q \in new
          BY <1>5, <3>3, <4>1
        <4>2. CASE r \notin new /\ q \notin new
          BY <1>7, <3>b, <3>3, <4>2
        <4>3. CASE r \in new /\ q \notin new
          BY <1>5, <1>9, <3>3, <4>3
        <4>4. CASE r \notin new /\ q \in new
          BY <1>5, <1>9, <3>3, <4>4
        <4> QED
          BY <4>1, <4>2, <4>3, <4>4
      <3> QED
        BY <2>2, <3>1, <3>2, <3>3 DEF after
    <2> QED
      BY <2>1, <2>2
  <1>11. Named(ids, stored', rowSeq')
    <2> SUFFICES ASSUME NEW s \in DOMAIN ids
                 PROVE  /\ ids[s] \in 1..n
                        /\ \A m \in Layouts : ids[s] \in DOMAIN stored'[m].born =>
                              stored'[m].born[ids[s]] = s
      BY <1>1 DEF Named
    <2>1. ids[s] \in new
      BY DEF new
    <2>2. \A m \in Layouts : m # l => ids[s] \notin DOMAIN stored'[m].born
      BY <1>2, <1>3, <1>6, <2>1 DEF StoredOnce
    <2>3. after[ids[s]] = s
      BY <1>1, <1>5, <2>1
    <2> QED
      BY <1>6, <2>1, <2>2, <2>3 DEF after
  <1> DEFINE T == Sound(stored', rowSeq', made')
  <1>12. /\ plan \in T /\ past \in Seq(T) /\ future \in Seq(T) /\ file \in T \cup {None}
         /\ \A p : Fits(p, stored, rowSeq, made) => Fits(p, stored', rowSeq', made')
         /\ \A x : Named(x, stored, rowSeq) => Named(x, stored', rowSeq')
    BY <1>8, <1>10, GrownInv
  <1>13. \A d \in Calls :
            /\ call'[d].kind # "idle" => Fits(call'[d].plan, stored', rowSeq', made')
            /\ Named(call'[d].ids, stored', rowSeq')
    <2>1. /\ call'[c].plan = call[c].plan /\ call'[c].ids = ids
          /\ \A d \in Calls : d # c => call'[d] = call[d]
      BY <1>1, <1>2 DEF Requests
    <2> QED
      BY <1>3, <1>11, <1>12, <2>1 DEF SeatInv
  <1> QED
    BY <1>1, <1>10, <1>12, <1>13 DEF SeatInv, store

(* A step that leaves the server alone and hands out no seats keeps one    *)
(* row per seat if what it changes fits.                                   *)
LEMMA SameServerSeats ==
    ASSUME SeatInv, UNCHANGED <<stored, rowSeq, made>>,
           plan' \in Sound(stored, rowSeq, made),
           UNCHANGED <<past, future>> \/ (past' = <<>> /\ future' = <<>>)
              \/ (/\ past' \in Seq(Sound(stored, rowSeq, made))
                  /\ future' \in Seq(Sound(stored, rowSeq, made))),
           file' = file,
           \A c \in Calls :
              /\ call'[c].kind # "idle" => Fits(call'[c].plan, stored, rowSeq, made)
              /\ Named(call'[c].ids, stored, rowSeq)
    PROVE  SeatInv'
  <1>1. <<>> \in Seq(Sound(stored, rowSeq, made))
    BY EmptySeq
  <1>2. /\ StoredOnce(stored', rowSeq', made')
        /\ Sound(stored', rowSeq', made') = Sound(stored, rowSeq, made)
    BY DEF SeatInv
  <1> QED
    BY <1>1, <1>2 DEF SeatInv

(* A request that is not under way names no row; one that opens a layout   *)
(* shows nothing yet.                                                      *)
LEMMA IdleFits ==
    /\ Idle.kind = "idle" /\ Named(Idle.ids, stored, rowSeq)
    /\ \A l \in Layouts :
          /\ rowSeq \in Nat => Fits(LoadOf(l).plan, stored, rowSeq, made)
          /\ Named(LoadOf(l).ids, stored, rowSeq)
  <1>1. DOMAIN Idle.ids = {} /\ Idle.kind = "idle"
    BY DEF Idle, NoSeats
  <1>2. ASSUME NEW l \in Layouts
        PROVE  DOMAIN LoadOf(l).ids = {} /\ LoadOf(l).plan.seats = NoSeats
    BY DEF LoadOf, Idle, NoSeats
  <1>3. ASSUME NEW l \in Layouts PROVE Fits(LoadOf(l).plan, stored, rowSeq, made)
    BY <1>2 DEF Fits, NewSeats, NoSeats
  <1> QED
    BY <1>1, <1>2, <1>3 DEF Named

(* Requests and their replies keep one row per seat. *)
LEMMA CallSeats ==
    ASSUME TypeInv, SeatInv, TypeInv', NEW c \in Calls, Saving(c) \/ Loading(c) \/ Fail(c)
    PROVE  SeatInv'
  <1> DEFINE S == Sound(stored, rowSeq, made)
  <1>0. /\ call \in [Calls -> Requests] /\ rowSeq \in Nat
        /\ plan \in S /\ plan \in Plans /\ Fits(plan, stored, rowSeq, made)
        /\ past \in Seq(S) /\ future \in Seq(S)
        /\ StoredOnce(stored, rowSeq, made)
        /\ \A d \in Calls :
              /\ call[d].kind # "idle" => Fits(call[d].plan, stored, rowSeq, made)
              /\ Named(call[d].ids, stored, rowSeq)
    <2>1. plan \in S /\ plan \in Plans /\ Fits(plan, stored, rowSeq, made)
      BY DEF SeatInv, Sound
    <2>2. call \in [Calls -> Requests] /\ rowSeq \in Nat
      BY VenueEditorAssumption DEF TypeInv, TypeOK
    <2> QED
      BY <2>1, <2>2 DEF SeatInv
  <1> HIDE DEF S
  <1>1. CASE ClickSave(c)
    <2>1. SaveHistory \/ UNCHANGED <<past, future>>
      BY <1>1 DEF ClickSave
    <2>2. past' \in Seq(S) /\ future' \in Seq(S)
      <3>1. CASE SaveHistory
        <4>1. Len(past) <= MaxPast
          BY PastBound, LenProperties DEF TypeInv, TypeOK
        <4>2. Recent(past) \in Seq(S)
          BY <1>0, <4>1, RecentShort
        <4> QED
          BY <1>0, <3>1, <4>2, AppendProperties, EmptySeq DEF SaveHistory
      <3> QED
        BY <1>0, <2>1, <3>1
    <2>3. /\ UNCHANGED <<plan, file, server, made>>
          /\ call' = [call EXCEPT ![c] =
                   [kind |-> "save", step |-> "sent", visit |-> page.visit,
                    layout |-> layout, token |-> token, base |-> base,
                    doubt |-> doubt, plan |-> plan, ids |-> NoSeats,
                    late |-> FALSE]]
      BY <1>1 DEF ClickSave
    <2>4. /\ call'[c].plan = plan /\ call'[c].ids = NoSeats
          /\ \A d \in Calls : d # c => call'[d] = call[d]
      BY <1>0, <2>3
    <2>5. Named(NoSeats, stored, rowSeq)
      BY DEF Named, NoSeats
    <2> QED
      BY <1>0, <2>2, <2>3, <2>4, <2>5, SameServerSeats DEF S, server
  <1>2. CASE Commit(c)
    BY <1>2, CommitSeats
  <1>3. CASE ReRead(c)
    <2>1. /\ UNCHANGED <<store, file, server, made>>
          /\ \A d \in Calls : /\ call'[d].kind = call[d].kind
                              /\ call'[d].plan = call[d].plan
                              /\ call'[d].ids = call[d].ids
      BY <1>0, <1>3 DEF ReRead, Requests
    <2> QED
      BY <1>0, <2>1, SameServerSeats DEF S, server, store
  <1>4. CASE ApplySave(c)
    <2> DEFINE ids == call[c].ids
    <2> DEFINE q == Stamped(plan, ids)
    <2>1. /\ plan' = q /\ UNCHANGED <<past, future, file, server, made>>
          /\ call' = [call EXCEPT ![c] = Idle]
      BY <1>4 DEF ApplySave
    <2>2. q.seats = [s \in DOMAIN plan.seats |->
                        IF s \in DOMAIN ids THEN ids[s] ELSE plan.seats[s]]
      BY <1>0 DEF Stamped, Plans
    <2>3. Named(ids, stored, rowSeq)
      BY <1>0
    <2> HIDE DEF q, ids
    <2>4. \A s \in DOMAIN q.seats : q.seats[s] \in 0..rowSeq
      BY <1>0, <2>2, <2>3 DEF Fits, Named
    <2>5. NewSeats(q) \subseteq NewSeats(plan) \ DOMAIN ids
      <3>1. \A s \in DOMAIN ids : ids[s] # NoRow
        BY <1>0, <2>3 DEF Named, NoRow
      <3> QED
        BY <2>2, <3>1 DEF NewSeats
    <2>6. ASSUME NEW l \in Layouts, NEW s \in DOMAIN q.seats,
                 q.seats[s] \in DOMAIN stored[l].born
          PROVE  stored[l].born[q.seats[s]] \notin NewSeats(q)
      <3>1. CASE s \in DOMAIN ids
        BY <2>2, <2>3, <2>5, <2>6, <3>1 DEF Named
      <3>2. CASE s \notin DOMAIN ids
        BY <1>0, <2>2, <2>5, <2>6, <3>2 DEF Fits
      <3> QED
        BY <3>1, <3>2
    <2>7. NewSeats(q) \subseteq {MadeSeat(n) : n \in made}
      BY <1>0, <2>5 DEF Fits
    <2>8. Fits(q, stored, rowSeq, made)
      BY <2>4, <2>6, <2>7 DEF Fits
    <2>9. plan' \in S
      BY <2>1, <2>8 DEF S, Sound, TypeInv, TypeOK
    <2>10. \A d \in Calls : call'[d] = call[d] \/ call'[d] = Idle
      BY <1>0, <2>1
    <2> QED
      BY <1>0, <2>1, <2>9, <2>10, IdleFits, SameServerSeats DEF S, server
  <1>5. CASE GetLayout(c)
    <2> DEFINE l == call[c].layout
    <2>1. /\ call[c].kind = "load" /\ l \in Layouts
          /\ call[c].plan \in [seats : Seatings, look : Looks \cup {None}]
          /\ UNCHANGED <<store, file, server, made>>
      BY <1>5, ReadForms DEF TypeInv, Addressed
    <2>2. /\ \A d \in Calls : d # c => call'[d] = call[d]
          /\ call'[c].ids = call[c].ids
          /\ call'[c].plan.seats \in {call[c].plan.seats, SeatsOf(l)}
      <3>1. CASE call' = [call EXCEPT ![c] =
                     [call[c] EXCEPT !.step = "half", !.token = version[l],
                         !.plan = [call[c].plan EXCEPT !.look = stored[l].look]]]
        BY <1>0, <2>1, <3>1 DEF Requests
      <3>2. CASE call' = [call EXCEPT ![c] =
                     [call[c] EXCEPT !.step = "replied",
                         !.plan = [call[c].plan EXCEPT !.seats = SeatsOf(l)]]]
        BY <1>0, <2>1, <3>2 DEF Requests
      <3> QED
        BY <1>5, <3>1, <3>2, ReadForms
    <2>3. ASSUME NEW p, p.seats = SeatsOf(l) PROVE Fits(p, stored, rowSeq, made)
      <3>1. /\ DOMAIN p.seats = {RowSeat(r) : r \in DOMAIN stored[l].born}
            /\ \A s \in DOMAIN p.seats : p.seats[s] = CHOOSE r \in Rows : s = RowSeat(r)
        BY <2>3 DEF SeatsOf
      <3>2. DOMAIN stored[l].born \subseteq Rows /\ DOMAIN stored[l].born \subseteq 1..rowSeq
        <4>1. DOMAIN stored[l].born \subseteq 1..rowSeq
          BY <1>0, <2>1 DEF StoredOnce
        <4>2. 1..rowSeq \subseteq Rows
          BY VenueEditorAssumption DEF Rows, TypeInv, TypeOK
        <4> QED
          BY <4>1, <4>2
      <3>3. \A s \in DOMAIN p.seats : p.seats[s] \in DOMAIN stored[l].born
        BY <3>1, <3>2 DEF RowSeat
      <3>4. NewSeats(p) = {}
        BY <1>0, <3>2, <3>3 DEF NewSeats, NoRow
      <3> QED
        BY <1>0, <3>2, <3>3, <3>4 DEF Fits
    <2>4. Fits(call'[c].plan, stored, rowSeq, made)
      <3>1. CASE call'[c].plan.seats = SeatsOf(l)
        BY <2>3, <3>1
      <3>2. CASE call'[c].plan.seats = call[c].plan.seats
        <4>1. Fits(call[c].plan, stored, rowSeq, made)
          BY <1>0, <2>1
        <4> QED
          BY <3>2, <4>1 DEF Fits, NewSeats
      <3> QED
        BY <2>2, <3>1, <3>2
    <2> QED
      BY <1>0, <2>1, <2>2, <2>4, SameServerSeats DEF S, server, store
  <1>6. CASE ApplyLoad(c)
    <2>1. /\ call[c].kind = "load" /\ plan' = Hydrated(call[c].plan)
          /\ past' = <<>> /\ future' = <<>> /\ UNCHANGED <<file, server, made>>
          /\ call' = [d \in Calls |->
                        IF d = c THEN Idle
                        ELSE IF Waiting(d) THEN [call[d] EXCEPT !.late = TRUE]
                        ELSE call[d]]
      BY <1>6 DEF ApplyLoad
    <2>2. call[c].plan \in [seats : Seatings, look : Looks \cup {None}]
      BY <2>1 DEF TypeInv, Addressed
    <2>3. plan'.seats = call[c].plan.seats
      BY <2>1, <2>2 DEF Hydrated
    <2>4. Fits(call[c].plan, stored, rowSeq, made)
      BY <1>0, <2>1
    <2>5. Fits(plan', stored, rowSeq, made)
      BY <2>3, <2>4 DEF Fits, NewSeats
    <2>6. plan' \in S
      BY <2>5 DEF S, Sound, TypeInv, TypeOK
    <2>7. \A d \in Calls :
             \/ call'[d] = Idle
             \/ /\ call'[d].kind = call[d].kind /\ call'[d].plan = call[d].plan
                /\ call'[d].ids = call[d].ids
      BY <1>0, <2>1 DEF Requests
    <2> QED
      BY <1>0, <2>1, <2>6, <2>7, IdleFits, SameServerSeats DEF S, server
  <1>7. CASE Fail(c)
    <2>1. /\ UNCHANGED <<store, file, server, made>>
          /\ \A d \in Calls : call'[d] = call[d] \/ call'[d] = Idle
      BY <1>0, <1>7 DEF Fail
    <2> QED
      BY <1>0, <2>1, IdleFits, SameServerSeats DEF S, server, store
  <1> QED
    BY <1>1, <1>2, <1>3, <1>4, <1>5, <1>6, <1>7 DEF Saving, Loading

(* So do visits. *)
LEMMA VisitSeats ==
    ASSUME TypeInv, SeatInv,
           \/ Leave
           \/ \E c \in Calls : Reload(c) \/ \E l \in Layouts : Open(c, l)
    PROVE  SeatInv'
  <1>0. /\ call \in [Calls -> Requests] /\ rowSeq \in Nat
        /\ plan \in Sound(stored, rowSeq, made)
        /\ \A d \in Calls :
              /\ call[d].kind # "idle" => Fits(call[d].plan, stored, rowSeq, made)
              /\ Named(call[d].ids, stored, rowSeq)
    BY VenueEditorAssumption DEF TypeInv, TypeOK, SeatInv
  <1>1. CASE Leave
    BY <1>0, <1>1, SameServerSeats DEF Leave, server, store
  <1>2. ASSUME NEW c \in Calls, NEW l \in Layouts, Open(c, l) PROVE SeatInv'
    <2>1. /\ UNCHANGED <<store, file, server, made>>
          /\ \A d \in Calls : call'[d] = call[d] \/ call'[d] = LoadOf(l)
      BY <1>0, <1>2 DEF Open
    <2> QED
      BY <1>0, <2>1, IdleFits, SameServerSeats DEF server, store
  <1>3. ASSUME NEW c \in Calls, Reload(c) PROVE SeatInv'
    <2>1. page.layout \in Layouts
      BY <1>3 DEF Reload, TypeInv, Addressed
    <2>2. /\ UNCHANGED <<plan, file, server, made>> /\ past' = <<>> /\ future' = <<>>
          /\ \A d \in Calls :
                \/ call'[d] = Idle \/ call'[d] = LoadOf(page.layout)
                \/ /\ call'[d].kind = call[d].kind /\ call'[d].plan = call[d].plan
                   /\ call'[d].ids = call[d].ids
      BY <1>0, <1>3 DEF Reload, Requests
    <2> QED
      BY <1>0, <2>1, <2>2, IdleFits, SameServerSeats DEF server
  <1> QED
    BY <1>1, <1>2, <1>3

(* So do saves from another browser, and events. *)
LEMMA WorldSeats ==
    ASSUME TypeInv, SeatInv, TypeInv', NEW l \in Layouts, SaveElsewhere(l) \/ Assign(l)
    PROVE  SeatInv'
  <1>0. /\ StoredOnce(stored, rowSeq, made) /\ rowSeq \in Nat /\ DOMAIN stored = Layouts
        /\ plan \in Sound(stored, rowSeq, made)
        /\ \A d \in Calls :
              /\ call[d].kind # "idle" => Fits(call[d].plan, stored, rowSeq, made)
              /\ Named(call[d].ids, stored, rowSeq)
    BY VenueEditorAssumption DEF TypeInv, TypeOK, SeatInv
  <1>1. CASE SaveElsewhere(l)
    <2>1. PICK gone \in SUBSET (DOMAIN stored[l].born \ used),
               n \in rowSeq..MaxRows, k \in Looks :
             /\ n <= rowSeq + 1 /\ rowSeq' = n
             /\ stored' = [stored EXCEPT ![l] =
                   [born |-> [r \in (DOMAIN stored[l].born \ gone)
                                    \cup ((rowSeq + 1)..n) |->
                                 IF r \in DOMAIN stored[l].born \ gone
                                   THEN stored[l].born[r] ELSE RowSeat(r)],
                    look |-> k]]
      BY <1>1 DEF SaveElsewhere
    <2> DEFINE born == stored[l].born
    <2> DEFINE kept == DOMAIN born \ gone
    <2> DEFINE after == stored'[l].born
    <2>2. /\ after = [r \in kept \cup ((rowSeq + 1)..n) |->
                        IF r \in kept THEN born[r] ELSE RowSeat(r)]
          /\ \A m \in Layouts : m # l => stored'[m] = stored[m]
      BY <1>0, <2>1
    <2>3. n \in Nat /\ rowSeq <= n /\ n <= rowSeq + 1
      BY <1>0, <2>1
    <2>4. /\ DOMAIN born \subseteq 1..rowSeq
          /\ \A r \in DOMAIN born :
                born[r] \in {RowSeat(r)} \cup {MadeSeat(k2) : k2 \in made}
          /\ \A r, q \in DOMAIN born : born[r] = born[q] => r = q
      BY <1>0 DEF StoredOnce
    <2>5. kept \subseteq DOMAIN born
      OBVIOUS
    <2> HIDE DEF born, kept, after
    <2>6. /\ DOMAIN after = kept \cup ((rowSeq + 1)..n)
          /\ \A r \in kept : after[r] = born[r]
          /\ \A r \in (rowSeq + 1)..n : r \notin kept /\ after[r] = RowSeat(r)
      BY <1>0, <2>2, <2>4, <2>5
    <2>7. UNCHANGED <<store, file, call, made>>
      BY <1>1 DEF SaveElsewhere
    <2>8. \A r \in DOMAIN after :
             (r \in DOMAIN born /\ after[r] = born[r]) \/ r > rowSeq
      BY <1>0, <2>3, <2>5, <2>6
    <2>9. Grows(stored, rowSeq, made, stored', rowSeq', made')
      <3> SUFFICES ASSUME NEW m \in Layouts, NEW r \in DOMAIN stored'[m].born
                   PROVE  \/ /\ r \in DOMAIN stored[m].born
                             /\ stored'[m].born[r] = stored[m].born[r]
                          \/ r > rowSeq
        BY <2>1, <2>3, <2>7 DEF Grows
      <3> QED
        BY <2>2, <2>8 DEF after, born
    <2>10. /\ DOMAIN after \subseteq 1..n
           /\ \A r \in DOMAIN after :
                 after[r] \in {RowSeat(r)} \cup {MadeSeat(k2) : k2 \in made}
           /\ \A r, q \in DOMAIN after : after[r] = after[q] => r = q
      <3>1. DOMAIN after \subseteq 1..n
        BY <1>0, <2>3, <2>4, <2>5, <2>6
      <3>2. \A r \in DOMAIN after :
               after[r] \in {RowSeat(r)} \cup {MadeSeat(k2) : k2 \in made}
        BY <2>4, <2>5, <2>6
      <3>3. ASSUME NEW r \in DOMAIN after, NEW q \in DOMAIN after, after[r] = after[q]
            PROVE  r = q
        <4>1. CASE after[r] = RowSeat(r)
          BY <3>2, <3>3, <4>1, SeatIdsDiffer
        <4>2. CASE after[r] # RowSeat(r)
          <5>1. r \in kept
            BY <2>6, <4>2
          <5>2. CASE q \in kept
            BY <2>4, <2>5, <2>6, <3>3, <5>1, <5>2
          <5>3. CASE q \notin kept
            <6>1. after[r] = RowSeat(q)
              BY <2>6, <3>3, <5>3
            <6> QED
              BY <3>2, <4>2, <6>1, SeatIdsDiffer
          <5> QED
            BY <5>2, <5>3
        <4> QED
          BY <4>1, <4>2
      <3> QED
        BY <3>1, <3>2, <3>3
    <2>11. StoredOnce(stored', rowSeq', made')
      <3> SUFFICES ASSUME NEW m \in Layouts
                   PROVE  /\ DOMAIN stored'[m].born \subseteq 1..n
                          /\ \A r \in DOMAIN stored'[m].born :
                                stored'[m].born[r] \in
                                   {RowSeat(r)} \cup {MadeSeat(k2) : k2 \in made}
                          /\ \A r, q \in DOMAIN stored'[m].born :
                                stored'[m].born[r] = stored'[m].born[q] => r = q
        BY <2>1, <2>7 DEF StoredOnce
      <3>1. CASE m = l
        BY <2>10, <3>1 DEF after
      <3>2. CASE m # l
        BY <1>0, <2>2, <2>3, <3>2 DEF StoredOnce
      <3> QED
        BY <3>1, <3>2
    <2> DEFINE T == Sound(stored', rowSeq', made')
    <2>12. /\ plan \in T /\ past \in Seq(T) /\ future \in Seq(T)
           /\ file \in T \cup {None}
           /\ \A p : Fits(p, stored, rowSeq, made) => Fits(p, stored', rowSeq', made')
           /\ \A x : Named(x, stored, rowSeq) => Named(x, stored', rowSeq')
      BY <2>9, <2>11, GrownInv
    <2> QED
      BY <1>0, <2>7, <2>11, <2>12 DEF SeatInv, store
  <1>2. CASE Assign(l)
    BY <1>0, <1>2, SameServerSeats DEF Assign, store
  <1> QED
    BY <1>1, <1>2

(* SeatInv holds at first. *)
LEMMA InitSeats == Init => SeatInv
  <1> SUFFICES ASSUME Init PROVE SeatInv
    OBVIOUS
  <1>0. TypeInv
    BY InitTypes
  <1>1. \A l \in Layouts : /\ stored[l].born = [r \in Given[l] |-> RowSeat(r)]
                           /\ Given[l] \subseteq 1..rowSeq
    BY DEF Init
  <1>2. StoredOnce(stored, rowSeq, made)
    <2> SUFFICES ASSUME NEW l \in Layouts
                 PROVE  /\ DOMAIN stored[l].born \subseteq 1..rowSeq
                        /\ \A r \in DOMAIN stored[l].born :
                              stored[l].born[r] \in
                                 {RowSeat(r)} \cup {MadeSeat(n) : n \in made}
                        /\ \A r, q \in DOMAIN stored[l].born :
                              stored[l].born[r] = stored[l].born[q] => r = q
      BY DEF StoredOnce
    <2> DEFINE born == stored[l].born
    <2>1. DOMAIN born = Given[l] /\ \A r \in Given[l] : born[r] = RowSeat(r)
      BY <1>1
    <2> HIDE DEF born
    <2>2. /\ DOMAIN born \subseteq 1..rowSeq
          /\ \A r \in DOMAIN born : born[r] = RowSeat(r)
          /\ \A r, q \in DOMAIN born : born[r] = born[q] => r = q
      <3>1. Given[l] \subseteq 1..rowSeq
        BY <1>1
      <3>2. \A r, q \in Given[l] : born[r] = born[q] => RowSeat(r) = RowSeat(q)
        BY <2>1
      <3> QED
        BY <2>1, <3>1, <3>2, SeatIdsDiffer
    <2> QED
      BY <2>2 DEF born
  <1>3. plan.seats = NoSeats /\ plan \in Plans
    BY <1>0 DEF Init, TypeInv, TypeOK
  <1>4. Fits(plan, stored, rowSeq, made)
    BY <1>3 DEF Fits, NewSeats, NoSeats
  <1>5. <<>> \in Seq(Sound(stored, rowSeq, made))
    BY EmptySeq
  <1>6. \A c \in Calls : call[c] = Idle
    BY DEF Init
  <1>7. past = <<>> /\ future = <<>> /\ file = None
    BY DEF Init
  <1> QED
    BY <1>2, <1>3, <1>4, <1>5, <1>6, <1>7, IdleFits DEF SeatInv, Sound

(* SeatInv holds after every step. *)
LEMMA NextSeats == TypeInv /\ SeatInv /\ [Next]_vars => SeatInv'
  <1> SUFFICES ASSUME TypeInv, SeatInv, [Next]_vars PROVE SeatInv'
    OBVIOUS
  <1>0. TypeInv'
    BY NextTypes
  <1>1. CASE Edit
    BY <1>0, <1>1, EditSeats
  <1>2. ASSUME NEW c \in Calls, Saving(c) \/ Loading(c) \/ Fail(c) PROVE SeatInv'
    BY <1>0, <1>2, CallSeats
  <1>3. CASE \/ Leave
             \/ \E c \in Calls : Reload(c) \/ \E l \in Layouts : Open(c, l)
    BY <1>3, VisitSeats
  <1>4. ASSUME NEW l \in Layouts, SaveElsewhere(l) \/ Assign(l) PROVE SeatInv'
    BY <1>0, <1>4, WorldSeats
  <1>5. CASE UNCHANGED vars
    BY <1>5 DEF vars, SeatInv, store, server
  <1> QED
    BY <1>1, <1>2, <1>3, <1>4, <1>5 DEF Next

(* However saves are doubled, unanswered or overtaken, and whatever undo,  *)
(* redo and import bring back, no seat is stored in two rows of a layout.  *)
THEOREM RowPerSeat == Spec => []OneRowPerSeat
  <1>1. SeatInv => OneRowPerSeat
    BY DEF SeatInv, StoredOnce, OneRowPerSeat
  <1> QED
    BY InitTypes, NextTypes, InitSeats, NextSeats, <1>1, PTL DEF Spec

----------------------------------------------------------------------------
(* Savable plans: which rows the plan may name while its version is the    *)
(* current one.                                                            *)

(* A save that no load has overtaken, and one that went through. *)
Timely(c) == call[c].kind = "save" /\ ~call[c].late
Through(c) == call[c].step \in {"committed", "replied"}

(* Nothing carries a version that is still to come. *)
TokensInv ==
    /\ layout # None => token <= version[layout]
    /\ \A c \in Calls :
          /\ call[c].kind # "idle" => call[c].token <= version[call[c].layout]
          /\ call[c].kind = "save" /\ Through(c) =>
                call[c].base <= version[call[c].layout]

(* A layout that was read with the current version shows its rows only:    *)
(* the version is read before the seats.                                   *)
LoadsInv ==
    \A c \in Calls :
        /\ call[c].kind = "load" /\ call[c].step = "replied"
        /\ call[c].token = version[call[c].layout]
        => RowsOf(call[c].plan) \subseteq DOMAIN stored[call[c].layout].born

(* While the plan is not in doubt, at most one of the saves under way went *)
(* through; the tab and the others have older versions, so they will not,  *)
(* and the plan names only the rows it asked for.                          *)
SavesInv ==
    doubt = {} =>
        \A c \in Calls : Timely(c) =>
            /\ call[c].layout = layout
            /\ call[c].step = "sent" /\ call[c].token = version[layout] =>
                  RowsOf(plan) \subseteq RowsOf(call[c].plan)
            /\ Through(c) =>
                  /\ token < call[c].base
                  /\ \A d \in Calls : Timely(d) =>
                        /\ Through(d) => d = c
                        /\ call[d].step = "sent" => call[d].token < call[c].base
                  /\ call[c].base = version[layout] =>
                        RowsOf(plan) \cup {call[c].ids[s] : s \in DOMAIN call[c].ids}
                           \subseteq DOMAIN stored[layout].born

SavableInv == TokensInv /\ LoadsInv /\ SavableWhenCurrent /\ SavesInv

(* Steps that do to saves only what their own progress does keep what is   *)
(* known of them.                                                          *)
LEMMA SavesKept ==
    ASSUME SavesInv, UNCHANGED <<layout, token, version, stored>>,
           doubt' = {} => doubt = {} /\ RowsOf(plan') \subseteq RowsOf(plan),
           \A d \in Calls : call'[d].kind = "save" /\ ~call'[d].late =>
              /\ Timely(d)
              /\ call'[d].layout = call[d].layout /\ call'[d].base = call[d].base
              /\ call'[d].plan = call[d].plan /\ call'[d].ids = call[d].ids
              /\ call'[d].step = "sent" =>
                    call[d].step = "sent" /\ call'[d].token = call[d].token
              /\ call'[d].step \in {"committed", "replied"} => Through(d)
    PROVE  SavesInv'
  BY DEF SavesInv, Timely, Through

(* The rows a plan has after an operation of the page. *)
LEMMA EditRows ==
    ASSUME TypeInv, SeatInv, Edit, doubt' = {}
    PROVE  /\ doubt = {}
           /\ \/ RowsOf(plan') \subseteq RowsOf(plan)
              \/ /\ RowsOf(plan') \subseteq DOMAIN stored[layout].born
                 /\ \A c \in Calls : call[c].kind # "save"
  <1>1. doubt = {}
    BY EditFrame
  <1>2. ASSUME NEW q \in Derived(plan), Drawn(q)
        PROVE  RowsOf(plan') \subseteq RowsOf(plan)
    <2>1. /\ rowSeq \in Nat /\ plan \in Plans
          /\ Fits(plan, stored, rowSeq, made) /\ StoredOnce(stored, rowSeq, made)
      BY VenueEditorAssumption DEF TypeInv, TypeOK, SeatInv, Sound
    <2>2. /\ plan' = q /\ made \subseteq made'
          /\ \A n \in 1..MaxSeats : MadeSeat(n) \in DOMAIN q.seats => n \in made'
      BY <1>2 DEF Drawn
    <2>3. RowsOf(q) \subseteq RowsOf(plan)
      BY <2>1, <2>2, DerivedFits
    <2> QED
      BY <2>2, <2>3
  <1>3. ASSUME NEW p, Restored(p), plan' = p
        PROVE  /\ RowsOf(plan') \subseteq DOMAIN stored[layout].born
               /\ \A c \in Calls : call[c].kind # "save"
    <2>1. ~OutOfStep(p)
      BY <1>3 DEF Restored
    <2> QED
      BY <1>3, <2>1 DEF OutOfStep, Waiting
  <1>4. CASE LockGroup
    <2>1. PICK n \in 2..(MaxSeats + MaxRows) :
            \E p \in [1..n -> Restyled(plan)] : Drawn(p[n])
      BY <1>4 DEF LockGroup
    <2>2. n \in 1..n
      BY <2>1, VenueEditorAssumption
    <2> QED
      BY <1>1, <1>2, <2>1, <2>2 DEF Derived
  <1>5. CASE Undo \/ Redo \/ Import
    BY <1>1, <1>3, <1>5 DEF Undo, Redo, Import, Restored
  <1>6. CASE Export
    BY <1>1, <1>6 DEF Export, store
  <1>7. UNCHANGED plan => RowsOf(plan') \subseteq RowsOf(plan)
    OBVIOUS
  <1> QED
    BY <1>1, <1>2, <1>4, <1>5, <1>6, <1>7, EditForms

(* Operations of the page keep the plan savable. *)
LEMMA EditSavable == ASSUME TypeInv, SeatInv, SavableInv, Edit PROVE SavableInv'
  <1>1. UNCHANGED <<layout, token, call, version, stored>>
    BY EditFrame DEF server
  <1>2. TokensInv' /\ LoadsInv'
    BY <1>1 DEF SavableInv, TokensInv, LoadsInv, Through
  <1>3. SavableWhenCurrent'
    BY <1>1, EditRows DEF SavableInv, SavableWhenCurrent
  <1>4. SavesInv'
    <2>1. CASE doubt' # {}
      BY <2>1 DEF SavesInv
    <2>2. CASE doubt' = {} /\ RowsOf(plan') \subseteq RowsOf(plan)
      BY <1>1, <2>2, EditRows, SavesKept DEF SavableInv, Timely, Through
    <2>3. CASE \A c \in Calls : call[c].kind # "save"
      BY <1>1, <2>3 DEF SavesInv, Timely
    <2> QED
      BY <2>1, <2>2, <2>3, EditRows
  <1> QED
    BY <1>2, <1>3, <1>4 DEF SavableInv

(* What a layout shows when it was read are its rows. *)
LEMMA SeatsOfRows ==
    ASSUME TypeInv, NEW l \in Layouts, NEW p, p.seats = SeatsOf(l)
    PROVE  RowsOf(p) \subseteq DOMAIN stored[l].born
  <1>1. DOMAIN stored[l].born \subseteq Rows
    <2>1. stored[l] \in [born : UNION {[T -> SeatIds] : T \in SUBSET Rows},
                         look : Looks \cup {None}]
      BY DEF TypeInv, TypeOK
    <2> QED
      BY <2>1
  <1>2. /\ DOMAIN p.seats = {RowSeat(r) : r \in DOMAIN stored[l].born}
        /\ \A s \in DOMAIN p.seats : p.seats[s] = CHOOSE r \in Rows : s = RowSeat(r)
    BY DEF SeatsOf
  <1>3. \A s \in DOMAIN p.seats : p.seats[s] \in DOMAIN stored[l].born
    BY <1>1, <1>2 DEF RowSeat
  <1> QED
    BY <1>3 DEF RowsOf

(* A layout has a new version: no token and no reply has it yet.           *)
LEMMA NewVersion ==
    ASSUME TypeInv, SavableInv, NEW l \in Layouts,
           version' = [version EXCEPT ![l] = @ + 1],
           \A m \in Layouts : m # l => stored'[m] = stored[m],
           UNCHANGED <<layout, token, plan, doubt>>
    PROVE  /\ SavableWhenCurrent'
           /\ \A m \in Layouts : version[m] \in Nat /\ version[m] <= version'[m]
           /\ version'[l] = version[l] + 1
           /\ \A m \in Layouts : m # l => version'[m] = version[m]
           /\ layout # None => layout \in Layouts /\ token <= version[layout]
           /\ token \in Nat
  <1>1. /\ version \in [Layouts -> Nat] /\ token \in Nat
        /\ layout \in Layouts \cup {None}
    BY DEF TypeInv, TypeOK
  <1>2. /\ \A m \in Layouts : version[m] \in Nat /\ version[m] <= version'[m]
        /\ version'[l] = version[l] + 1
        /\ \A m \in Layouts : m # l => version'[m] = version[m]
    BY <1>1
  <1>3. layout # None => layout \in Layouts /\ token <= version[layout]
    BY <1>1 DEF SavableInv, TokensInv
  <1>4. SavableWhenCurrent'
    <2> SUFFICES ASSUME layout # None, doubt = {}, token = version'[layout]
                 PROVE  RowsOf(plan) \subseteq DOMAIN stored'[layout].born
      BY DEF SavableWhenCurrent
    <2>1. layout # l
      BY <1>1, <1>2, <1>3
    <2> QED
      BY <1>2, <1>3, <2>1 DEF SavableInv, SavableWhenCurrent
  <1> QED
    BY <1>1, <1>2, <1>3, <1>4

(* The server's transaction keeps the plan savable. *)
LEMMA CommitSavable ==
    ASSUME TypeInv, SavableInv, NEW c \in Calls, Commit(c)
    PROVE  SavableInv'
  <1> DEFINE l == call[c].layout
  <1>a. PICK ids \in [NewSeats(call[c].plan) -> Rows], n \in rowSeq..MaxRows :
           CommitsAs(c, l, ids, n)
    BY CommitForms
  <1> HIDE DEF l
  <1>1. /\ l = call[c].layout /\ l \in Layouts
        /\ call[c].kind = "save" /\ call[c].step = "sent"
        /\ call[c].token = version[l]
        /\ version' = [version EXCEPT ![l] = @ + 1]
        /\ UNCHANGED <<layout, token, plan, doubt>>
    BY <1>a DEF CommitsAs, Acceptable, store, history
  <1>2. /\ call \in [Calls -> Requests] /\ DOMAIN stored = Layouts
        /\ version \in [Layouts -> Nat]
    BY DEF TypeInv, TypeOK
  <1>3. stored' = [stored EXCEPT ![l] = [born |-> RowsAfter(c, ids),
                                        look |-> call[c].plan.look]]
    BY <1>a DEF CommitsAs
  <1>4. /\ \A m \in Layouts : m # l => stored'[m] = stored[m]
        /\ DOMAIN stored'[l].born =
              RowsOf(call[c].plan) \cup {ids[s] : s \in DOMAIN ids}
    <2>1. stored'[l].born = RowsAfter(c, ids)
      BY <1>1, <1>2, <1>3
    <2> QED
      BY <1>2, <1>3, <2>1 DEF RowsAfter
  <1>5. /\ call'[c].kind = "save" /\ call'[c].step = "committed"
        /\ call'[c].layout = l /\ call'[c].late = call[c].late
        /\ call'[c].token = call[c].token /\ call'[c].ids = ids
        /\ call'[c].base = version[l] + 1
        /\ \A d \in Calls : d # c => call'[d] = call[d]
    <2>1. call' = [call EXCEPT ![c] =
                     [call[c] EXCEPT !.step = "committed", !.ids = ids,
                                     !.base = version[l] + 1]]
      BY <1>a DEF CommitsAs
    <2> QED
      BY <1>1, <1>2, <2>1 DEF Requests
  <1>6. /\ SavableWhenCurrent'
        /\ \A m \in Layouts : version[m] \in Nat /\ version[m] <= version'[m]
        /\ version'[l] = version[l] + 1
        /\ \A m \in Layouts : m # l => version'[m] = version[m]
        /\ layout # None => layout \in Layouts /\ token <= version[layout]
        /\ token \in Nat
    BY <1>1, <1>4, NewVersion
  <1>7. \A d \in Calls :
           /\ call[d].token \in Nat /\ call[d].base \in Nat
           /\ call[d].kind # "idle" =>
                 /\ call[d].layout \in Layouts
                 /\ call[d].token <= version[call[d].layout]
           /\ call[d].kind = "save" /\ Through(d) =>
                 call[d].base <= version[call[d].layout]
    BY <1>2 DEF Requests, TypeInv, Addressed, SavableInv, TokensInv
  <1>8. TokensInv'
    <2> SUFFICES ASSUME NEW d \in Calls
                 PROVE  /\ call'[d].kind # "idle" =>
                              call'[d].token <= version'[call'[d].layout]
                        /\ call'[d].kind = "save"
                              /\ call'[d].step \in {"committed", "replied"} =>
                              call'[d].base <= version'[call'[d].layout]
                        /\ layout' # None => token' <= version'[layout']
      BY DEF TokensInv, Through
    <2>1. layout' # None => token' <= version'[layout']
      BY <1>1, <1>6
    <2>2. CASE d = c
      BY <1>1, <1>5, <1>6, <1>7, <2>1, <2>2
    <2>3. CASE d # c
      BY <1>5, <1>6, <1>7, <2>1, <2>3 DEF Through
    <2> QED
      BY <2>2, <2>3
  <1>9. LoadsInv'
    <2> SUFFICES ASSUME NEW d \in Calls, call'[d].kind = "load",
                        call'[d].step = "replied",
                        call'[d].token = version'[call'[d].layout]
                 PROVE  RowsOf(call'[d].plan) \subseteq
                           DOMAIN stored'[call'[d].layout].born
      BY DEF LoadsInv
    <2>1. d # c /\ call'[d] = call[d] /\ call[d].layout \in Layouts
      BY <1>5, <1>7
    <2>2. call[d].layout # l
      BY <1>1, <1>6, <1>7, <2>1
    <2> QED
      BY <1>4, <1>6, <2>1, <2>2 DEF SavableInv, LoadsInv
  <1>10. SavesInv'
    <2> SUFFICES ASSUME doubt' = {}, NEW d \in Calls, Timely(d)'
                 PROVE  /\ call'[d].layout = layout'
                        /\ call'[d].step = "sent" /\ call'[d].token = version'[layout'] =>
                              RowsOf(plan') \subseteq RowsOf(call'[d].plan)
                        /\ Through(d)' =>
                              /\ token' < call'[d].base
                              /\ \A e \in Calls : Timely(e)' =>
                                    /\ Through(e)' => e = d
                                    /\ call'[e].step = "sent" =>
                                          call'[e].token < call'[d].base
                              /\ call'[d].base = version'[layout'] =>
                                    RowsOf(plan') \cup
                                       {call'[d].ids[s] : s \in DOMAIN call'[d].ids}
                                       \subseteq DOMAIN stored'[layout'].born
      BY DEF SavesInv
    <2>1. /\ doubt = {} /\ Timely(d) /\ call[d].layout = layout /\ layout \in Layouts
          /\ call'[d].layout = call[d].layout
      BY <1>1, <1>5, <1>7 DEF SavableInv, SavesInv, Timely
    <2>2. \A e \in Calls : Timely(e)' => Timely(e) /\ call[e].layout = layout
      BY <1>1, <1>5, <2>1 DEF SavableInv, SavesInv, Timely
    <2>3. ASSUME NEW e \in Calls, Timely(e), Through(e) PROVE ~Timely(c)
      <3> SUFFICES ASSUME Timely(c) PROVE FALSE
        OBVIOUS
      <3>1. call[c].token < call[e].base /\ call[e].layout = l
        BY <1>1, <2>1, <2>3 DEF SavableInv, SavesInv
      <3>2. call[e].base <= version[l] /\ call[e].base \in Nat
        BY <1>7, <2>3, <3>1 DEF Timely
      <3> QED
        BY <1>1, <1>6, <3>1, <3>2
    <2>4. CASE d = c
      <3>1. Timely(c) /\ l = layout
        BY <1>1, <2>1, <2>4
      <3>2. RowsOf(plan) \subseteq RowsOf(call[c].plan)
        BY <1>1, <2>1, <3>1 DEF SavableInv, SavesInv
      <3>3. \A e \in Calls : Timely(e)' =>
               /\ Through(e)' => e = d
               /\ call'[e].step = "sent" => call'[e].token < call'[d].base
        <4> SUFFICES ASSUME NEW e \in Calls, Timely(e)', e # d
                     PROVE  /\ ~(call'[e].step \in {"committed", "replied"})
                            /\ call'[e].step = "sent" => call'[e].token < call'[d].base
          BY <1>5, <2>4 DEF Through
        <4>1. call'[e] = call[e] /\ Timely(e) /\ call[e].layout = l
          BY <1>5, <2>2, <2>4, <3>1
        <4>2. ~Through(e)
          BY <2>3, <3>1, <4>1
        <4>3. call[e].token <= version[l] /\ call[e].token \in Nat
          BY <1>7, <4>1 DEF Timely
        <4> QED
          BY <1>1, <1>5, <1>6, <2>4, <4>1, <4>2, <4>3 DEF Through
      <3>4. token' < call'[d].base
        BY <1>1, <1>5, <1>6, <2>1, <2>4, <3>1, VenueEditorAssumption
      <3> QED
        BY <1>1, <1>4, <1>5, <2>1, <2>4, <3>1, <3>2, <3>3, <3>4
    <2>5. CASE d # c
      <3>1. call'[d] = call[d]
        BY <1>5, <2>5
      <3>2. call[d].token = version'[layout] => layout # l
        BY <1>1, <1>6, <1>7, <2>1 DEF Timely
      <3>3. ASSUME Through(d)
            PROVE  /\ \A e \in Calls : Timely(e)' => call'[e] = call[e]
                   /\ call[d].base = version'[layout] => layout # l
        <4>1. ~Timely(c)
          BY <2>1, <2>3, <3>3
        <4>2. \A e \in Calls : Timely(e)' => call'[e] = call[e]
          BY <1>1, <1>5, <4>1 DEF Timely
        <4>3. call[d].base <= version[layout] /\ call[d].base \in Nat
          BY <1>7, <2>1, <3>3 DEF Timely
        <4> QED
          BY <1>1, <1>6, <4>2, <4>3
      <3>4. call'[d].step = "sent" /\ call'[d].token = version'[layout'] =>
               RowsOf(plan') \subseteq RowsOf(call'[d].plan)
        BY <1>1, <1>6, <2>1, <3>1, <3>2 DEF SavableInv, SavesInv
      <3>5. ASSUME Through(d)
            PROVE  /\ token' < call'[d].base
                   /\ \A e \in Calls : Timely(e)' =>
                         /\ Through(e)' => e = d
                         /\ call'[e].step = "sent" => call'[e].token < call'[d].base
                   /\ call'[d].base = version'[layout'] =>
                         RowsOf(plan') \cup
                            {call'[d].ids[s] : s \in DOMAIN call'[d].ids}
                            \subseteq DOMAIN stored'[layout'].born
        <4>1. /\ token < call[d].base
              /\ \A e \in Calls : Timely(e) =>
                    /\ Through(e) => e = d
                    /\ call[e].step = "sent" => call[e].token < call[d].base
              /\ call[d].base = version[layout] =>
                    RowsOf(plan) \cup {call[d].ids[s] : s \in DOMAIN call[d].ids}
                       \subseteq DOMAIN stored[layout].born
          BY <2>1, <3>5 DEF SavableInv, SavesInv
        <4>2. \A e \in Calls : Timely(e)' =>
                 /\ Through(e)' => e = d
                 /\ call'[e].step = "sent" => call'[e].token < call'[d].base
          BY <2>2, <3>1, <3>3, <3>5, <4>1 DEF Through
        <4> QED
          BY <1>1, <1>4, <1>6, <2>1, <3>1, <3>3, <3>5, <4>1, <4>2
      <3>6. Through(d)' => Through(d)
        BY <3>1 DEF Through
      <3> QED
        BY <1>1, <2>1, <3>4, <3>5, <3>6
    <2> QED
      BY <2>4, <2>5
  <1> QED
    BY <1>6, <1>8, <1>9, <1>10 DEF SavableInv

(* Requests and their replies keep the plan savable. *)
LEMMA CallSavable ==
    ASSUME TypeInv, SavableInv, NEW c \in Calls, Saving(c) \/ Loading(c) \/ Fail(c)
    PROVE  SavableInv'
  <1>0. /\ call \in [Calls -> Requests] /\ version \in [Layouts -> Nat] /\ token \in Nat
        /\ layout \in Layouts \cup {None} /\ plan \in Plans
    BY DEF TypeInv, TypeOK
  <1>k. \A d \in Calls :
           /\ call[d].token \in Nat /\ call[d].base \in Nat
           /\ call[d].kind # "idle" =>
                 /\ call[d].layout \in Layouts
                 /\ call[d].token <= version[call[d].layout]
           /\ call[d].kind = "save" /\ Through(d) =>
                 call[d].base <= version[call[d].layout]
    BY <1>0 DEF Requests, TypeInv, Addressed, SavableInv, TokensInv
  <1>1. CASE ClickSave(c)
    <2>1. /\ UNCHANGED <<layout, token, plan, version, stored, base, doubt>>
          /\ layout \in Layouts /\ call[c] = Idle
      BY <1>0, <1>1 DEF ClickSave, server, history, Editing, TypeInv, TypeOK
    <2>2. call' = [call EXCEPT ![c] =
                   [kind |-> "save", step |-> "sent", visit |-> page.visit,
                    layout |-> layout, token |-> token, base |-> base,
                    doubt |-> doubt, plan |-> plan, ids |-> NoSeats,
                    late |-> FALSE]]
      BY <1>1 DEF ClickSave
    <2>3. /\ call'[c].kind = "save" /\ call'[c].step = "sent"
          /\ call'[c].layout = layout /\ call'[c].token = token
          /\ call'[c].plan = plan
          /\ \A d \in Calls : d # c => call'[d] = call[d]
      BY <1>0, <2>2
    <2>4. TokensInv' /\ LoadsInv' /\ SavableWhenCurrent'
      BY <2>1, <2>3, VenueEditorAssumption
         DEF SavableInv, TokensInv, LoadsInv, SavableWhenCurrent, Through
    <2>5. SavesInv'
      BY <2>1, <2>3 DEF SavableInv, SavesInv, Timely, Through
    <2> QED
      BY <2>4, <2>5 DEF SavableInv
  <1>2. CASE Commit(c)
    BY <1>2, CommitSavable
  <1>3. CASE ReRead(c)
    <2>1. /\ UNCHANGED <<layout, token, plan, version, stored, base, doubt>>
          /\ call[c].step = "committed" /\ call[c].kind = "save"
      BY <1>3 DEF ReRead, store, server, history, TypeInv, Addressed
    <2>2. /\ call'[c].step = "replied" /\ call'[c].token = version[call[c].layout]
          /\ call'[c].kind = call[c].kind /\ call'[c].layout = call[c].layout
          /\ call'[c].base = call[c].base /\ call'[c].plan = call[c].plan
          /\ call'[c].ids = call[c].ids /\ call'[c].late = call[c].late
          /\ \A d \in Calls : d # c => call'[d] = call[d]
      BY <1>0, <1>3 DEF ReRead, Requests
    <2>3. TokensInv'
      BY <1>0, <1>k, <2>1, <2>2 DEF SavableInv, TokensInv, Through
    <2>4. LoadsInv' /\ SavableWhenCurrent'
      BY <2>1, <2>2 DEF SavableInv, LoadsInv, SavableWhenCurrent
    <2>5. SavesInv'
      BY <2>1, <2>2, SavesKept DEF SavableInv, Timely, Through
    <2> QED
      BY <2>3, <2>4, <2>5 DEF SavableInv
  <1>4. CASE ApplySave(c)
    <2>1. /\ call[c].kind = "save" /\ call[c].step = "replied"
          /\ plan' = Stamped(plan, call[c].ids)
          /\ layout' = call[c].layout /\ token' = call[c].token
          /\ doubt' = {} => /\ doubt = {} /\ ~call[c].late
                            /\ call[c].token = call[c].base
          /\ UNCHANGED <<version, stored>>
          /\ call' = [call EXCEPT ![c] = Idle]
      BY <1>0, <1>4 DEF ApplySave, server, Requests
    <2>2. call'[c] = Idle /\ \A d \in Calls : d # c => call'[d] = call[d]
      BY <1>0, <2>1
    <2>3. /\ layout' \in Layouts /\ token' <= version[layout'] /\ Through(c)
      BY <1>k, <2>1 DEF Through
    <2>4. TokensInv' /\ LoadsInv'
      BY <2>1, <2>2, <2>3, IdleTypes DEF SavableInv, TokensInv, LoadsInv, Through
    <2>5. ASSUME doubt' = {}
          PROVE  /\ layout = layout' /\ Timely(c)
                 /\ token' = version[layout'] =>
                       RowsOf(plan) \cup {call[c].ids[s] : s \in DOMAIN call[c].ids}
                          \subseteq DOMAIN stored[layout].born
                 /\ \A d \in Calls : Timely(d) =>
                       /\ call[d].layout = layout
                       /\ Through(d) => d = c
                       /\ call[d].step = "sent" => call[d].token < call[c].base
      BY <2>1, <2>3, <2>5 DEF SavableInv, SavesInv, Timely
    <2>6. RowsOf(plan') \subseteq
             RowsOf(plan) \cup {call[c].ids[s] : s \in DOMAIN call[c].ids}
      <3> DEFINE ids == call[c].ids
      <3> DEFINE q == Stamped(plan, ids)
      <3>1. q.seats = [s \in DOMAIN plan.seats |->
                          IF s \in DOMAIN ids THEN ids[s] ELSE plan.seats[s]]
        BY <1>0 DEF Stamped, Plans
      <3>2. plan' = q
        BY <2>1
      <3> HIDE DEF ids, q
      <3>3. RowsOf(q) \subseteq RowsOf(plan) \cup {ids[s] : s \in DOMAIN ids}
        BY <3>1 DEF RowsOf
      <3> QED
        BY <3>2, <3>3 DEF ids
    <2>7. SavableWhenCurrent'
      BY <2>1, <2>5, <2>6 DEF SavableWhenCurrent
    <2>8. SavesInv'
      <3> SUFFICES ASSUME doubt' = {}, NEW d \in Calls, Timely(d)'
                   PROVE  /\ call'[d].layout = layout'
                          /\ ~(call'[d].step = "sent" /\ call'[d].token = version'[layout'])
                          /\ ~Through(d)'
        BY DEF SavesInv
      <3>1. d # c /\ call'[d] = call[d] /\ Timely(d)
        BY <2>2, IdleTypes DEF Timely
      <3>2. /\ call[d].layout = layout' /\ ~Through(d)
            /\ call[d].step = "sent" => call[d].token < call[c].base
        BY <2>5, <3>1
      <3>3. call[c].base <= version[layout'] /\ call[c].base \in Nat
        BY <1>k, <2>1, <2>3
      <3>4. version[layout'] \in Nat /\ call[d].token \in Nat
        BY <1>0, <1>k, <2>3
      <3> QED
        BY <2>1, <3>1, <3>2, <3>3, <3>4 DEF Through
    <2> QED
      BY <2>4, <2>7, <2>8 DEF SavableInv
  <1>5. CASE GetLayout(c)
    <2> DEFINE l == call[c].layout
    <2>1. /\ call[c].kind = "load" /\ l \in Layouts
          /\ call[c].plan \in [seats : Seatings, look : Looks \cup {None}]
          /\ UNCHANGED <<store, server, history>>
      BY <1>5, ReadForms DEF TypeInv, Addressed
    <2>2. /\ call'[c].kind = "load" /\ call'[c].layout = l
          /\ call'[c].token \in {call[c].token, version[l]}
          /\ call'[c].step = "replied" => call'[c].plan.seats = SeatsOf(l)
          /\ \A d \in Calls : d # c => call'[d] = call[d]
      <3>1. CASE call' = [call EXCEPT ![c] =
                     [call[c] EXCEPT !.step = "half", !.token = version[l],
                         !.plan = [call[c].plan EXCEPT !.look = stored[l].look]]]
        BY <1>0, <2>1, <3>1 DEF Requests
      <3>2. CASE call' = [call EXCEPT ![c] =
                     [call[c] EXCEPT !.step = "replied",
                         !.plan = [call[c].plan EXCEPT !.seats = SeatsOf(l)]]]
        BY <1>0, <2>1, <3>2 DEF Requests
      <3> QED
        BY <1>5, <3>1, <3>2, ReadForms
    <2> HIDE DEF l
    <2>3. TokensInv'
      <3>1. call'[c].token <= version[l]
        BY <1>0, <1>k, <2>1, <2>2 DEF l
      <3> QED
        BY <2>1, <2>2, <3>1 DEF SavableInv, TokensInv, Through, store, server
    <2>4. LoadsInv'
      <3>1. call'[c].step = "replied" =>
               RowsOf(call'[c].plan) \subseteq DOMAIN stored[l].born
        BY <2>1, <2>2, SeatsOfRows
      <3> QED
        BY <2>1, <2>2, <3>1 DEF SavableInv, LoadsInv, server
    <2>5. SavableWhenCurrent'
      BY <2>1 DEF SavableInv, SavableWhenCurrent, store, server, history
    <2>6. SavesInv'
      BY <2>1, <2>2, SavesKept DEF SavableInv, Timely, Through, store, server, history
    <2> QED
      BY <2>3, <2>4, <2>5, <2>6 DEF SavableInv
  <1>6. CASE ApplyLoad(c)
    <2>1. /\ call[c].kind = "load" /\ call[c].step = "replied"
          /\ plan' = Hydrated(call[c].plan)
          /\ layout' = call[c].layout /\ token' = call[c].token
          /\ UNCHANGED <<version, stored>>
          /\ call' = [d \in Calls |->
                        IF d = c THEN Idle
                        ELSE IF Waiting(d) THEN [call[d] EXCEPT !.late = TRUE]
                        ELSE call[d]]
      BY <1>6 DEF ApplyLoad, server
    <2>2. call[c].plan \in [seats : Seatings, look : Looks \cup {None}]
      BY <2>1 DEF TypeInv, Addressed
    <2>3. plan'.seats = call[c].plan.seats
      BY <2>1, <2>2 DEF Hydrated
    <2>4. \A d \in Calls :
             \/ call'[d] = Idle
             \/ /\ call'[d].kind = call[d].kind /\ call'[d].step = call[d].step
                /\ call'[d].layout = call[d].layout /\ call'[d].token = call[d].token
                /\ call'[d].base = call[d].base /\ call'[d].plan = call[d].plan
                /\ call'[d].kind = "save" => call'[d].late
      BY <1>0, <2>1 DEF Requests, Waiting
    <2>5. TokensInv'
      <3>1. layout' # None => token' <= version[layout']
        BY <1>k, <2>1
      <3> QED
        BY <2>1, <2>4, <3>1, IdleTypes DEF SavableInv, TokensInv, Through
    <2>6. LoadsInv'
      BY <2>1, <2>4, IdleTypes DEF SavableInv, LoadsInv
    <2>7. SavableWhenCurrent'
      <3>1. RowsOf(plan') = RowsOf(call[c].plan)
        BY <2>3 DEF RowsOf
      <3> QED
        BY <2>1, <3>1 DEF SavableInv, LoadsInv, SavableWhenCurrent
    <2>8. SavesInv'
      BY <2>4, IdleTypes DEF SavesInv, Timely
    <2> QED
      BY <2>5, <2>6, <2>7, <2>8 DEF SavableInv
  <1>7. CASE Fail(c)
    <2>1. /\ UNCHANGED <<store, server, history>>
          /\ \A d \in Calls : call'[d] = call[d] \/ call'[d] = Idle
      BY <1>0, <1>7 DEF Fail
    <2>2. TokensInv' /\ LoadsInv' /\ SavableWhenCurrent'
      BY <2>1, IdleTypes DEF SavableInv, TokensInv, LoadsInv, SavableWhenCurrent,
         Through, store, server, history
    <2>3. SavesInv'
      BY <2>1, IdleTypes, SavesKept DEF SavableInv, Timely, Through, store, server, history
    <2> QED
      BY <2>2, <2>3 DEF SavableInv
  <1> QED
    BY <1>1, <1>2, <1>3, <1>4, <1>5, <1>6, <1>7 DEF Saving, Loading

(* So do visits. *)
LEMMA VisitSavable ==
    ASSUME TypeInv, SavableInv,
           \/ Leave
           \/ \E c \in Calls : Reload(c) \/ \E l \in Layouts : Open(c, l)
    PROVE  SavableInv'
  <1>0. call \in [Calls -> Requests] /\ version \in [Layouts -> Nat]
    BY DEF TypeInv, TypeOK
  <1>1. ASSUME NEW l \in Layouts, UNCHANGED <<layout, token, plan, server, history>>,
               \A d \in Calls :
                  \/ call'[d] = Idle \/ call'[d] = LoadOf(l)
                  \/ call'[d] = [call[d] EXCEPT !.visit = 0] \/ call'[d] = call[d]
        PROVE  SavableInv'
    <2>1. \A d \in Calls :
             \/ call'[d].kind = "idle"
             \/ /\ call'[d].kind = "load" /\ call'[d].step = "sent"
                /\ call'[d].token = 0 /\ call'[d].layout = l
             \/ /\ call'[d].kind = call[d].kind /\ call'[d].step = call[d].step
                /\ call'[d].layout = call[d].layout /\ call'[d].token = call[d].token
                /\ call'[d].base = call[d].base /\ call'[d].plan = call[d].plan
                /\ call'[d].ids = call[d].ids /\ call'[d].late = call[d].late
      <3>1. LoadOf(l).token = 0
        BY DEF LoadOf, Idle
      <3>2. \A d \in Calls :
               LET r == [call[d] EXCEPT !.visit = 0]
               IN  /\ r.kind = call[d].kind /\ r.step = call[d].step
                   /\ r.layout = call[d].layout /\ r.token = call[d].token
                   /\ r.base = call[d].base /\ r.plan = call[d].plan
                   /\ r.ids = call[d].ids /\ r.late = call[d].late
        BY <1>0 DEF Requests
      <3>3. /\ LoadOf(l).kind = "load" /\ LoadOf(l).step = "sent"
            /\ LoadOf(l).layout = l
        BY LoadTypes
      <3> TAKE d \in Calls
      <3>4. CASE call'[d] = Idle
        BY <3>4, IdleTypes
      <3>5. CASE call'[d] = LoadOf(l)
        BY <3>1, <3>3, <3>5
      <3>6. CASE call'[d] = [call[d] EXCEPT !.visit = 0]
        BY <3>2, <3>6
      <3>7. CASE call'[d] = call[d]
        BY <3>7
      <3> QED
        BY <1>1, <3>4, <3>5, <3>6, <3>7
    <2>2. version[l] \in Nat
      BY <1>0
    <2>3. TokensInv' /\ LoadsInv' /\ SavableWhenCurrent'
      BY <1>1, <2>1, <2>2 DEF SavableInv, TokensInv, LoadsInv, SavableWhenCurrent,
         Through, server, history
    <2>4. SavesInv'
      BY <1>1, <2>1, SavesKept DEF SavableInv, Timely, Through, server, history
    <2> QED
      BY <2>3, <2>4 DEF SavableInv
  <1>2. CASE Leave
    <2>1. UNCHANGED <<layout, token, plan, call, version, stored, base, doubt>>
      BY <1>2 DEF Leave, store, server, history
    <2> QED
      BY <2>1 DEF SavableInv, TokensInv, LoadsInv, SavableWhenCurrent, SavesInv, Timely,
         Through
  <1>3. ASSUME NEW c \in Calls, NEW l \in Layouts, Open(c, l) PROVE SavableInv'
    <2>1. /\ UNCHANGED <<layout, token, plan, server, history>>
          /\ \A d \in Calls : call'[d] = LoadOf(l) \/ call'[d] = call[d]
      BY <1>0, <1>3 DEF Open, store
    <2> QED
      BY <1>1, <2>1
  <1>4. ASSUME NEW c \in Calls, Reload(c) PROVE SavableInv'
    <2>1. page.layout \in Layouts
      BY <1>4 DEF Reload, TypeInv, Addressed
    <2>2. /\ UNCHANGED <<layout, token, plan, server, history>>
          /\ \A d \in Calls :
                \/ call'[d] = Idle \/ call'[d] = LoadOf(page.layout)
                \/ call'[d] = [call[d] EXCEPT !.visit = 0] \/ call'[d] = call[d]
      BY <1>4 DEF Reload
    <2> QED
      BY <1>1, <2>1, <2>2
  <1> QED
    BY <1>2, <1>3, <1>4

(* So do saves from another browser, which give the layout a new version,  *)
(* and events.                                                             *)
LEMMA WorldSavable ==
    ASSUME TypeInv, SavableInv, NEW l \in Layouts, SaveElsewhere(l) \/ Assign(l)
    PROVE  SavableInv'
  <1>0. /\ call \in [Calls -> Requests] /\ version \in [Layouts -> Nat]
        /\ DOMAIN stored = Layouts
    BY DEF TypeInv, TypeOK
  <1>1. CASE SaveElsewhere(l)
    <2>1. /\ version' = [version EXCEPT ![l] = @ + 1]
          /\ \A m \in Layouts : m # l => stored'[m] = stored[m]
          /\ UNCHANGED <<layout, token, plan, base, doubt, call>>
      BY <1>0, <1>1 DEF SaveElsewhere, store, history
    <2>2. /\ SavableWhenCurrent'
          /\ \A m \in Layouts : version[m] \in Nat /\ version[m] <= version'[m]
          /\ version'[l] = version[l] + 1
          /\ \A m \in Layouts : m # l => version'[m] = version[m]
          /\ layout # None => layout \in Layouts /\ token <= version[layout]
          /\ token \in Nat
      BY <2>1, NewVersion
    <2>3. \A d \in Calls :
             /\ call[d].token \in Nat /\ call[d].base \in Nat
             /\ call[d].kind # "idle" =>
                   /\ call[d].layout \in Layouts
                   /\ call[d].token <= version[call[d].layout]
             /\ call[d].kind = "save" /\ Through(d) =>
                   call[d].base <= version[call[d].layout]
      BY <1>0 DEF Requests, TypeInv, Addressed, SavableInv, TokensInv
    <2>4. TokensInv'
      <3>1. layout' # None => token' <= version'[layout']
        BY <2>1, <2>2
      <3>2. \A d \in Calls :
               /\ call[d].kind # "idle" => call[d].token <= version'[call[d].layout]
               /\ call[d].kind = "save" /\ Through(d) =>
                     call[d].base <= version'[call[d].layout]
        BY <2>2, <2>3
      <3> QED
        BY <2>1, <3>1, <3>2 DEF TokensInv, Through
    <2>5. LoadsInv'
      <3> SUFFICES ASSUME NEW d \in Calls, call[d].kind = "load",
                          call[d].step = "replied",
                          call[d].token = version'[call[d].layout]
                   PROVE  RowsOf(call[d].plan) \subseteq
                             DOMAIN stored'[call[d].layout].born
        BY <2>1 DEF LoadsInv
      <3>1. call[d].layout \in Layouts \ {l}
        BY <2>2, <2>3
      <3> QED
        BY <2>1, <2>2, <3>1 DEF SavableInv, LoadsInv
    <2>6. SavesInv'
      <3> SUFFICES ASSUME doubt = {}, NEW d \in Calls, Timely(d)
                   PROVE  /\ call[d].layout = layout
                          /\ call[d].step = "sent" /\ call[d].token = version'[layout] =>
                                RowsOf(plan) \subseteq RowsOf(call[d].plan)
                          /\ Through(d) =>
                                /\ token < call[d].base
                                /\ \A e \in Calls : Timely(e) =>
                                      /\ Through(e) => e = d
                                      /\ call[e].step = "sent" =>
                                            call[e].token < call[d].base
                                /\ call[d].base = version'[layout] =>
                                      RowsOf(plan) \cup
                                         {call[d].ids[s] : s \in DOMAIN call[d].ids}
                                         \subseteq DOMAIN stored'[layout].born
        BY <2>1 DEF SavesInv, Timely, Through
      <3>1. /\ call[d].layout = layout /\ layout \in Layouts
            /\ call[d].token <= version[layout]
            /\ Through(d) => call[d].base <= version[layout]
        BY <2>3 DEF SavableInv, SavesInv, Timely
      <3>2. CASE layout = l
        BY <2>2, <2>3, <3>1, <3>2 DEF SavableInv, SavesInv
      <3>3. CASE layout # l
        BY <2>1, <2>2, <3>1, <3>3 DEF SavableInv, SavesInv
      <3> QED
        BY <3>2, <3>3
    <2> QED
      BY <2>2, <2>4, <2>5, <2>6 DEF SavableInv
  <1>2. CASE Assign(l)
    <2>1. UNCHANGED <<layout, token, plan, call, version, stored, base, doubt>>
      BY <1>2 DEF Assign, store, history
    <2> QED
      BY <2>1 DEF SavableInv, TokensInv, LoadsInv, SavableWhenCurrent, SavesInv, Timely,
         Through
  <1> QED
    BY <1>1, <1>2

(* SavableInv holds at first. *)
LEMMA InitSavable == Init => SavableInv
  <1> SUFFICES ASSUME Init PROVE SavableInv
    OBVIOUS
  <1>1. layout = None /\ \A c \in Calls : call[c].kind = "idle"
    BY IdleTypes DEF Init
  <1> QED
    BY <1>1 DEF SavableInv, TokensInv, LoadsInv, SavableWhenCurrent, SavesInv, Timely

(* SavableInv holds after every step. *)
LEMMA NextSavable == TypeInv /\ SeatInv /\ SavableInv /\ [Next]_vars => SavableInv'
  <1> SUFFICES ASSUME TypeInv, SeatInv, SavableInv, [Next]_vars PROVE SavableInv'
    OBVIOUS
  <1>1. CASE Edit
    BY <1>1, EditSavable
  <1>2. ASSUME NEW c \in Calls, Saving(c) \/ Loading(c) \/ Fail(c) PROVE SavableInv'
    BY <1>2, CallSavable
  <1>3. CASE \/ Leave
             \/ \E c \in Calls : Reload(c) \/ \E l \in Layouts : Open(c, l)
    BY <1>3, VisitSavable
  <1>4. ASSUME NEW l \in Layouts, SaveElsewhere(l) \/ Assign(l) PROVE SavableInv'
    BY <1>4, WorldSavable
  <1>5. CASE UNCHANGED vars
    BY <1>5 DEF vars, SavableInv, TokensInv, LoadsInv, SavableWhenCurrent, SavesInv,
       Timely, Through, store, server, history
  <1> QED
    BY <1>1, <1>2, <1>3, <1>4, <1>5 DEF Next

(* A tab with the current version and a plan that was not put in doubt     *)
(* shows rows of its layout only, with any number of saves under way and   *)
(* any delay of their replies.                                             *)
THEOREM CurrentIsSavable == Spec => []SavableWhenCurrent
  <1>1. SavableInv => SavableWhenCurrent
    BY DEF SavableInv
  <1> QED
    BY InitTypes, NextTypes, InitSeats, NextSeats, InitSavable, NextSavable, <1>1, PTL
       DEF Spec

----------------------------------------------------------------------------
(* Rows keep their seats: which rows a plan may show as new seats.         *)

(* None of the rows was inserted for one of the seats in S. *)
NoneOf(S, born) == \A r \in DOMAIN born : born[r] \notin S

(* What is known of the plan once the reply to c is applied: its version   *)
(* is the layout's only if the reply reads it now.                         *)
Marked(c) ==
    doubt \cup (IF call[c].late THEN {"late"} ELSE {})
          \cup (IF version[call[c].layout] # call[c].base THEN {"overtaken"}
                ELSE {})

(* As long as no late answer was applied, at most one of the saves clicked *)
(* since the load went through, and it left the tab and every save that is *)
(* still under way to that layout with an older version.                   *)
AnswersInv ==
    "late" \notin doubt =>
        \A c \in Calls : Timely(c) =>
            /\ call[c].layout = layout
            /\ Through(c) =>
                  /\ token < call[c].base
                  /\ \A d \in Calls : Timely(d) /\ Through(d) => d = c
                  /\ \A d \in Calls :
                        /\ call[d].kind = "save" /\ call[d].step = "sent"
                        /\ call[d].layout = layout
                        => call[d].token < call[c].base

(* The plan shows no row of its layout as new while the version is         *)
(* current; nor does a loaded plan, a save that may still be accepted, or  *)
(* the plan that gets the rows of a save and the current version with it.  *)
NewInv ==
    /\ Traceable(doubt) /\ layout # None /\ token = version[layout] =>
          NoneOf(NewSeats(plan), stored[layout].born)
    /\ \A c \in Calls : call[c].kind = "load" => NewSeats(call[c].plan) = {}
    /\ \A c \in Calls :
          /\ call[c].kind = "save" /\ call[c].step = "sent"
          /\ call[c].token = version[call[c].layout]
          => /\ Traceable(call[c].doubt) =>
                   NoneOf(NewSeats(call[c].plan), stored[call[c].layout].born)
             /\ Traceable(doubt) =>
                   NoneOf(NewSeats(plan), stored[call[c].layout].born)
    /\ \A c \in Calls :
          /\ call[c].kind = "save" /\ Through(c)
          /\ call[c].step = "replied" => call[c].token = version[call[c].layout]
          /\ Traceable(Marked(c))
          => NoneOf(NewSeats(plan) \ DOMAIN call[c].ids, stored[call[c].layout].born)

IdentityInv == AnswersInv /\ NewInv

(* Fewer doubts are fewer, and fewer seats are in fewer rows.              *)
LEMMA FewerTraceable ==
    /\ \A D, E : D \subseteq E /\ Traceable(E) => Traceable(D)
    /\ \A S, T, b : S \subseteq T /\ NoneOf(T, b) => NoneOf(S, b)
  BY DEF Traceable, NoneOf

(* Steps in which a save only makes its own progress, nothing is accepted  *)
(* and the plan shows no stored seat as new that it did not show so before *)
(* keep the invariant.                                                     *)
LEMMA IdentityKept ==
    ASSUME IdentityInv, UNCHANGED <<layout, token, version>>, doubt \subseteq doubt',
           TypeInv,
           \A l \in Layouts : stored'[l] = stored[l],
           \A l \in Layouts, r \in Rows :
              /\ r \in DOMAIN stored[l].born
              /\ stored[l].born[r] \in NewSeats(plan')
              => stored[l].born[r] \in NewSeats(plan),
           \A d \in Calls : call'[d].kind = "load" => NewSeats(call'[d].plan) = {},
           \A d \in Calls : call'[d].kind = "save" =>
              /\ call[d].kind = "save"
              /\ call'[d].layout = call[d].layout /\ call'[d].base = call[d].base
              /\ call'[d].plan = call[d].plan /\ call'[d].ids = call[d].ids
              /\ call'[d].doubt = call[d].doubt /\ call'[d].late = call[d].late
              /\ call'[d].step = "sent" =>
                    call[d].step = "sent" /\ call'[d].token = call[d].token
              /\ call'[d].step = "committed" => call[d].step = "committed"
              /\ call'[d].step = "replied" =>
                    \/ call[d].step = "committed"
                    \/ call[d].step = "replied" /\ call'[d].token = call[d].token
    PROVE  IdentityInv'
  <1>0. /\ layout \in Layouts \cup {None}
        /\ \A l \in Layouts : DOMAIN stored[l].born \subseteq Rows
        /\ \A d \in Calls : call[d].kind = "save" => call[d].layout \in Layouts
    <2>1. \A l \in Layouts : stored[l] \in [born : UNION {[T -> SeatIds] : T \in SUBSET Rows},
                                            look : Looks \cup {None}]
      BY DEF TypeInv, TypeOK
    <2>2. \A l \in Layouts : DOMAIN stored[l].born \subseteq Rows
      BY <2>1
    <2> QED
      BY <2>2 DEF TypeInv, TypeOK, Addressed
  <1>1. \A l \in Layouts : \A S :
           NoneOf(NewSeats(plan) \ S, stored[l].born) =>
              NoneOf(NewSeats(plan') \ S, stored'[l].born)
    BY <1>0 DEF NoneOf
  <1>2. \A l \in Layouts :
           NoneOf(NewSeats(plan), stored[l].born) =>
              NoneOf(NewSeats(plan'), stored'[l].born)
    BY <1>0 DEF NoneOf
  <1>3. Traceable(doubt') => Traceable(doubt)
    BY FewerTraceable
  <1>4. AnswersInv'
    BY DEF IdentityInv, AnswersInv, Timely, Through
  <1>5. Traceable(doubt') /\ layout' # None /\ token' = version'[layout'] =>
           NoneOf(NewSeats(plan'), stored'[layout'].born)
    BY <1>0, <1>2, <1>3 DEF IdentityInv, NewInv
  <1>6. ASSUME NEW d \in Calls, call'[d].kind = "save", call'[d].step = "sent",
               call'[d].token = version'[call'[d].layout]
        PROVE  /\ Traceable(call'[d].doubt) =>
                     NoneOf(NewSeats(call'[d].plan), stored'[call'[d].layout].born)
               /\ Traceable(doubt') =>
                     NoneOf(NewSeats(plan'), stored'[call'[d].layout].born)
    BY <1>0, <1>2, <1>3, <1>6 DEF IdentityInv, NewInv
  <1>7. ASSUME NEW d \in Calls, call'[d].kind = "save", Through(d)',
               call'[d].step = "replied" => call'[d].token = version'[call'[d].layout],
               Traceable(Marked(d)')
        PROVE  NoneOf(NewSeats(plan') \ DOMAIN call'[d].ids, stored'[call'[d].layout].born)
    <2>1. /\ call[d].kind = "save" /\ Through(d) /\ call[d].layout \in Layouts
          /\ call[d].step = "replied" => call[d].token = version[call[d].layout]
          /\ call'[d].ids = call[d].ids /\ call'[d].layout = call[d].layout
      BY <1>0, <1>7 DEF Through
    <2>2. Marked(d) \subseteq Marked(d)'
      BY <1>7 DEF Marked
    <2>3. Traceable(Marked(d))
      BY <1>7, <2>2, FewerTraceable
    <2>4. NoneOf(NewSeats(plan) \ DOMAIN call[d].ids, stored[call[d].layout].born)
      BY <2>1, <2>3 DEF IdentityInv, NewInv
    <2> QED
      BY <1>1, <2>1, <2>4
  <1> QED
    BY <1>4, <1>5, <1>6, <1>7 DEF IdentityInv, NewInv

(* The seats an operation of the store adds without a row are fresh.       *)
LEMMA WithNews ==
    ASSUME NEW p \in Plans, NEW N, NEW row
    PROVE  NewSeats(With(p, N, row)) \subseteq NewSeats(p) \cup N
  <1> DEFINE q == With(p, N, row)
  <1>1. q.seats = [s \in DOMAIN p.seats \cup N |->
                      IF s \in N THEN row[s] ELSE p.seats[s]]
    BY DEF With, Plans
  <1> HIDE DEF q
  <1>2. NewSeats(q) \subseteq NewSeats(p) \cup N
    BY <1>1 DEF NewSeats
  <1> QED
    BY <1>2 DEF q

LEMMA DerivedNews ==
    ASSUME NEW p \in Plans, NEW q \in Derived(p)
    PROVE  \A s \in NewSeats(q) \ NewSeats(p) :
              \E n \in (1..MaxSeats) \ made : s = MadeSeat(n)
  <1>f. \A N \in FreshSets : \A s \in N : \E n \in (1..MaxSeats) \ made : s = MadeSeat(n)
    BY DEF FreshSets
  <1>1. CASE q \in Added(p)
    BY <1>1, <1>f, WithNews DEF Added
  <1>2. ASSUME NEW S \in SUBSET DOMAIN p.seats
        PROVE  /\ Keep(p, S) \in Plans
               /\ NewSeats(Keep(p, S)) \subseteq NewSeats(p)
    <2>1. Keep(p, S).seats = [s \in S |-> p.seats[s]]
      BY DEF Keep, Plans
    <2> QED
      BY <2>1, KeepIsPlan DEF NewSeats
  <1>3. CASE q \in Deleted(p)
    BY <1>2, <1>3 DEF Deleted
  <1>4. CASE q \in Filled(p)
    <2>1. PICK S \in SUBSET DOMAIN p.seats, N \in FreshSets :
             q = With(Keep(p, S), N, Unstored(N))
      BY <1>4 DEF Filled
    <2>2. NewSeats(q) \subseteq NewSeats(Keep(p, S)) \cup N
      BY <1>2, <2>1, WithNews
    <2> QED
      BY <1>2, <1>f, <2>2
  <1>5. CASE q \in RowDuplicated(p)
    <2> DEFINE Copies(N) ==
                 {With(p, N, [n \in N |-> p.seats[f[n]]]) :
                    f \in {g \in [N -> DOMAIN p.seats] :
                              \A m, n \in N : g[m] = g[n] => m = n}}
    <2>1. PICK N \in FreshSets : q \in Copies(N)
      <3>1. RowDuplicated(p) = UNION {Copies(N) : N \in FreshSets \ {{}}}
        BY Zenon DEF RowDuplicated
      <3> HIDE DEF Copies
      <3> QED
        BY <1>5, <3>1
    <2>2. PICK row : q = With(p, N, row)
      BY <2>1
    <2>3. NewSeats(q) \subseteq NewSeats(p) \cup N
      BY <2>2, WithNews
    <2> QED
      BY <1>f, <2>3
  <1>6. CASE q \in Restyled(p)
    BY <1>6 DEF Restyled, Plans, NewSeats
  <1> QED
    BY <1>1, <1>3, <1>4, <1>5, <1>6 DEF Derived, Resized

(* A seat made by an operation of the page has no row yet; a plan that     *)
(* comes back is noted as one from before a save, or shows none of the     *)
(* rows of its layout as new, with no save under way.                      *)
LEMMA EditNews ==
    ASSUME TypeInv, SeatInv, Edit
    PROVE  \/ \A l \in Layouts, r \in Rows :
                 /\ r \in DOMAIN stored[l].born
                 /\ stored[l].born[r] \in NewSeats(plan')
                 => stored[l].born[r] \in NewSeats(plan)
           \/ "rewound" \in doubt'
           \/ /\ NoneOf(NewSeats(plan'), stored[layout].born)
              /\ \A c \in Calls : call[c].kind # "save"
  <1> DEFINE Fresh == \A l \in Layouts, r \in Rows :
                         /\ r \in DOMAIN stored[l].born
                         /\ stored[l].born[r] \in NewSeats(plan')
                         => stored[l].born[r] \in NewSeats(plan)
  <1>1. ASSUME NEW q \in Derived(plan), Drawn(q) PROVE Fresh
    <2> SUFFICES ASSUME NEW l \in Layouts, NEW r \in DOMAIN stored[l].born,
                        stored[l].born[r] \in NewSeats(q) \ NewSeats(plan)
                 PROVE  FALSE
      BY <1>1 DEF Drawn
    <2>1. plan \in Plans /\ StoredOnce(stored, rowSeq, made)
      BY DEF TypeInv, TypeOK, SeatInv
    <2>2. PICK n \in (1..MaxSeats) \ made : stored[l].born[r] = MadeSeat(n)
      BY <2>1, DerivedNews
    <2>3. stored[l].born[r] \in {RowSeat(r)} \cup {MadeSeat(m) : m \in made}
      BY <2>1 DEF StoredOnce
    <2> QED
      BY <2>2, <2>3 DEF RowSeat, MadeSeat
  <1>2. UNCHANGED plan => Fresh
    BY Zenon
  <1> HIDE DEF Fresh
  <1>3. ASSUME NEW p, Restored(p)
        PROVE  \/ "rewound" \in doubt'
               \/ /\ NoneOf(NewSeats(plan'), stored[layout].born)
                  /\ \A c \in Calls : call[c].kind # "save"
    <2>1. OutOfStep(p) => "rewound" \in doubt'
      BY <1>3 DEF Restored
    <2>2. ASSUME ~OutOfStep(p)
          PROVE  /\ NoneOf(NewSeats(plan'), stored[layout].born)
                 /\ \A c \in Calls : call[c].kind # "save"
      BY <1>3, <2>2 DEF Restored, OutOfStep, Waiting, NoneOf
    <2> QED
      BY <2>1, <2>2
  <1>4. CASE LockGroup
    <2>1. PICK n \in 2..(MaxSeats + MaxRows) :
            \E p \in [1..n -> Restyled(plan)] : Drawn(p[n])
      BY <1>4 DEF LockGroup
    <2>2. n \in 1..n
      BY <2>1, VenueEditorAssumption
    <2>3. Fresh
      BY <1>1, <2>1, <2>2 DEF Derived
    <2> QED
      BY <2>3 DEF Fresh
  <1>5. CASE Undo \/ Redo \/ Import
    BY <1>3, <1>5 DEF Undo, Redo, Import
  <1>6. CASE Export
    BY <1>2, <1>6 DEF Export, store, Fresh
  <1>7. CASE (\E q \in Derived(plan) : Drawn(q)) \/ UNCHANGED <<plan, made>>
    BY <1>1, <1>2, <1>7 DEF Fresh
  <1> QED
    BY <1>4, <1>5, <1>6, <1>7, EditForms

(* Operations of the page keep the invariant. *)
LEMMA EditIdentity ==
    ASSUME TypeInv, SeatInv, IdentityInv, Edit PROVE IdentityInv'
  <1>1. /\ UNCHANGED <<layout, token, call, version, stored>>
        /\ doubt \subseteq doubt'
    BY EditFrame DEF server
  <1>2. CASE \A l \in Layouts, r \in Rows :
                /\ r \in DOMAIN stored[l].born
                /\ stored[l].born[r] \in NewSeats(plan')
                => stored[l].born[r] \in NewSeats(plan)
    <2>1. /\ \A d \in Calls : call'[d].kind = "load" => NewSeats(call'[d].plan) = {}
          /\ call' = call
      BY <1>1 DEF IdentityInv, NewInv
    <2>2. \A d \in Calls : call[d].step \in {"committed", "replied"} => Through(d)
      BY DEF Through
    <2> QED
      BY <1>1, <1>2, <2>1, IdentityKept
  <1>3. AnswersInv'
    BY <1>1 DEF IdentityInv, AnswersInv, Timely, Through
  <1>4. CASE "rewound" \in doubt'
    <2>1. ~Traceable(doubt') /\ \A d \in Calls : ~Traceable(Marked(d)')
      BY <1>4 DEF Traceable, Marked
    <2>2. NewInv'
      BY <1>1, <2>1 DEF IdentityInv, NewInv
    <2> QED
      BY <1>3, <2>2 DEF IdentityInv
  <1>5. CASE /\ NoneOf(NewSeats(plan'), stored[layout].born)
             /\ \A c \in Calls : call[c].kind # "save"
    <2>1. NewInv'
      BY <1>1, <1>5 DEF IdentityInv, NewInv
    <2> QED
      BY <1>3, <2>1 DEF IdentityInv
  <1> QED
    BY <1>2, <1>4, <1>5, EditNews

(* What the types and TokensInv say of a request. *)
LEMMA CallFacts ==
    ASSUME TypeInv, SavableInv
    PROVE  /\ call \in [Calls -> Requests] /\ version \in [Layouts -> Nat]
           /\ DOMAIN stored = Layouts
           /\ token \in Nat /\ layout \in Layouts \cup {None} /\ plan \in Plans
           /\ layout # None => token <= version[layout]
           /\ \A d \in Calls :
                 /\ call[d].token \in Nat /\ call[d].base \in Nat
                 /\ call[d].kind # "idle" =>
                       /\ call[d].layout \in Layouts
                       /\ call[d].token <= version[call[d].layout]
                 /\ call[d].kind = "save" /\ Through(d) =>
                       call[d].base <= version[call[d].layout]
  BY DEF TypeInv, TypeOK, Addressed, Requests, SavableInv, TokensInv

(* When layout l gets a new version, whatever carried its version carries  *)
(* it no longer, and a save that went through and is not yet answered will *)
(* be answered with the version of another one.                            *)
LEMMA NewVersionIdentity ==
    ASSUME TypeInv, SavableInv, IdentityInv, NEW l \in Layouts,
           version' = [version EXCEPT ![l] = @ + 1],
           \A m \in Layouts : m # l => stored'[m] = stored[m],
           UNCHANGED <<layout, token, plan, doubt>>
    PROVE  /\ Traceable(doubt') /\ layout' # None /\ token' = version'[layout'] =>
                 NoneOf(NewSeats(plan'), stored'[layout'].born)
           /\ \A d \in Calls :
                 call'[d] = call[d] /\ call[d].kind = "save" =>
                    /\ call[d].step = "sent" /\ call[d].token = version'[call[d].layout]
                       => /\ Traceable(call[d].doubt) =>
                                NoneOf(NewSeats(call[d].plan),
                                       stored'[call[d].layout].born)
                          /\ Traceable(doubt) =>
                                NoneOf(NewSeats(plan), stored'[call[d].layout].born)
                    /\ /\ Through(d)
                       /\ call[d].step = "replied" =>
                             call[d].token = version'[call[d].layout]
                       /\ Traceable(Marked(d)')
                       => \/ /\ call[d].layout # l
                             /\ NoneOf(NewSeats(plan) \ DOMAIN call[d].ids,
                                       stored'[call[d].layout].born)
                          \/ /\ call[d].layout = l /\ call[d].step = "committed"
                             /\ Timely(d) /\ "late" \notin doubt
                             /\ Traceable(doubt)
                             /\ Traceable(Marked(d))
  <1>1. /\ version \in [Layouts -> Nat] /\ token \in Nat /\ layout \in Layouts \cup {None}
        /\ layout # None => token <= version[layout]
    BY CallFacts
  <1>2. /\ version'[l] = version[l] + 1
        /\ \A m \in Layouts : m # l => version'[m] = version[m]
    BY <1>1
  <1>3. ASSUME Traceable(doubt'), layout' # None, token' = version'[layout']
        PROVE  NoneOf(NewSeats(plan'), stored'[layout'].born)
    <2>1. layout \in Layouts \ {l}
      BY <1>1, <1>2, <1>3
    <2> QED
      BY <1>2, <1>3, <2>1 DEF IdentityInv, NewInv
  <1>4. ASSUME NEW d \in Calls, call'[d] = call[d], call[d].kind = "save"
        PROVE  /\ call[d].step = "sent" /\ call[d].token = version'[call[d].layout]
                  => /\ Traceable(call[d].doubt) =>
                           NoneOf(NewSeats(call[d].plan), stored'[call[d].layout].born)
                     /\ Traceable(doubt) =>
                           NoneOf(NewSeats(plan), stored'[call[d].layout].born)
               /\ /\ Through(d)
                  /\ call[d].step = "replied" => call[d].token = version'[call[d].layout]
                  /\ Traceable(Marked(d)')
                  => \/ /\ call[d].layout # l
                        /\ NoneOf(NewSeats(plan) \ DOMAIN call[d].ids,
                                  stored'[call[d].layout].born)
                     \/ /\ call[d].layout = l /\ call[d].step = "committed"
                        /\ Timely(d) /\ "late" \notin doubt
                        /\ Traceable(doubt)
                        /\ Traceable(Marked(d))
    <2>1. /\ call[d].token \in Nat /\ call[d].base \in Nat /\ call[d].layout \in Layouts
          /\ call[d].token <= version[call[d].layout]
          /\ Through(d) => call[d].base <= version[call[d].layout]
      BY <1>4, CallFacts
    <2>2. CASE call[d].layout # l
      <3>1. /\ version'[call[d].layout] = version[call[d].layout]
            /\ stored'[call[d].layout] = stored[call[d].layout]
        BY <1>2, <2>1, <2>2
      <3>2. Marked(d)' = Marked(d)
        BY <1>4, <3>1 DEF Marked
      <3> QED
        BY <1>4, <2>2, <3>1, <3>2 DEF IdentityInv, NewInv
    <2>3. CASE call[d].layout = l
      <3>1. call[d].token # version'[l]
        BY <1>1, <1>2, <2>1, <2>3
      <3>2. ASSUME Through(d), Traceable(Marked(d)')
            PROVE  /\ Timely(d) /\ "late" \notin doubt /\ Traceable(doubt)
                   /\ Traceable(Marked(d))
        <4>1. version'[call'[d].layout] # call'[d].base
          BY <1>1, <1>2, <1>4, <2>1, <2>3, <3>2
        <4>2. /\ "overtaken" \in Marked(d)'
              /\ call[d].late => "late" \in Marked(d)'
              /\ doubt \subseteq Marked(d)'
          BY <1>4, <4>1 DEF Marked
        <4>3. ~call[d].late /\ "late" \notin doubt
          BY <3>2, <4>2 DEF Traceable
        <4>4. Marked(d) \subseteq Marked(d)'
          BY <4>2, <4>3 DEF Marked
        <4> QED
          BY <1>4, <3>2, <4>2, <4>3, <4>4, FewerTraceable DEF Timely
      <3> QED
        BY <2>3, <3>1, <3>2 DEF Through
    <2> QED
      BY <2>2, <2>3
  <1> QED
    BY <1>3, <1>4

(* The server's transaction gives the plan's new seats their rows, and     *)
(* what it keeps of the other rows the plan knows.                         *)
LEMMA CommitIdentity ==
    ASSUME TypeInv, SavableInv, IdentityInv, NEW c \in Calls, Commit(c)
    PROVE  IdentityInv'
  <1> DEFINE l == call[c].layout
  <1>a. PICK ids \in [NewSeats(call[c].plan) -> Rows], n \in rowSeq..MaxRows :
           CommitsAs(c, l, ids, n)
    BY CommitForms
  <1> HIDE DEF l
  <1>1. /\ l = call[c].layout /\ l \in Layouts
        /\ call[c].kind = "save" /\ call[c].step = "sent"
        /\ call[c].token = version[l]
        /\ version' = [version EXCEPT ![l] = @ + 1]
        /\ UNCHANGED <<layout, token, plan, doubt>>
    BY <1>a DEF CommitsAs, Acceptable, store, history
  <1>2. /\ call \in [Calls -> Requests] /\ DOMAIN stored = Layouts
        /\ version \in [Layouts -> Nat] /\ version'[l] = version[l] + 1
    BY <1>1, CallFacts
  <1>3. stored' = [stored EXCEPT ![l] = [born |-> RowsAfter(c, ids),
                                        look |-> call[c].plan.look]]
    BY <1>a DEF CommitsAs
  <1>4. /\ \A m \in Layouts : m # l => stored'[m] = stored[m]
        /\ stored'[l].born = RowsAfter(c, ids)
    BY <1>1, <1>2, <1>3
  <1>5. /\ call'[c].kind = "save" /\ call'[c].step = "committed"
        /\ call'[c].layout = l /\ call'[c].late = call[c].late
        /\ call'[c].ids = ids /\ call'[c].base = version'[l]
        /\ \A d \in Calls : d # c => call'[d] = call[d]
    BY <1>1, <1>2, <1>a DEF CommitsAs, Requests
  <1>6. \A d \in Calls : d # c => Timely(d)' = Timely(d) /\ Through(d)' = Through(d)
    BY <1>5 DEF Timely, Through
  <1>7. ASSUME NEW e \in Calls, "late" \notin doubt, Timely(e), Through(e)
        PROVE  call[e].layout # l
    <2> SUFFICES ASSUME call[e].layout = l PROVE FALSE
      OBVIOUS
    <2>1. call[e].layout = layout /\ call[c].token < call[e].base
      BY <1>1, <1>7 DEF IdentityInv, AnswersInv
    <2>2. call[e].base <= version[l] /\ call[e].base \in Nat /\ version[l] \in Nat
      BY <1>1, <1>2, <1>7, CallFacts DEF Timely
    <2> QED
      BY <1>1, <2>1, <2>2
  <1>8. AnswersInv'
    <2> SUFFICES ASSUME "late" \notin doubt, NEW e \in Calls, Timely(e)'
                 PROVE  /\ call'[e].layout = layout
                        /\ Through(e)' =>
                              /\ token < call'[e].base
                              /\ \A d \in Calls : Timely(d)' /\ Through(d)' => d = e
                              /\ \A d \in Calls :
                                    /\ call'[d].kind = "save" /\ call'[d].step = "sent"
                                    /\ call'[d].layout = layout
                                    => call'[d].token < call'[e].base
      BY <1>1 DEF AnswersInv
    <2>1. \A d \in Calls : call'[d].kind = "save" /\ call'[d].step = "sent" =>
             d # c /\ call'[d] = call[d]
      BY <1>5
    <2>2. CASE e = c
      <3>1. Timely(c) /\ l = layout
        BY <1>1, <1>5, <2>2 DEF Timely, IdentityInv, AnswersInv
      <3>2. token < call'[c].base
        <4>1. token <= version[l] /\ token \in Nat
          BY <1>1, <3>1, CallFacts, VenueEditorAssumption
        <4> QED
          BY <1>1, <1>2, <1>5, <4>1
      <3>3. \A d \in Calls : Timely(d)' /\ Through(d)' => d = c
        <4> SUFFICES ASSUME NEW d \in Calls, d # c, Timely(d), Through(d) PROVE FALSE
          BY <1>6
        <4>1. call[d].layout = layout
          BY DEF IdentityInv, AnswersInv
        <4> QED
          BY <1>7, <3>1, <4>1
      <3>4. \A d \in Calls :
               /\ call'[d].kind = "save" /\ call'[d].step = "sent"
               /\ call'[d].layout = layout
               => call'[d].token < call'[c].base
        <4> SUFFICES ASSUME NEW d \in Calls, call[d].kind = "save",
                            call[d].layout = layout
                     PROVE  call[d].token < call'[c].base
          BY <2>1
        <4>1. call[d].token <= version[l] /\ call[d].token \in Nat
          BY <3>1, CallFacts
        <4> QED
          BY <1>1, <1>2, <1>5, <4>1
      <3> QED
        BY <1>5, <2>2, <3>1, <3>2, <3>3, <3>4
    <2>3. CASE e # c
      <3>1. call'[e] = call[e] /\ Timely(e) /\ Through(e)' = Through(e)
        BY <1>5, <1>6, <2>3
      <3>2. call[e].layout = layout
        BY <3>1 DEF IdentityInv, AnswersInv
      <3>3. Through(e) => ~Timely(c)
        BY <1>1, <1>7, <3>1, <3>2 DEF IdentityInv, AnswersInv
      <3>4. Through(e) => \A d \in Calls : Timely(d)' /\ Through(d)' => d = e
        <4> SUFFICES ASSUME Through(e), NEW d \in Calls, Timely(d)', Through(d)'
                     PROVE  d = e
          OBVIOUS
        <4>1. d # c
          BY <1>1, <1>5, <3>3 DEF Timely
        <4> QED
          BY <1>6, <3>1, <4>1 DEF IdentityInv, AnswersInv
      <3>5. Through(e) =>
               /\ token < call[e].base
               /\ \A d \in Calls :
                     /\ call'[d].kind = "save" /\ call'[d].step = "sent"
                     /\ call'[d].layout = layout
                     => call'[d].token < call[e].base
        BY <2>1, <3>1 DEF IdentityInv, AnswersInv
      <3> QED
        BY <3>1, <3>2, <3>4, <3>5
    <2> QED
      BY <2>2, <2>3
  <1>9. Traceable(doubt) =>
           NoneOf(NewSeats(plan) \ DOMAIN ids, stored'[l].born)
    <2> SUFFICES ASSUME Traceable(doubt), NEW r \in DOMAIN RowsAfter(c, ids)
                 PROVE  RowsAfter(c, ids)[r] \notin NewSeats(plan) \ DOMAIN ids
      BY <1>4 DEF NoneOf
    <2> DEFINE born == stored[l].born
    <2> DEFINE new == {ids[s] : s \in DOMAIN ids}
    <2>1. /\ r \in RowsOf(call[c].plan) \cup new
          /\ RowsAfter(c, ids)[r] = IF r \in new THEN CHOOSE s \in DOMAIN ids : ids[s] = r
                                    ELSE born[r]
      BY <1>1 DEF RowsAfter
    <2>2. NoneOf(NewSeats(plan), born) /\ RowsOf(call[c].plan) \subseteq DOMAIN born
      BY <1>1, <1>a DEF IdentityInv, NewInv, CommitsAs, Acceptable
    <2>3. CASE r \in new
      BY <2>1, <2>3
    <2>4. CASE r \notin new
      BY <2>1, <2>2, <2>4 DEF NoneOf
    <2> QED
      BY <2>3, <2>4
  <1>10. /\ Traceable(doubt') /\ layout' # None /\ token' = version'[layout'] =>
               NoneOf(NewSeats(plan'), stored'[layout'].born)
         /\ \A d \in Calls : d # c /\ call[d].kind = "save" =>
               /\ call[d].step = "sent" /\ call[d].token = version'[call[d].layout]
                  => /\ Traceable(call[d].doubt) =>
                           NoneOf(NewSeats(call[d].plan), stored'[call[d].layout].born)
                     /\ Traceable(doubt) =>
                           NoneOf(NewSeats(plan), stored'[call[d].layout].born)
               /\ /\ Through(d)
                  /\ call[d].step = "replied" => call[d].token = version'[call[d].layout]
                  /\ Traceable(Marked(d)')
                  => NoneOf(NewSeats(plan) \ DOMAIN call[d].ids,
                            stored'[call[d].layout].born)
    BY <1>1, <1>4, <1>5, <1>7, NewVersionIdentity
  <1>11. \A d \in Calls : call'[d].kind = "load" => NewSeats(call'[d].plan) = {}
    BY <1>5 DEF IdentityInv, NewInv
  <1>12. ASSUME NEW d \in Calls, call'[d].kind = "save", call'[d].step = "sent",
                call'[d].token = version'[call'[d].layout]
         PROVE  /\ Traceable(call'[d].doubt) =>
                      NoneOf(NewSeats(call'[d].plan), stored'[call'[d].layout].born)
                /\ Traceable(doubt') =>
                      NoneOf(NewSeats(plan'), stored'[call'[d].layout].born)
    <2>1. d # c /\ call'[d] = call[d]
      BY <1>5, <1>12
    <2> QED
      BY <1>1, <1>10, <1>12, <2>1
  <1>13. ASSUME NEW d \in Calls, call'[d].kind = "save", Through(d)',
                call'[d].step = "replied" => call'[d].token = version'[call'[d].layout],
                Traceable(Marked(d)')
         PROVE  NoneOf(NewSeats(plan') \ DOMAIN call'[d].ids,
                       stored'[call'[d].layout].born)
    <2>1. CASE d = c
      <3>1. Traceable(doubt)
        <4>1. doubt \subseteq Marked(d)'
          BY <1>1 DEF Marked
        <4> QED
          BY <1>13, <4>1, FewerTraceable
      <3> QED
        BY <1>1, <1>5, <1>9, <2>1, <3>1
    <2>2. CASE d # c
      BY <1>1, <1>5, <1>6, <1>10, <1>13, <2>2
    <2> QED
      BY <2>1, <2>2
  <1> QED
    BY <1>8, <1>10, <1>11, <1>12, <1>13 DEF IdentityInv, NewInv

(* Requests and their replies keep the invariant.                          *)
LEMMA CallIdentity ==
    ASSUME TypeInv, SeatInv, SavableInv, IdentityInv, NEW c \in Calls,
           Saving(c) \/ Loading(c) \/ Fail(c)
    PROVE  IdentityInv'
  <1>0. /\ call \in [Calls -> Requests] /\ plan \in Plans
        /\ layout \in Layouts \cup {None}
    BY CallFacts
  <1>l. /\ \A d \in Calls : call[d].kind = "load" => NewSeats(call[d].plan) = {}
        /\ \A d \in Calls : call[d].step \in {"committed", "replied"} => Through(d)
    BY DEF IdentityInv, NewInv, Through
  <1>1. CASE ClickSave(c)
    <2>1. /\ UNCHANGED <<layout, token, plan, version, stored, base, doubt>>
          /\ layout \in Layouts /\ call[c] = Idle
      BY <1>0, <1>1 DEF ClickSave, server, history, Editing, TypeInv, TypeOK
    <2>2. call' = [call EXCEPT ![c] =
                   [kind |-> "save", step |-> "sent", visit |-> page.visit,
                    layout |-> layout, token |-> token, base |-> base,
                    doubt |-> doubt, plan |-> plan, ids |-> NoSeats,
                    late |-> FALSE]]
      BY <1>1 DEF ClickSave
    <2>3. /\ call'[c].kind = "save" /\ call'[c].step = "sent"
          /\ call'[c].layout = layout /\ call'[c].token = token
          /\ call'[c].plan = plan /\ call'[c].doubt = doubt
          /\ \A d \in Calls : d # c => call'[d] = call[d]
      BY <1>0, <2>2
    <2>4. AnswersInv'
      BY <2>1, <2>3 DEF IdentityInv, AnswersInv, Timely, Through
    <2>5. ASSUME NEW d \in Calls, call'[d].kind = "save", Through(d)',
                 call'[d].step = "replied" =>
                    call'[d].token = version'[call'[d].layout],
                 Traceable(Marked(d)')
          PROVE  NoneOf(NewSeats(plan') \ DOMAIN call'[d].ids,
                        stored'[call'[d].layout].born)
      <3>1. d # c /\ call'[d] = call[d]
        BY <2>3, <2>5 DEF Through
      <3>2. Marked(d)' = Marked(d)
        BY <2>1, <3>1 DEF Marked
      <3> QED
        BY <2>1, <2>5, <3>1, <3>2 DEF IdentityInv, NewInv, Through
    <2>6. NewInv'
      BY <1>l, <2>1, <2>3, <2>5, VenueEditorAssumption DEF IdentityInv, NewInv
    <2> QED
      BY <2>4, <2>6 DEF IdentityInv
  <1>2. CASE Commit(c)
    BY <1>2, CommitIdentity
  <1>3. CASE ReRead(c)
    <2>1. /\ UNCHANGED <<layout, token, plan, version, stored, base, doubt>>
          /\ call[c].step = "committed" /\ call[c].kind = "save"
      BY <1>3 DEF ReRead, store, server, history, TypeInv, Addressed
    <2>2. /\ call'[c].step = "replied"
          /\ call'[c].kind = call[c].kind /\ call'[c].layout = call[c].layout
          /\ call'[c].base = call[c].base /\ call'[c].plan = call[c].plan
          /\ call'[c].ids = call[c].ids /\ call'[c].late = call[c].late
          /\ call'[c].doubt = call[c].doubt
          /\ \A d \in Calls : d # c => call'[d] = call[d]
      BY <1>0, <1>3 DEF ReRead, Requests
    <2> QED
      BY <1>l, <2>1, <2>2, IdentityKept
  <1>4. CASE ApplySave(c)
    <2>1. /\ call[c].kind = "save" /\ call[c].step = "replied" /\ Through(c)
          /\ plan' = Stamped(plan, call[c].ids)
          /\ layout' = call[c].layout /\ token' = call[c].token
          /\ doubt' = doubt \cup (IF call[c].late THEN {"late"} ELSE {})
                            \cup (IF call[c].token # call[c].base THEN {"overtaken"}
                                  ELSE {})
          /\ UNCHANGED <<version, stored>>
          /\ call' = [call EXCEPT ![c] = Idle]
      BY <1>4 DEF ApplySave, server, Through
    <2>2. call'[c] = Idle /\ \A d \in Calls : d # c => call'[d] = call[d]
      BY <1>0, <2>1
    <2>3. layout' \in Layouts
      BY <2>1, CallFacts
    <2>4. NewSeats(plan') = NewSeats(plan) \ DOMAIN call[c].ids
      <3> DEFINE ids == call[c].ids
      <3>1. \A s \in DOMAIN ids : ids[s] # NoRow
        BY DEF SeatInv, Named, NoRow
      <3>2. plan'.seats = [s \in DOMAIN plan.seats |->
                              IF s \in DOMAIN ids THEN ids[s] ELSE plan.seats[s]]
        BY <1>0, <2>1 DEF Stamped, Plans
      <3> HIDE DEF ids
      <3>3. NewSeats(plan') = NewSeats(plan) \ DOMAIN ids
        BY <3>1, <3>2 DEF NewSeats
      <3> QED
        BY <3>3 DEF ids
    <2>5. doubt \subseteq doubt' /\ (Traceable(doubt') => Traceable(doubt))
      BY <2>1, FewerTraceable
    <2>6. ASSUME Traceable(doubt'), token' = version'[layout']
          PROVE  NoneOf(NewSeats(plan'), stored'[layout'].born)
      <3>1. Marked(c) = doubt'
        BY <2>1, <2>6 DEF Marked
      <3> QED
        BY <2>1, <2>4, <2>6, <3>1 DEF IdentityInv, NewInv
    <2>7. \A d \in Calls : call'[d].kind = "save" => d # c /\ call'[d] = call[d]
      BY <2>2, IdleTypes
    <2>8. ASSUME NEW d \in Calls, call'[d].kind = "save", call'[d].step = "sent",
                 call'[d].token = version'[call'[d].layout]
          PROVE  /\ Traceable(call'[d].doubt) =>
                       NoneOf(NewSeats(call'[d].plan), stored'[call'[d].layout].born)
                 /\ Traceable(doubt') =>
                       NoneOf(NewSeats(plan'), stored'[call'[d].layout].born)
      <3>1. /\ Traceable(call[d].doubt) =>
                  NoneOf(NewSeats(call[d].plan), stored[call[d].layout].born)
            /\ Traceable(doubt) => NoneOf(NewSeats(plan), stored[call[d].layout].born)
        BY <2>1, <2>7, <2>8 DEF IdentityInv, NewInv
      <3>2. NewSeats(plan') \subseteq NewSeats(plan)
        BY <2>4
      <3> QED
        BY <2>1, <2>5, <2>7, <2>8, <3>1, <3>2, FewerTraceable
    <2>9. ASSUME NEW d \in Calls, call'[d].kind = "save", Through(d)',
                 call'[d].step = "replied" =>
                    call'[d].token = version'[call'[d].layout],
                 Traceable(Marked(d)')
          PROVE  NoneOf(NewSeats(plan') \ DOMAIN call'[d].ids,
                        stored'[call'[d].layout].born)
      <3>1. call'[d] = call[d] /\ Through(d)
        BY <2>7, <2>9 DEF Through
      <3>2. Marked(d) \subseteq Marked(d)'
        BY <2>1, <2>5, <3>1 DEF Marked
      <3>3. Traceable(Marked(d))
        BY <2>9, <3>2, FewerTraceable
      <3>4. NoneOf(NewSeats(plan) \ DOMAIN call[d].ids, stored[call[d].layout].born)
        BY <2>1, <2>9, <3>1, <3>3 DEF IdentityInv, NewInv
      <3>5. NewSeats(plan') \ DOMAIN call[d].ids
               \subseteq NewSeats(plan) \ DOMAIN call[d].ids
        BY <2>4
      <3> QED
        BY <2>1, <3>1, <3>4, <3>5, FewerTraceable
    <2>10. AnswersInv'
      <3> SUFFICES ASSUME "late" \notin doubt', NEW e \in Calls, Timely(e)'
                   PROVE  call'[e].layout = layout' /\ ~Through(e)'
        BY DEF AnswersInv
      <3>1. "late" \notin doubt /\ Timely(c)
        BY <2>1 DEF Timely
      <3>2. e # c /\ call'[e] = call[e] /\ Timely(e)
        BY <2>7 DEF Timely
      <3>3. call[e].layout = layout /\ call[c].layout = layout /\ ~Through(e)
        BY <2>1, <3>1, <3>2 DEF IdentityInv, AnswersInv
      <3> QED
        BY <2>1, <3>2, <3>3 DEF Through
    <2>11. \A d \in Calls : call'[d].kind = "load" => NewSeats(call'[d].plan) = {}
      BY <1>l, <2>2, IdleTypes
    <2> QED
      BY <2>6, <2>8, <2>9, <2>10, <2>11 DEF IdentityInv, NewInv
  <1>5. CASE GetLayout(c)
    <2> DEFINE l == call[c].layout
    <2>1. /\ call[c].kind = "load" /\ l \in Layouts
          /\ call[c].plan \in [seats : Seatings, look : Looks \cup {None}]
          /\ UNCHANGED <<store, server, history>>
      <3>1. call[c].kind = "load" /\ l \in Layouts /\ UNCHANGED <<store, server, history>>
        BY <1>5, ReadForms, Zenon
      <3> QED
        BY <3>1 DEF TypeInv, Addressed
    <2>2. /\ call'[c].kind = "load"
          /\ call'[c].plan.seats \in {call[c].plan.seats, SeatsOf(l)}
          /\ \A d \in Calls : d # c => call'[d] = call[d]
      <3>1. CASE call' = [call EXCEPT ![c] =
                     [call[c] EXCEPT !.step = "half", !.token = version[l],
                         !.plan = [call[c].plan EXCEPT !.look = stored[l].look]]]
        BY <1>0, <2>1, <3>1 DEF Requests
      <3>2. CASE call' = [call EXCEPT ![c] =
                     [call[c] EXCEPT !.step = "replied",
                         !.plan = [call[c].plan EXCEPT !.seats = SeatsOf(l)]]]
        BY <1>0, <2>1, <3>2 DEF Requests
      <3>3. \/ call' = [call EXCEPT ![c] =
                     [call[c] EXCEPT !.step = "half", !.token = version[l],
                         !.plan = [call[c].plan EXCEPT !.look = stored[l].look]]]
            \/ call' = [call EXCEPT ![c] =
                     [call[c] EXCEPT !.step = "replied",
                         !.plan = [call[c].plan EXCEPT !.seats = SeatsOf(l)]]]
        BY <1>5, ReadForms, Zenon
      <3> QED
        BY <3>1, <3>2, <3>3
    <2> HIDE DEF l
    <2>3. \A s \in DOMAIN SeatsOf(l) : SeatsOf(l)[s] # NoRow
      <3>1. DOMAIN stored[l].born \subseteq Rows
        <4>1. stored[l] \in [born : UNION {[T -> SeatIds] : T \in SUBSET Rows},
                             look : Looks \cup {None}]
          BY <2>1 DEF TypeInv, TypeOK
        <4> QED
          BY <4>1
      <3>2. ASSUME NEW s \in DOMAIN SeatsOf(l) PROVE SeatsOf(l)[s] \in Rows
        BY <3>1 DEF SeatsOf, RowSeat
      <3> QED
        BY <3>2, VenueEditorAssumption DEF Rows, NoRow
    <2>4. NewSeats(call'[c].plan) = {}
      BY <1>l, <2>1, <2>2, <2>3 DEF NewSeats
    <2> QED
      BY <1>l, <2>1, <2>2, <2>4, IdentityKept DEF store, server, history
  <1>6. CASE ApplyLoad(c)
    <2>1. /\ call[c].kind = "load"
          /\ plan' = Hydrated(call[c].plan) /\ doubt' = {}
          /\ layout' = call[c].layout /\ token' = call[c].token
          /\ UNCHANGED <<version, stored>>
          /\ call' = [d \in Calls |->
                        IF d = c THEN Idle
                        ELSE IF Waiting(d) THEN [call[d] EXCEPT !.late = TRUE]
                        ELSE call[d]]
      BY <1>6 DEF ApplyLoad, server
    <2>2. call[c].plan \in [seats : Seatings, look : Looks \cup {None}]
      BY <2>1 DEF TypeInv, Addressed
    <2>3. NewSeats(plan') = {}
      <3>1. plan'.seats = call[c].plan.seats
        BY <2>1, <2>2 DEF Hydrated
      <3> QED
        BY <1>l, <2>1, <3>1 DEF NewSeats
    <2>4. \A d \in Calls :
             \/ call'[d] = Idle
             \/ /\ call'[d].kind = call[d].kind /\ call'[d].step = call[d].step
                /\ call'[d].layout = call[d].layout /\ call'[d].token = call[d].token
                /\ call'[d].plan = call[d].plan /\ call'[d].doubt = call[d].doubt
                /\ call'[d].kind = "save" => call'[d].late
      BY <1>0, <2>1 DEF Requests, Waiting
    <2>5. AnswersInv'
      BY <2>4, IdleTypes DEF AnswersInv, Timely
    <2>6. \A S, b : NoneOf(NewSeats(plan') \ S, b) /\ NoneOf(NewSeats(plan'), b)
      BY <2>3 DEF NoneOf
    <2>7. \A d \in Calls : call'[d].kind = "load" => NewSeats(call'[d].plan) = {}
      BY <1>l, <2>4, IdleTypes
    <2>8. ASSUME NEW d \in Calls, call'[d].kind = "save", call'[d].step = "sent",
                 call'[d].token = version'[call'[d].layout], Traceable(call'[d].doubt)
          PROVE  NoneOf(NewSeats(call'[d].plan), stored'[call'[d].layout].born)
      BY <2>1, <2>4, <2>8, IdleTypes DEF IdentityInv, NewInv
    <2>9. NewInv'
      BY <2>6, <2>7, <2>8 DEF NewInv
    <2> QED
      BY <2>5, <2>9 DEF IdentityInv
  <1>7. CASE Fail(c)
    <2>1. /\ UNCHANGED <<store, server, history>>
          /\ \A d \in Calls : call'[d] = call[d] \/ call'[d] = Idle
      BY <1>0, <1>7 DEF Fail
    <2> QED
      BY <1>l, <2>1, IdleTypes, IdentityKept DEF store, server, history
  <1> QED
    BY <1>1, <1>2, <1>3, <1>4, <1>5, <1>6, <1>7 DEF Saving, Loading

(* So do visits: a layout that is only just asked for shows no seats.      *)
LEMMA VisitIdentity ==
    ASSUME TypeInv, IdentityInv,
           \/ Leave
           \/ \E c \in Calls : Reload(c) \/ \E l \in Layouts : Open(c, l)
    PROVE  IdentityInv'
  <1>0. call \in [Calls -> Requests]
    BY DEF TypeInv, TypeOK
  <1>1. ASSUME NEW l \in Layouts, UNCHANGED <<layout, token, plan, server, history>>,
               \A d \in Calls :
                  \/ call'[d] = Idle \/ call'[d] = LoadOf(l)
                  \/ call'[d] = [call[d] EXCEPT !.visit = 0] \/ call'[d] = call[d]
        PROVE  IdentityInv'
    <2>1. \A d \in Calls :
             \/ call'[d].kind = "idle"
             \/ call'[d].kind = "load" /\ NewSeats(call'[d].plan) = {}
             \/ /\ call'[d].kind = call[d].kind /\ call'[d].step = call[d].step
                /\ call'[d].layout = call[d].layout /\ call'[d].token = call[d].token
                /\ call'[d].base = call[d].base /\ call'[d].plan = call[d].plan
                /\ call'[d].ids = call[d].ids /\ call'[d].late = call[d].late
                /\ call'[d].doubt = call[d].doubt
      <3>1. LoadOf(l).kind = "load" /\ NewSeats(LoadOf(l).plan) = {}
        BY DEF LoadOf, Idle, NewSeats, NoSeats
      <3>2. \A d \in Calls :
               LET r == [call[d] EXCEPT !.visit = 0]
               IN  /\ r.kind = call[d].kind /\ r.step = call[d].step
                   /\ r.layout = call[d].layout /\ r.token = call[d].token
                   /\ r.base = call[d].base /\ r.plan = call[d].plan
                   /\ r.ids = call[d].ids /\ r.late = call[d].late
                   /\ r.doubt = call[d].doubt
        BY <1>0 DEF Requests
      <3> TAKE d \in Calls
      <3>3. CASE call'[d] = Idle
        BY <3>3, IdleTypes
      <3>4. CASE call'[d] = LoadOf(l)
        BY <3>1, <3>4
      <3>5. CASE call'[d] = [call[d] EXCEPT !.visit = 0]
        BY <3>2, <3>5
      <3>6. CASE call'[d] = call[d]
        BY <3>6
      <3> QED
        BY <1>1, <3>3, <3>4, <3>5, <3>6
    <2>2. \A d \in Calls : call'[d].kind = "load" => NewSeats(call'[d].plan) = {}
      BY <2>1 DEF IdentityInv, NewInv
    <2> QED
      BY <1>1, <2>1, <2>2, IdentityKept DEF Through, server, history
  <1>2. CASE Leave
    <2>1. UNCHANGED <<layout, token, plan, call, version, stored, base, doubt>>
      BY <1>2 DEF Leave, store, server, history
    <2> QED
      BY <2>1 DEF IdentityInv, AnswersInv, NewInv, Timely, Through, Marked
  <1>3. ASSUME NEW c \in Calls, NEW l \in Layouts, Open(c, l) PROVE IdentityInv'
    <2>1. /\ UNCHANGED <<layout, token, plan, server, history>>
          /\ \A d \in Calls : call'[d] = LoadOf(l) \/ call'[d] = call[d]
      BY <1>0, <1>3 DEF Open, store
    <2> QED
      BY <1>1, <2>1
  <1>4. ASSUME NEW c \in Calls, Reload(c) PROVE IdentityInv'
    <2>1. page.layout \in Layouts
      BY <1>4 DEF Reload, TypeInv, Addressed
    <2>2. /\ UNCHANGED <<layout, token, plan, server, history>>
          /\ \A d \in Calls :
                \/ call'[d] = Idle \/ call'[d] = LoadOf(page.layout)
                \/ call'[d] = [call[d] EXCEPT !.visit = 0] \/ call'[d] = call[d]
      BY <1>4 DEF Reload
    <2> QED
      BY <1>1, <2>1, <2>2
  <1> QED
    BY <1>2, <1>3, <1>4

(* So do saves from another browser, whose seats were not made in this     *)
(* tab, and events.                                                        *)
LEMMA WorldIdentity ==
    ASSUME TypeInv, SeatInv, SavableInv, IdentityInv, NEW l \in Layouts,
           SaveElsewhere(l) \/ Assign(l)
    PROVE  IdentityInv'
  <1>1. CASE SaveElsewhere(l)
    <2>1. /\ version' = [version EXCEPT ![l] = @ + 1]
          /\ \A m \in Layouts : m # l => stored'[m] = stored[m]
          /\ UNCHANGED <<layout, token, plan, base, doubt, call>>
      BY <1>1, CallFacts DEF SaveElsewhere, store, history
    <2>2. \A r \in DOMAIN stored'[l].born :
             \/ r \in DOMAIN stored[l].born /\ stored'[l].born[r] = stored[l].born[r]
             \/ stored'[l].born[r] = RowSeat(r)
      <3>1. PICK gone \in SUBSET (DOMAIN stored[l].born \ used),
                 n \in rowSeq..MaxRows, k \in Looks :
               stored' = [stored EXCEPT ![l] =
                     [born |-> [r \in (DOMAIN stored[l].born \ gone)
                                         \cup ((rowSeq + 1)..n) |->
                                   IF r \in DOMAIN stored[l].born \ gone
                                   THEN stored[l].born[r] ELSE RowSeat(r)],
                      look |-> k]]
        BY <1>1 DEF SaveElsewhere
      <3>2. stored'[l].born = [r \in (DOMAIN stored[l].born \ gone)
                                         \cup ((rowSeq + 1)..n) |->
                                   IF r \in DOMAIN stored[l].born \ gone
                                   THEN stored[l].born[r] ELSE RowSeat(r)]
        BY <3>1, CallFacts
      <3> QED
        BY <3>2
    <2>3. \A s \in NewSeats(plan) : \A r : s # RowSeat(r)
      <3>1. NewSeats(plan) \subseteq {MadeSeat(n) : n \in made}
        BY DEF SeatInv, Sound, Fits
      <3> QED
        BY <3>1, SeatIdsDiffer
    <2>4. \A S : NoneOf(NewSeats(plan) \ S, stored[l].born) =>
                    NoneOf(NewSeats(plan) \ S, stored'[l].born)
      BY <2>2, <2>3 DEF NoneOf
    <2>5. AnswersInv'
      BY <2>1 DEF IdentityInv, AnswersInv, Timely, Through
    <2>6. /\ Traceable(doubt') /\ layout' # None /\ token' = version'[layout'] =>
                NoneOf(NewSeats(plan'), stored'[layout'].born)
          /\ \A d \in Calls : call[d].kind = "save" =>
                /\ call[d].step = "sent" /\ call[d].token = version'[call[d].layout]
                   => /\ Traceable(call[d].doubt) =>
                            NoneOf(NewSeats(call[d].plan),
                                   stored'[call[d].layout].born)
                      /\ Traceable(doubt) =>
                            NoneOf(NewSeats(plan), stored'[call[d].layout].born)
                /\ /\ Through(d)
                   /\ call[d].step = "replied" =>
                         call[d].token = version'[call[d].layout]
                   /\ Traceable(Marked(d)')
                   => \/ NoneOf(NewSeats(plan) \ DOMAIN call[d].ids,
                                stored'[call[d].layout].born)
                      \/ /\ call[d].layout = l /\ call[d].step = "committed"
                         /\ Traceable(Marked(d))
      BY <2>1, NewVersionIdentity
    <2>7. ASSUME NEW d \in Calls, call[d].kind = "save", Through(d),
                 call[d].step = "replied" => call[d].token = version'[call[d].layout],
                 Traceable(Marked(d)')
          PROVE  NoneOf(NewSeats(plan) \ DOMAIN call[d].ids,
                        stored'[call[d].layout].born)
      <3> SUFFICES ASSUME call[d].layout = l, call[d].step = "committed",
                          Traceable(Marked(d))
                   PROVE  NoneOf(NewSeats(plan) \ DOMAIN call[d].ids, stored'[l].born)
        BY <2>6, <2>7
      <3>1. NoneOf(NewSeats(plan) \ DOMAIN call[d].ids, stored[l].born)
        BY <2>7 DEF IdentityInv, NewInv
      <3> QED
        BY <2>4, <3>1
    <2>8. \A d \in Calls : Through(d)' = Through(d)
      BY <2>1 DEF Through
    <2>9. NewInv'
      BY <2>1, <2>6, <2>7, <2>8 DEF IdentityInv, NewInv
    <2> QED
      BY <2>5, <2>9 DEF IdentityInv
  <1>2. CASE Assign(l)
    <2>1. UNCHANGED <<layout, token, plan, call, version, stored, base, doubt>>
      BY <1>2 DEF Assign, store, history
    <2> QED
      BY <2>1 DEF IdentityInv, AnswersInv, NewInv, Timely, Through, Marked
  <1> QED
    BY <1>1, <1>2

(* IdentityInv holds at first. *)
LEMMA InitIdentity == Init => IdentityInv
  <1> SUFFICES ASSUME Init PROVE IdentityInv
    OBVIOUS
  <1>1. layout = None /\ \A c \in Calls : call[c].kind = "idle"
    BY IdleTypes DEF Init
  <1> QED
    BY <1>1 DEF IdentityInv, AnswersInv, NewInv, Timely

(* IdentityInv holds after every step. *)
LEMMA NextIdentity ==
    TypeInv /\ SeatInv /\ SavableInv /\ IdentityInv /\ [Next]_vars => IdentityInv'
  <1> SUFFICES ASSUME TypeInv, SeatInv, SavableInv, IdentityInv, [Next]_vars
               PROVE  IdentityInv'
    OBVIOUS
  <1>1. CASE Edit
    BY <1>1, EditIdentity
  <1>2. ASSUME NEW c \in Calls, Saving(c) \/ Loading(c) \/ Fail(c) PROVE IdentityInv'
    BY <1>2, CallIdentity
  <1>3. CASE \/ Leave
             \/ \E c \in Calls : Reload(c) \/ \E l \in Layouts : Open(c, l)
    BY <1>3, VisitIdentity
  <1>4. ASSUME NEW l \in Layouts, SaveElsewhere(l) \/ Assign(l) PROVE IdentityInv'
    BY <1>4, WorldIdentity
  <1>5. CASE UNCHANGED vars
    BY <1>5 DEF vars, IdentityInv, AnswersInv, NewInv, Timely, Through, Marked, store,
       server, history
  <1> QED
    BY <1>1, <1>2, <1>3, <1>4, <1>5 DEF Next

(* However saves are repeated, doubled or left unanswered and the layout   *)
(* opened again, no accepted save deletes the row of a seat and inserts    *)
(* that seat again, unless an undo, a redo or an import brought back a     *)
(* plan from before a save, or the tab took the version of a later save    *)
(* from a late answer.                                                     *)
THEOREM RowsKept == Spec => RowsKeepIdentity
  <1>1. ASSUME TypeInv, IdentityInv, [Next]_vars, NEW c \in Calls, Committed(c),
               Traceable(call[c].doubt)
        PROVE  \A r \in DOMAIN stored[call[c].layout].born
                           \ DOMAIN stored'[call[c].layout].born :
                  stored[call[c].layout].born[r] \notin NewSeats(call[c].plan)
    <2>1. Commit(c)
      BY <1>1, OnlyCommitCommits
    <2> QED
      BY <1>1, <2>1 DEF Commit, Acceptable, IdentityInv, NewInv, NoneOf
  <1>2. TypeInv /\ IdentityInv /\ [Next]_vars =>
           [\A c \in Calls :
               Committed(c) /\ Traceable(call[c].doubt) =>
                  LET l == call[c].layout
                  IN  \A r \in DOMAIN stored[l].born \ DOMAIN stored'[l].born :
                         stored[l].born[r] \notin NewSeats(call[c].plan)]_vars
    BY <1>1
  <1> QED
    BY InitTypes, NextTypes, InitSeats, NextSeats, InitSavable, NextSavable,
       InitIdentity, NextIdentity, <1>2, PTL DEF Spec, RowsKeepIdentity
=============================================================================
