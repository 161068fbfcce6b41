----------------------------- MODULE VenueEditor -----------------------------
(***************************************************************************)
(* The venue designer of the web frontend (components/venue-editor,        *)
(* lib/store/venueEditorStore, lib/venueLayout) and the server's side of   *)
(* it (backend/internal/venuelayout).                                      *)
(*                                                                         *)
(* A browser tab edits the plan of one layout at a time.  The plan lives   *)
(* in a store that outlives the page, with an undo history of MaxPast      *)
(* snapshots; loading and saving are calls whose replies arrive later, on  *)
(* whatever page is then open.  The server accepts a save only if it       *)
(* carries the layout's current version, the updated_at of the last        *)
(* save.  A seat has a client id; once stored it also has a row, and a     *)
(* save updates the rows it names, inserts the seats without one and       *)
(* deletes the rows no seat names.  Everything else about a plan -         *)
(* positions, stage, sections, tiers, locks - is its look; row labels and  *)
(* seat numbers, which every save computes afresh, are left out.  Which    *)
(* seats are selected is not modelled, only whether several are.           *)
(***************************************************************************)
EXTENDS Naturals, Sequences, FiniteSets

CONSTANTS
    Layouts,      \* the owner's layouts
    Given,        \* the rows each of them has at first
    Calls,        \* requests the tab can have under way
    Looks,        \* what a plan may look like
    MaxPast,      \* snapshots the history keeps, 50 in the code
    MaxRows,      \* bound: rows the database hands out
    MaxSeats,     \* bound: seats made in this tab
    MaxActs,      \* bound: visits and their ends, edits, undos, redos,
                  \* exports, imports, clicks on Save, saves from another
                  \* browser, events that take a layout over
    None          \* no layout, no look, no plan

NoRow == 0
Rows == 1..MaxRows
MadeSeat(n) == <<"made", n>>
RowSeat(r) == <<"row", r>>
SeatIds == {MadeSeat(n) : n \in 1..MaxSeats} \cup {RowSeat(r) : r \in Rows}

ASSUME VenueEditorAssumption ==
    /\ None \notin Layouts \cup Looks
    /\ Given \in [Layouts -> SUBSET Rows]
    /\ \A l, m \in Layouts : l # m => Given[l] \cap Given[m] = {}
    /\ \E n \in 0..MaxRows : UNION {Given[l] : l \in Layouts} = 1..n
    /\ Looks # {}
    /\ MaxPast \in Nat \ {0, 1}
    /\ {MaxRows, MaxSeats, MaxActs} \subseteq Nat

VARIABLES
    page,     \* the tab: screen, layout in its address, number of the visit
    layout,   \* store.layout_id: the layout the next save goes to
    token,    \* store.layout_updated_at
    plan,     \* store.seats and the rest of the drawing
    past, future,  \* store.past, store.future
    drag,     \* selection and pointer: see NoDrag
    file,     \* the exported file, None if there is none
    call,     \* per request: where it is and what it carries
    version,  \* venue_layouts.updated_at, counted
    stored,   \* the rows of each layout with the seat each was inserted for,
              \* and its geometry
    used,     \* rows in event_seats_matrix
    rowSeq,   \* the last row id handed out
    base,     \* the version the plan descends from (history)
    doubt,    \* what happened to the plan since it was loaded (history)
    gesture,  \* the plan before the last gesture (history)
    made,     \* seat ids used up (history)
    acts      \* what MaxActs bounds, so far

store == <<layout, token, plan, past, future>>
server == <<version, stored, used, rowSeq>>
history == <<base, doubt>>
vars == <<page, store, drag, file, call, server, history, gesture, made, acts>>

Seatings == UNION {[S -> Rows \cup {NoRow}] : S \in SUBSET SeatIds}
Plans == [seats : Seatings, look : Looks]

NoSeats == [s \in {} |-> NoRow]

(* The rows a plan names, and its seats that have none. *)
RowsOf(p) == {p.seats[s] : s \in DOMAIN p.seats} \ {NoRow}
NewSeats(p) == {s \in DOMAIN p.seats : p.seats[s] = NoRow}

(* multi: several seats are selected; down: the pointer holds a seat;      *)
(* active: group_drag_active.  moved and cut are history: the held group   *)
(* has moved; a drag was interrupted and active not reset.                 *)
Drags == [multi : BOOLEAN, down : BOOLEAN, active : BOOLEAN, moved : BOOLEAN,
          cut : BOOLEAN]
NoDrag == [multi |-> FALSE, down |-> FALSE, active |-> FALSE,
           moved |-> FALSE, cut |-> FALSE]

Idle == [kind |-> "idle", step |-> "idle", visit |-> 0, layout |-> None,
         token |-> 0, base |-> 0, doubt |-> {}, plan |-> None, ids |-> NoSeats,
         late |-> FALSE]

Editing == page.screen = "editing"

Counted ==
    /\ acts < MaxActs
    /\ acts' = acts + 1

----------------------------------------------------------------------------
(* The store's operations on the plan: the plans each may lead to.         *)

Keep(p, S) == [p EXCEPT !.seats = [s \in S |-> p.seats[s]]]

(* The plan with seats N, which have the given rows. *)
With(p, N, row) ==
    [p EXCEPT !.seats = [s \in DOMAIN p.seats \cup N |->
                            IF s \in N THEN row[s] ELSE p.seats[s]]]

(* Ids not used yet, in order: they contain the time. *)
FreshSets ==
    {{MadeSeat(n) : n \in N} :
        N \in {M \in SUBSET ((1..MaxSeats) \ made) :
                  \A n \in M : 1..n \subseteq made \cup M}}

Unstored(N) == [s \in N |-> NoRow]

(* add_seat, fill_seats_in_rect *)
Added(p) == {With(p, N, Unstored(N)) : N \in FreshSets \ {{}}}

(* delete_seat, delete_multiple_seats *)
Deleted(p) == {Keep(p, S) : S \in SUBSET DOMAIN p.seats \ {DOMAIN p.seats}}

(* resize_seat_selection: trailing seats go, or copies of the last one     *)
(* come, without its row; the resized seats keep theirs.                   *)
Resized(p) == Deleted(p) \cup Added(p)

(* generate_seats_for_section: new seats in place of the section's. *)
Filled(p) ==
    {With(Keep(p, S), N, Unstored(N)) :
        S \in SUBSET DOMAIN p.seats, N \in FreshSets}

(* duplicate_row copies each seat of the row, its database row included. *)
RowDuplicated(p) ==
    UNION {{With(p, N, [n \in N |-> p.seats[f[n]]]) :
               f \in {g \in [N -> DOMAIN p.seats] :
                         \A m, n \in N : g[m] = g[n] => m = n}} :
           N \in FreshSets \ {{}}}

(* arrange_seats, move_selected_elements, paint_seats, update_seat, the    *)
(* section and stage operations, toggle_lock: everything but which seats   *)
(* there are.  An element may end up where it was.                         *)
Restyled(p) == {[p EXCEPT !.look = k] : k \in Looks}

----------------------------------------------------------------------------
(* The undo history. *)

\* Mistake: the history is one entry too long.
RecentOneMore(h) == SubSeq(h, IF Len(h) > MaxPast THEN 2 ELSE 1, Len(h))

(* What past.slice(-49) keeps. *)
Recent(h) ==
    SubSeq(h, IF Len(h) > MaxPast - 1 THEN Len(h) - MaxPast + 2 ELSE 1, Len(h))

(* save_history *)
SaveHistory ==
    /\ past' = Append(Recent(past), plan)
    /\ future' = <<>>

Drawn(p) ==
    /\ plan' = p
    /\ made' = made \cup {n \in 1..MaxSeats : MadeSeat(n) \in DOMAIN p.seats}

(* A gesture of one store operation: save_history, then the change. *)
Gesture(P) ==
    /\ Editing
    /\ Counted
    /\ SaveHistory
    /\ \E p \in P : Drawn(p)
    /\ gesture' = plan
    /\ UNCHANGED <<page, layout, token, file, call, server, history>>

(* A change that leaves the history alone, and a history entry alone. *)
Unrecorded(P) ==
    /\ Editing
    /\ Counted
    /\ \E p \in P : Drawn(p)
    /\ gesture' = None
    /\ UNCHANGED <<page, layout, token, past, future, drag, file, call, server,
                   history>>

EntryOnly ==
    /\ Editing
    /\ Counted
    /\ SaveHistory
    /\ gesture' = None
    /\ UNCHANGED <<page, layout, token, plan, drag, file, call, server, history,
                   made>>

----------------------------------------------------------------------------
(* What the owner does on the canvas and in the panels.  Pointer actions   *)
(* need a free pointer; the keyboard works while it holds a seat.          *)

Select(b) == drag' = [drag EXCEPT !.multi = b]

PointerFree == ~drag.down

SeveralSeats == Cardinality(DOMAIN plan.seats) > 1

(* A press on the empty canvas clears the selection; releasing adds a      *)
(* section or a seat, fills the rectangle with seats, paints or selects.   *)
CanvasPointer ==
    /\ PointerFree
    /\ \/ /\ Gesture(Added(plan) \cup Restyled(plan))
          /\ Select(FALSE)
       \/ /\ Editing
          /\ \E b \in BOOLEAN : (b => SeveralSeats) /\ Select(b)
          /\ UNCHANGED <<page, store, file, call, server, history, gesture, made,
                         acts>>

(* Delete removes the selected seats - with them the one the pointer may   *)
(* hold, whose release then goes unnoticed - or, when none is selected,    *)
(* a section.  The arrow keys move what is selected.                       *)
KeyDown ==
    \/ /\ Gesture(Deleted(plan))
       /\ drag' = [drag EXCEPT !.multi = FALSE, !.down = FALSE,
                               !.moved = FALSE, !.cut = @ \/ drag.active]
    \/ /\ Gesture(Restyled(plan))
       /\ UNCHANGED drag

(* The menu over a single selected seat. *)
SeatMenu ==
    /\ PointerFree /\ ~drag.multi
    /\ Gesture(Added(plan) \cup RowDuplicated(plan) \cup Deleted(plan))
    /\ UNCHANGED drag

(* The menu over a selected section: its shape, FILL and Delete record     *)
(* themselves; the number fields and the curve refill the section at each  *)
(* change and add an entry when they are left.                             *)
SectionMenu ==
    /\ PointerFree
    /\ \/ Gesture(Restyled(plan) \cup Filled(plan)) /\ UNCHANGED drag
       \/ Unrecorded(Filled(plan))
       \/ EntryOnly

(* A section or the stage is moved or resized, and is stored at the end.   *)
DragShape ==
    /\ PointerFree
    /\ Gesture(Restyled(plan))
    /\ UNCHANGED drag

(* A facility icon that is moved is not recorded; one that is removed is.  *)
DragFacility ==
    /\ PointerFree
    /\ \/ Unrecorded(Restyled(plan))
       \/ Gesture(Restyled(plan)) /\ UNCHANGED drag

(* The pointer goes down on a seat: in a selected group it keeps the       *)
(* group, elsewhere it selects that seat alone.                            *)
PressSeat ==
    /\ Editing
    /\ PointerFree
    /\ DOMAIN plan.seats # {}
    /\ \E b \in BOOLEAN :
           /\ b => drag.multi
           /\ drag' = [drag EXCEPT !.multi = b, !.down = TRUE, !.moved = FALSE]
    /\ UNCHANGED <<page, store, file, call, server, history, gesture, made, acts>>

\* Mistake: every move of the group is an entry.
FirstMoveEach == TRUE

(* group_drag_active.current is not yet set. *)
FirstMove == ~drag.active

(* The held group moves; the first time, the history gets an entry. *)
MoveGroup ==
    /\ Editing
    /\ drag.down /\ drag.multi
    /\ Counted
    /\ IF FirstMove THEN SaveHistory ELSE UNCHANGED <<past, future>>
    /\ \E p \in Restyled(plan) : Drawn(p)
    /\ gesture' = IF drag.cut THEN None
                  ELSE IF drag.moved THEN gesture ELSE plan
    /\ drag' = [drag EXCEPT !.active = TRUE, !.moved = TRUE]
    /\ UNCHANGED <<page, layout, token, file, call, server, history>>

(* The pointer goes up: the end of a group's drag, or a single seat's new  *)
(* place, which update_seat records.                                       *)
ReleaseSeat ==
    /\ drag.down
    /\ \/ /\ Editing /\ drag.multi
          /\ drag' = [drag EXCEPT !.down = FALSE, !.moved = FALSE,
                                  !.active = FALSE, !.cut = FALSE]
          /\ UNCHANGED <<page, store, file, call, server, history, gesture, made,
                         acts>>
       \/ /\ ~drag.multi
          /\ Gesture(Restyled(plan))
          /\ drag' = [drag EXCEPT !.down = FALSE, !.moved = FALSE]

(* The panel of a group of seats: its tier, its form and Delete record     *)
(* themselves, its fields and sliders as the section's do, and so does the *)
(* flow into the frame after the number of seats was changed.              *)
ArrangePanel ==
    /\ PointerFree
    /\ drag.multi
    /\ \/ Gesture(Restyled(plan)) /\ UNCHANGED drag
       \/ Gesture(Deleted(plan)) /\ Select(FALSE)
       \/ Gesture(Resized(plan)) /\ \E b \in BOOLEAN : Select(b)
       \/ Unrecorded(Restyled(plan))
       \/ EntryOnly

(* A keystroke in a field of the single selected seat. *)
SeatPanel ==
    /\ PointerFree /\ ~drag.multi
    /\ Gesture(Restyled(plan))
    /\ UNCHANGED drag

(* What saving entry after entry keeps. *)
Latest(h) ==
    SubSeq(h, IF Len(h) > MaxPast THEN Len(h) - MaxPast + 1 ELSE 1, Len(h))

(* Lock on a group toggles its seats one by one, each with its own entry.  *)
LockGroup ==
    /\ Editing
    /\ drag.multi
    /\ Counted
    /\ \E n \in 2..(MaxSeats + MaxRows) :
           /\ n <= Cardinality(DOMAIN plan.seats)
           /\ \E p \in [1..n -> Restyled(plan)] :
                  /\ past' = Latest(Append(past, plan) \o SubSeq(p, 1, n - 1))
                  /\ Drawn(p[n])
    /\ future' = <<>>
    /\ gesture' = None
    /\ UNCHANGED <<page, layout, token, drag, file, call, server, history>>

(* Lock, and Renumber when there are seats: an entry, and new labels. *)
Toolbar ==
    /\ PointerFree
    /\ \/ Gesture(Restyled(plan)) /\ UNCHANGED drag
       \/ LockGroup

----------------------------------------------------------------------------
(* Undo, redo, export, import. *)

Waiting(c) == call[c].kind = "save"

(* p and the rows of the layout no longer go together, or will not when    *)
(* the save under way is through.                                          *)
OutOfStep(p) ==
    \/ ~(RowsOf(p) \subseteq DOMAIN stored[layout].born)
    \/ \E s \in NewSeats(p), r \in DOMAIN stored[layout].born :
           stored[layout].born[r] = s
    \/ \E c \in Calls : Waiting(c)

(* The selection is cleared; a seat the pointer held may be gone. *)
Deselected(p) ==
    LET free == [drag EXCEPT !.multi = FALSE, !.cut = @ \/ drag.active]
    IN  drag' \in {free} \cup
                  (IF DOMAIN plan.seats \subseteq DOMAIN p.seats THEN {}
                   ELSE {[free EXCEPT !.down = FALSE, !.moved = FALSE]})

(* A plan comes back that the tab or a file had kept. *)
Restored(p) ==
    /\ Editing
    /\ Counted
    /\ plan' = p
    /\ doubt' = IF OutOfStep(p) THEN doubt \cup {"rewound"} ELSE doubt
    /\ Deselected(p)
    /\ gesture' = None
    /\ UNCHANGED <<page, layout, token, file, call, server, base, made>>

Undo ==
    /\ past # <<>>
    /\ past' = SubSeq(past, 1, Len(past) - 1)
    /\ future' = <<plan>> \o future
    /\ Restored(past[Len(past)])

Redo ==
    /\ future # <<>>
    /\ past' = Append(past, plan)
    /\ future' = Tail(future)
    /\ Restored(Head(future))

Export ==
    /\ Editing
    /\ PointerFree
    /\ Counted
    /\ file' = plan
    /\ UNCHANGED <<page, store, drag, call, server, history, gesture, made>>

(* The seats of a file keep their ids and their rows. *)
Import ==
    /\ PointerFree
    /\ file # None
    /\ past' = <<file>>
    /\ future' = <<>>
    /\ Restored(file)

----------------------------------------------------------------------------
(* Opening, leaving and reloading the editor page. *)

Placed(screen, l, v) == page' = [screen |-> screen, layout |-> l, visit |-> v]

NewVisit(c, l) ==
    /\ Counted
    /\ Placed("loading", l, page.visit + 1)
    /\ drag' = NoDrag
    /\ gesture' = None

LoadOf(l) == [Idle EXCEPT !.kind = "load", !.step = "sent", !.layout = l,
                          !.visit = page.visit + 1,
                          !.plan = [seats |-> NoSeats, look |-> None]]

(* From the list of layouts, or after creating one, which is empty. *)
Open(c, l) ==
    /\ page.screen = "list"
    /\ call[c] = Idle
    /\ NewVisit(c, l)
    /\ call' = [call EXCEPT ![c] = LoadOf(l)]
    /\ UNCHANGED <<store, file, server, history, made>>

(* Close, or the browser's back button. *)
Leave ==
    /\ page.screen # "list"
    /\ Counted
    /\ Placed("list", None, page.visit)
    /\ drag' = NoDrag
    /\ gesture' = None
    /\ UNCHANGED <<store, file, call, server, history, made>>

(* The browser reloads the page: the store keeps the plan but not its      *)
(* history, and nothing waits any longer for the calls under way.          *)
Reload(c) ==
    /\ page.screen # "list"
    /\ call[c] = Idle
    /\ NewVisit(c, page.layout)
    /\ call' = [d \in Calls |->
                   IF d = c THEN LoadOf(page.layout)
                   ELSE IF call[d].kind = "load" THEN Idle
                   ELSE [call[d] EXCEPT !.visit = 0]]
    /\ past' = <<>>
    /\ future' = <<>>
    /\ UNCHANGED <<layout, token, plan, file, server, history, made>>

----------------------------------------------------------------------------
(* Loading.  The server reads the layout and then its seats, in two        *)
(* statements outside a transaction.                                       *)

(* The seats of layout l: the client id of each is its row's. *)
SeatsOf(l) ==
    [s \in {RowSeat(r) : r \in DOMAIN stored[l].born} |->
        CHOOSE r \in Rows : s = RowSeat(r)]

\* Mistake: the seats are read before the layout.
SeatsFirst == <<"seats", "layout">>

ReadOrder == <<"layout", "seats">>

Read(c, i, step) ==
    LET l == call[c].layout
    IN  /\ call' =
              IF ReadOrder[i] = "layout"
                THEN [call EXCEPT ![c].step = step, ![c].token = version[l],
                                  ![c].plan.look = stored[l].look]
                ELSE [call EXCEPT ![c].step = step,
                                  ![c].plan.seats = SeatsOf(l)]
        /\ UNCHANGED <<page, store, drag, file, server, history, gesture, made,
                       acts>>

(* GetLayout *)
GetLayout(c) ==
    /\ call[c].kind = "load"
    /\ \/ call[c].step = "sent" /\ Read(c, 1, "half")
       \/ call[c].step = "half" /\ Read(c, 2, "replied")

(* The plan of a layout never saved has no look: the last one stays. *)
Hydrated(p) == [p EXCEPT !.look = IF @ = None THEN plan.look ELSE @]

(* load_layout_detail, even on a later visit: only the page's own state    *)
(* knows that its load was abandoned.                                      *)
ApplyLoad(c) ==
    LET p == Hydrated(call[c].plan)
    IN  /\ call[c].kind = "load" /\ call[c].step = "replied"
        /\ layout' = call[c].layout
        /\ token' = call[c].token
        /\ plan' = p
        /\ past' = <<>>
        /\ future' = <<>>
        /\ Deselected(p)
        /\ page' = IF page.screen = "loading" /\ call[c].visit = page.visit
                     THEN [page EXCEPT !.screen = "editing"] ELSE page
        /\ base' = call[c].token
        /\ doubt' = {}
        /\ gesture' = None
        /\ call' = [d \in Calls |->
                       IF d = c THEN Idle
                       ELSE IF Waiting(d) THEN [call[d] EXCEPT !.late = TRUE]
                       ELSE call[d]]
        /\ UNCHANGED <<file, server, made, acts>>

----------------------------------------------------------------------------
(* Saving. *)

(* renumber_seats, then the request.  Nothing keeps the button from being  *)
(* clicked again while a save is under way.                                *)
ClickSave(c) ==
    /\ Editing
    /\ PointerFree
    /\ call[c] = Idle
    /\ Counted
    /\ IF DOMAIN plan.seats = {}
         THEN UNCHANGED <<past, future>>
         ELSE SaveHistory
    /\ gesture' = None
    /\ call' = [call EXCEPT ![c] =
                   [kind |-> "save", step |-> "sent", visit |-> page.visit,
                    layout |-> layout, token |-> token, base |-> base,
                    doubt |-> doubt, plan |-> plan, ids |-> NoSeats,
                    late |-> FALSE]]
    /\ UNCHANGED <<page, layout, token, plan, drag, file, server, history, made>>

\* Mistake: the version is not compared.
AcceptableAny(c) ==
    LET l == call[c].layout
        rows == DOMAIN stored[l].born
    IN  /\ RowsOf(call[c].plan) \subseteq rows
        /\ (rows \ RowsOf(call[c].plan)) \cap used = {}

(* The version is current, every row named is the layout's, and no row     *)
(* left out is used by an event.                                           *)
Acceptable(c) ==
    LET l == call[c].layout
        rows == DOMAIN stored[l].born
    IN  /\ call[c].token = version[l]
        /\ RowsOf(call[c].plan) \subseteq rows
        /\ (rows \ RowsOf(call[c].plan)) \cap used = {}

\* Mistake: rows no seat names stay.
RowsAfterNoDelete(c, ids) ==
    LET born == stored[call[c].layout].born
        new == {ids[s] : s \in DOMAIN ids}
    IN  [r \in DOMAIN born \cup new |->
            IF r \in new THEN CHOOSE s \in DOMAIN ids : ids[s] = r ELSE born[r]]

(* Rows named stay, seats without a row get one, the rest is deleted. *)
RowsAfter(c, ids) ==
    LET born == stored[call[c].layout].born
        new == {ids[s] : s \in DOMAIN ids}
    IN  [r \in RowsOf(call[c].plan) \cup new |->
            IF r \in new THEN CHOOSE s \in DOMAIN ids : ids[s] = r ELSE born[r]]

(* SaveLayout: one transaction that holds the layout's row. *)
Commit(c) ==
    LET l == call[c].layout
    IN  /\ call[c].kind = "save" /\ call[c].step = "sent"
        /\ Acceptable(c)
        /\ \E ids \in [NewSeats(call[c].plan) -> Rows], n \in rowSeq..MaxRows :
               /\ \A s, t \in DOMAIN ids : ids[s] = ids[t] => s = t
               /\ {ids[s] : s \in DOMAIN ids} = (rowSeq + 1)..n
               /\ rowSeq' = n
               /\ stored' = [stored EXCEPT ![l] = [born |-> RowsAfter(c, ids),
                                                   look |-> call[c].plan.look]]
               /\ call' = [call EXCEPT ![c].step = "committed", ![c].ids = ids,
                                       ![c].base = version[l] + 1]
        /\ version' = [version EXCEPT ![l] = @ + 1]
        /\ UNCHANGED <<page, store, drag, file, used, history, gesture, made, acts>>

(* After the commit the layout is read again: what it returns may already  *)
(* be the version of another save.                                         *)
ReRead(c) ==
    /\ call[c].step = "committed"
    /\ call' = [call EXCEPT ![c].step = "replied",
                            ![c].token = version[call[c].layout]]
    /\ UNCHANGED <<page, store, drag, file, server, history, gesture, made, acts>>

\* Mistake: the seats a save has stored are not given their rows.
StampedNot(p, ids) == p

(* reconcileSavedIds *)
Stamped(p, ids) ==
    [p EXCEPT !.seats = [s \in DOMAIN p.seats |->
                            IF s \in DOMAIN ids THEN ids[s] ELSE p.seats[s]]]

(* apply_saved_ids and set_layout_meta, whatever the editor now shows. *)
ApplySave(c) ==
    /\ call[c].kind = "save" /\ call[c].step = "replied" /\ call[c].visit # 0
    /\ plan' = Stamped(plan, call[c].ids)
    /\ layout' = call[c].layout
    /\ token' = call[c].token
    /\ base' = call[c].base
    /\ doubt' = doubt \cup (IF call[c].late THEN {"late"} ELSE {})
                      \cup (IF call[c].token # call[c].base THEN {"overtaken"}
                            ELSE {})
    /\ call' = [call EXCEPT ![c] = Idle]
    /\ UNCHANGED <<page, past, future, drag, file, server, gesture, made, acts>>

(* A call fails: refused, cut off before or after the server handled it,   *)
(* or answered to a tab that was reloaded.  The owner is told.             *)
Fail(c) ==
    /\ call[c] # Idle
    /\ call' = [call EXCEPT ![c] = Idle]
    /\ page' = IF call[c].kind = "load" /\ page.screen = "loading"
                    /\ call[c].visit = page.visit
                 THEN [page EXCEPT !.screen = "error"] ELSE page
    /\ UNCHANGED <<store, drag, file, server, history, gesture, made, acts>>

----------------------------------------------------------------------------
(* The rest of the world. *)

(* The owner saves the layout from another browser, with the current       *)
(* version: a row may go, another may come.                                *)
SaveElsewhere(l) ==
    /\ Counted
    /\ version' = [version EXCEPT ![l] = @ + 1]
    /\ \E gone \in SUBSET (DOMAIN stored[l].born \ used),
          n \in rowSeq..MaxRows, k \in Looks :
           LET kept == DOMAIN stored[l].born \ gone
           IN  /\ n <= rowSeq + 1
               /\ rowSeq' = n
               /\ stored' = [stored EXCEPT ![l] =
                     [born |-> [r \in kept \cup ((rowSeq + 1)..n) |->
                                   IF r \in kept THEN stored[l].born[r]
                                   ELSE RowSeat(r)],
                      look |-> k]]
    /\ UNCHANGED <<page, store, drag, file, call, used, history, gesture, made>>

(* An event takes over the layout: its rows are in event_seats_matrix. *)
Assign(l) ==
    /\ Counted
    /\ used' = used \cup DOMAIN stored[l].born
    /\ UNCHANGED <<page, store, drag, file, call, version, stored, rowSeq, history,
                   gesture, made>>

----------------------------------------------------------------------------
Init ==
    /\ page = [screen |-> "list", layout |-> None, visit |-> 0]
    /\ layout = None /\ token = 0
    /\ \E k \in Looks : plan = [seats |-> NoSeats, look |-> k]
    /\ past = <<>> /\ future = <<>>
    /\ drag = NoDrag
    /\ file = None
    /\ call = [c \in Calls |-> Idle]
    /\ version = [l \in Layouts |-> 1]
    /\ stored = [l \in Layouts |-> [born |-> [r \in Given[l] |-> RowSeat(r)],
                                    look |-> None]]
    /\ used = {}
    /\ rowSeq \in 0..MaxRows
    /\ UNION {Given[l] : l \in Layouts} = 1..rowSeq
    /\ base = 0 /\ doubt = {}
    /\ gesture = None
    /\ made = {}
    /\ acts = 0

Edit ==
    \/ CanvasPointer \/ KeyDown \/ SeatMenu \/ SectionMenu \/ DragShape
    \/ DragFacility \/ PressSeat \/ MoveGroup \/ ReleaseSeat \/ ArrangePanel
    \/ SeatPanel \/ Toolbar \/ Undo \/ Redo \/ Export \/ Import

Saving(c) == ClickSave(c) \/ Commit(c) \/ ReRead(c) \/ ApplySave(c)

Loading(c) == GetLayout(c) \/ ApplyLoad(c)

Next ==
    \/ Edit
    \/ Leave
    \/ \E c \in Calls : Saving(c) \/ Loading(c) \/ Fail(c) \/ Reload(c)
    \/ \E c \in Calls, l \in Layouts : Open(c, l)
    \/ \E l \in Layouts : SaveElsewhere(l) \/ Assign(l)

Spec == Init /\ [][Next]_vars

----------------------------------------------------------------------------
(* Properties.                                                             *)

Requests ==
    [kind : {"idle", "load", "save"},
     step : {"idle", "sent", "half", "committed", "replied"},
     visit : Nat, layout : Layouts \cup {None}, token : Nat,
     base : Nat, doubt : SUBSET {"rewound", "late", "overtaken"},
     plan : [seats : Seatings, look : Looks \cup {None}] \cup {None},
     ids : UNION {[S -> Rows] : S \in SUBSET SeatIds}, late : BOOLEAN]

(* Every variable is in its domain, and the undo history never holds more  *)
(* than MaxPast snapshots, although redo adds to the past without a cap.   *)
TypeOK ==
    /\ page \in [screen : {"list", "loading", "editing", "error"},
                 layout : Layouts \cup {None}, visit : Nat]
    /\ layout \in Layouts \cup {None} /\ token \in Nat
    /\ plan \in Plans
    /\ past \in Seq(Plans) /\ future \in Seq(Plans)
    /\ Len(past) + Len(future) <= MaxPast
    /\ drag \in Drags
    /\ file \in Plans \cup {None}
    /\ call \in [Calls -> Requests]
    /\ version \in [Layouts -> Nat]
    /\ stored \in [Layouts -> [born : UNION {[R -> SeatIds] : R \in SUBSET Rows},
                               look : Looks \cup {None}]]
    /\ used \subseteq Rows /\ rowSeq \in 0..MaxRows
    /\ base \in Nat /\ doubt \subseteq {"rewound", "late", "overtaken"}
    /\ gesture \in Plans \cup {None}
    /\ made \subseteq 1..MaxSeats /\ acts \in Nat
    /\ Editing => layout # None

Committed(c) == call[c].step = "sent" /\ call'[c].step = "committed"

(* A save replaces only the version its plan descends from, whatever was   *)
(* clicked, answered and lost in between, unless the tab took the version  *)
(* over from a late answer to another plan, or from a reply that had read  *)
(* another save.                                                           *)
NoLostUpdate ==
    [][\A c \in Calls :
          Committed(c) /\ call[c].doubt \cap {"late", "overtaken"} = {} =>
              version[call[c].layout] = call[c].base]_vars

(* The plan is not one from before a save, and its version was not read,   *)
(* from another save, by an answer to a plan that is gone.                 *)
Traceable(d) == "rewound" \notin d /\ ~({"late", "overtaken"} \subseteq d)

(* A save that deletes a row inserts no seat that row already stored:      *)
(* retried, doubled or unanswered saves keep the row ids of their seats,   *)
(* on which events build, unless an undo, a redo or an import brought back *)
(* a plan from before a save, or the tab took the version of a later save  *)
(* from a late answer.                                                     *)
RowsKeepIdentity ==
    [][\A c \in Calls :
          Committed(c) /\ Traceable(call[c].doubt) =>
              LET l == call[c].layout
              IN  \A r \in DOMAIN stored[l].born \ DOMAIN stored'[l].born :
                     stored[l].born[r] \notin NewSeats(call[c].plan)]_vars

(* No seat is stored in two rows of its layout, whichever saves were       *)
(* repeated.                                                               *)
OneRowPerSeat ==
    \A l \in Layouts :
        \A r, q \in DOMAIN stored[l].born :
            stored[l].born[r] = stored[l].born[q] => r = q

(* While the tab has the current version of its layout, every row its plan *)
(* names is there: a save is refused for a foreign seat only with a stale  *)
(* version or after the plan was put in doubt.                             *)
SavableWhenCurrent ==
    layout # None /\ doubt = {} /\ token = version[layout] =>
        RowsOf(plan) \subseteq DOMAIN stored[layout].born

(* Undo right after a gesture - for the drag of a group, all its moves -   *)
(* restores the plan from before it, unless an earlier drag was cut short  *)
(* by a key, after which the canvas takes the next one for its             *)
(* continuation.  Locking a group takes an undo per seat.                  *)
UndoRestoresTheGesture ==
    [][Undo /\ gesture # None => plan' = gesture]_vars

=============================================================================
