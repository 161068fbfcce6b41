------------------------------ MODULE BuyerPage ------------------------------
(***************************************************************************)
(* One browser tab in which a buyer picks tickets for an event and pays:   *)
(* the seat page (app/events/[event_id]/seats, lib/hooks), the checkout    *)
(* page (app/(user)/checkout/[event_id]) and the hold token the tab keeps  *)
(* in its session storage (lib/holdStorage).                               *)
(*                                                                         *)
(* Mounting a page starts its requests.  Replies to what a page loads are  *)
(* ignored once it is left, but Proceed and Pay run on whatever page is    *)
(* then open, and navigate from there.  The server is seen from outside:   *)
(* a hold is granted as a whole, ends by its release or its deadline, and  *)
(* its seats are free then - what Booking is shown to do.  The event has   *)
(* seats, in tiers that do not matter here, and one general-admission tier *)
(* bought by quantity.                                                     *)
(***************************************************************************)
EXTENDS Naturals, FiniteSets

CONSTANTS
    Seats,        \* seats on the map
    MaxHolds,     \* bound: holds the tab is granted
    MaxCalls,     \* bound: runs of Proceed and Pay under way
    MaxPerOrder,  \* events.max_tickets_per_order, 0 means uncapped
    MaxQty,       \* what max_ga_quantity lets the buyer choose
    MaxActs,      \* bound: clicks on Proceed, Pay and on links, reloads
    MaxFaults,    \* bound: calls that fail, or whose answer is lost
    None          \* no hold

ASSUME BuyerPageAssumption ==
    /\ None \notin Nat
    /\ {MaxHolds, MaxCalls, MaxPerOrder, MaxQty, MaxActs, MaxFaults} \subseteq Nat
    /\ MaxQty > 0

(* Tokens and runs are numbered in the order they come up. *)
Holds == 1..MaxHolds
Calls == 1..MaxCalls

VARIABLES
    page,      \* the page shown, the hold token in its address, and the
               \* number of its mount
    going,     \* the address router.push is about to open
    stored,    \* sessionStorage: the hold token of this event
    active,    \* seat page: active_hold; checkout page: hold
    sel,       \* seat page: chosen_seats, mode and quantity
    busy,      \* is_submitting of the page shown
    error,     \* checkout page: "load" if load_error is set, "event" if only
               \* the event is missing
    fired,     \* the hold whose expiry the page has been told of
    shown,     \* seats drawn as available, None without a map
    mapCall,   \* GET seatmap is under way on the page shown
    load,      \* GET hold of the page shown
    call,      \* per run of Proceed or Pay: where it is
    hold,      \* the server's holds: their fate and what is in them
    visited,   \* hold tokens in the browser's history
    excused,   \* holds the tab was made to forget (history)
    endedBy,   \* the mount whose Proceed released a hold, 0 (history)
    acts,      \* what MaxActs bounds, so far
    faults     \* what MaxFaults bounds, so far

local  == <<active, sel, busy, error, fired>>
loads  == <<shown, mapCall, load>>
history == <<excused, endedBy, acts, faults>>
vars == <<page, going, stored, local, loads, call, hold, visited, history>>

Token == Holds \cup {None}

Free == [seats |-> {}, qty |-> 0]
NoCall == [step |-> "idle", mount |-> 0, old |-> None, want |-> Free,
           new |-> None]
NoLoad == [step |-> "none", token |-> None]
NothingChosen == [mode |-> "seats", seats |-> {}, qty |-> 0]

Live(h) == h # None /\ hold[h].fate = "live"
Locked == UNION {hold[h].seats : h \in {g \in Holds : Live(g)}}

(* The server draws a new token; a run starts. *)
Fresh(h) == hold[h].fate = "unused" /\ \A g \in 1..(h - 1) : hold[g].fate # "unused"
Ready(c) == call[c] = NoCall /\ \A d \in 1..(c - 1) : call[d] # NoCall

OnMap == page.at = "map"
OnCheckout == page.at = "checkout"

(* The page that started a run of Proceed or Pay is still mounted. *)
Mounted(c) == call[c].mount = page.mount

Act ==
    /\ acts < MaxActs
    /\ acts' = acts + 1

Fault ==
    /\ faults < MaxFaults
    /\ faults' = faults + 1

(* The token t is no longer what the tab has stored: unless it is among    *)
(* the tokens that were meant, the tab has lost track of it.               *)
Overwritten(meant) == {stored} \ (meant \cup {None})

----------------------------------------------------------------------------
(* Navigation. *)

(* The state of a page that has just been mounted.  Both pages ask for a   *)
(* hold: the seat page for the one stored, the checkout page for the one   *)
(* in its address.                                                         *)
Mount(at, url, m) ==
    LET token == IF at = "map" THEN stored ELSE url
    IN  /\ page' = [at |-> at, url |-> url, mount |-> m]
        /\ active' = None
        /\ sel' = NothingChosen
        /\ busy' = FALSE
        /\ error' = "none"
        /\ fired' = None
        /\ shown' = None
        /\ mapCall' = (at = "map")
        /\ load' = IF token = None \/ at = "elsewhere" THEN NoLoad
                   ELSE [step |-> "sent", token |-> token]
        /\ going' = None

(* From one checkout to another the page stays mounted, with its state. *)
Readdress(h) ==
    /\ page' = [page EXCEPT !.url = h]
    /\ load' = [step |-> "sent", token |-> h]
    /\ going' = None
    /\ UNCHANGED <<local, shown, mapCall>>

Show(at, url) ==
    IF OnCheckout /\ at = "checkout" THEN url # page.url /\ Readdress(url)
    ELSE Mount(at, url, page.mount + 1)

(* The page router.push asked for appears. *)
Arrive ==
    /\ going # None
    /\ IF going.at = page.at /\ going.url = page.url
         THEN going' = None /\ UNCHANGED <<page, local, loads>>
         ELSE Show(going.at, going.url)
    /\ visited' = visited \cup ({going.url} \ {None})
    /\ UNCHANGED <<stored, call, hold, history>>

(* A link to the seat page, or to a page outside this model; the browser's *)
(* back and forward buttons, which also lead to an earlier checkout.       *)
BuyerGoes ==
    /\ Act
    /\ \/ ~OnMap /\ Show("map", None)
       \/ page.at # "elsewhere" /\ Show("elsewhere", None)
       \/ \E h \in visited : Show("checkout", h)
    /\ UNCHANGED <<stored, call, hold, visited, excused, endedBy,
                   faults>>

(* The browser reloads the page: nothing waits for the runs under way, and *)
(* a hold one of them had just been granted is never stored.               *)
Refresh ==
    /\ Act
    /\ page.at # "elsewhere"
    /\ Mount(page.at, page.url, page.mount + 1)
    /\ call' = [c \in Calls |->
                   IF call[c].step \in {"releasing", "creating", "ordering"}
                     THEN [call[c] EXCEPT !.mount = 0] ELSE NoCall]
    /\ excused' = excused \cup ({call[c].new : c \in Calls} \ {None})
    /\ UNCHANGED <<stored, hold, visited, endedBy, faults>>

----------------------------------------------------------------------------
(* The seat page: the map and the selection. *)

(* reload: the answer to an earlier request is ignored. *)
Reload == mapCall' = TRUE

(* useEventSeatMap: other buyers may have any seat but the tab's.  A       *)
(* failure leaves no map to click.                                         *)
MapReply ==
    /\ mapCall
    /\ mapCall' = FALSE
    /\ \/ shown' \in SUBSET (Seats \ Locked) /\ UNCHANGED faults
       \/ Fault /\ shown' = None
    /\ UNCHANGED <<page, going, stored, local, load, call, hold, visited, excused,
                   endedBy, acts>>

Selects(s) ==
    /\ OnMap
    /\ sel' = s
    /\ UNCHANGED <<page, going, stored, active, busy, error, fired, loads, call, hold,
                   visited, history>>

(* A seat can be clicked while it is drawn as available: those of the      *)
(* buyer's own hold are selectable_seat_ids too, but LayoutPreview draws   *)
(* no button for a seat whose status is "held".                            *)
Clickable(s) ==
    /\ sel.mode = "seats"
    /\ ~mapCall /\ shown # None
    /\ s \in shown

(* toggle_seat *)
ToggleSeat(s) ==
    /\ Clickable(s)
    /\ \/ s \in sel.seats /\ Selects([sel EXCEPT !.seats = @ \ {s}])
       \/ /\ s \notin sel.seats
          /\ MaxPerOrder = 0 \/ Cardinality(sel.seats) < MaxPerOrder
          /\ Selects([sel EXCEPT !.seats = @ \cup {s}])

(* In the panel, which lists the seats unless it shows a quantity. *)
ByQuantity == sel.mode = "ga" /\ shown # None

RemoveSeat(s) ==
    /\ ~ByQuantity
    /\ s \in sel.seats
    /\ Selects([sel EXCEPT !.seats = @ \ {s}])

ChooseSeats ==
    /\ ByQuantity
    /\ Selects([sel EXCEPT !.mode = "seats", !.qty = 0])

ChooseGA ==
    /\ sel.mode = "seats"
    /\ shown # None
    /\ Selects([mode |-> "ga", seats |-> {}, qty |-> 1])

ChangeQuantity(q) ==
    /\ ByQuantity
    /\ q \in {sel.qty - 1, sel.qty + 1}
    /\ Selects([sel EXCEPT !.qty = q])

----------------------------------------------------------------------------
(* The seat page: the hold it had. *)

(* GetHold, for either page. *)
HoldRead ==
    /\ load.step = "sent"
    /\ \/ /\ load' = [load EXCEPT !.step = IF Live(load.token) THEN "found"
                                           ELSE "gone"]
          /\ UNCHANGED faults
       \/ /\ Fault
          /\ load' = [load EXCEPT !.step = "failed"]
    /\ UNCHANGED <<page, going, stored, local, shown, mapCall, call, hold, visited,
                   excused, endedBy, acts>>

(* What the buyer chose meanwhile is replaced by what is in the hold; for  *)
(* seats, the mode stays.                                                  *)
Restored(h) ==
    IF hold[h].seats # {} THEN [sel EXCEPT !.seats = hold[h].seats]
    ELSE [sel EXCEPT !.mode = "ga", !.qty = hold[h].qty]

RestoreReply ==
    /\ OnMap
    /\ load.step \in {"found", "gone", "failed"}
    /\ load' = NoLoad
    /\ \/ /\ load.step = "found"
          /\ active' = load.token
          /\ sel' = Restored(load.token)
          /\ UNCHANGED <<stored, excused>>
       \/ /\ load.step # "found"
          /\ stored' = None
          /\ excused' = excused \cup
                Overwritten(IF load.step = "gone" THEN {load.token} ELSE {})
          /\ UNCHANGED <<active, sel>>
    /\ UNCHANGED <<page, going, busy, error, fired, shown, mapCall, call, hold, visited,
                   endedBy, acts, faults>>

(* A tick finds the deadline of the page's hold passed.  (That of a hold   *)
(* the tab has released may have passed.)                                  *)
Passed == active # None /\ ~Live(active)

\* Mistake: the token stays in the tab's storage.
SeatPageExpiryKeepsToken ==
    /\ OnMap /\ Passed
    /\ active' = None
    /\ sel' = [sel EXCEPT !.seats = {}, !.qty = 0]
    /\ Reload
    /\ UNCHANGED <<page, going, stored, busy, error, fired, shown, load, call, hold,
                   visited, history>>

(* handle_hold_expired of the seat page *)
SeatPageExpiry ==
    /\ OnMap /\ Passed
    /\ stored' = None
    /\ excused' = excused \cup Overwritten({active})
    /\ active' = None
    /\ sel' = [sel EXCEPT !.seats = {}, !.qty = 0]
    /\ Reload
    /\ UNCHANGED <<page, going, busy, error, fired, shown, load, call, hold, visited,
                   endedBy, acts, faults>>

----------------------------------------------------------------------------
(* Proceed: release the old hold, then take the new one. *)

Wanted == IF ByQuantity THEN [seats |-> {}, qty |-> sel.qty]
          ELSE [seats |-> sel.seats, qty |-> 0]

(* sameSeats *)
Unchanged == active # None /\ sel.mode = "seats" /\ sel.seats = hold[active].seats

\* Mistake: the old hold is left to lapse.
FirstRequestCreates == "creating"

FirstRequest == IF active # None THEN "releasing" ELSE "creating"

(* The button is off while a run of this mount is under way. *)
ClickProceed(c) ==
    /\ OnMap /\ ~busy
    /\ Wanted # Free
    /\ Ready(c)
    /\ Act
    /\ \/ (* not signed in *)
          /\ going' = [at |-> "elsewhere", url |-> None]
          /\ UNCHANGED <<busy, call>>
       \/ /\ Unchanged
          /\ going' = [at |-> "checkout", url |-> active]
          /\ UNCHANGED <<busy, call>>
       \/ /\ ~Unchanged
          /\ busy' = TRUE
          /\ call' = [call EXCEPT ![c] =
                         [step |-> FirstRequest, mount |-> page.mount,
                          old |-> active, want |-> Wanted, new |-> None]]
          /\ UNCHANGED going
    /\ UNCHANGED <<page, stored, active, sel, error, fired, loads, hold, visited,
                   excused, endedBy, faults>>

To(c, step) == [call EXCEPT ![c].step = step]
Finished(c) == [call EXCEPT ![c] = NoCall]

(* set_is_submitting(false), of the page that started the run. *)
StillBusy(c) == busy /\ ~Mounted(c)

(* The server releases the hold, or never hears of it; either way the run  *)
(* goes on, and the hold is forgotten.                                     *)
Release(c) ==
    LET h == call[c].old
    IN  /\ call[c].step = "releasing"
        /\ call' = IF call[c].mount = 0 THEN Finished(c)
                   ELSE To(c, "released")
        /\ \/ /\ hold' = [hold EXCEPT ![h].fate = IF @ = "live" THEN "released" ELSE @]
              /\ endedBy' = [endedBy EXCEPT ![h] =
                                IF Live(h) THEN call[c].mount ELSE @]
              /\ UNCHANGED <<excused, faults>>
           \/ /\ Fault
              /\ excused' = excused \cup {h}
              /\ UNCHANGED <<hold, endedBy>>
        /\ UNCHANGED <<page, going, stored, local, loads, visited,
                       acts>>

\* Mistake: the page goes on showing the hold it has released.
AfterReleaseKept(c) == active

AfterRelease(c) == IF Mounted(c) THEN None ELSE active

ReleaseReply(c) ==
    /\ call[c].step = "released"
    /\ stored' = None
    /\ excused' = excused \cup Overwritten({call[c].old})
    /\ active' = AfterRelease(c)
    /\ call' = To(c, "creating")
    /\ UNCHANGED <<page, going, sel, busy, error, fired, loads, hold, visited,
                   endedBy, acts, faults>>

(* A new hold, all or nothing; a refusal, also for want of a session; or   *)
(* an answer that is lost, which the code takes for a refusal.             *)
Create(c) ==
    LET want == call[c].want
        Answer(step, h) == call' = IF call[c].mount = 0
                                     THEN Finished(c)
                                     ELSE [call EXCEPT ![c].step = step, ![c].new = h]
        Grant(h) == /\ Fresh(h)
                    /\ want.seats \cap Locked = {}
                    /\ hold' = [hold EXCEPT ![h] = [fate |-> "live",
                                                    seats |-> want.seats,
                                                    qty |-> want.qty]]
    IN  /\ call[c].step = "creating"
        /\ \/ \E h \in Holds :
                 /\ Grant(h)
                 /\ Answer("granted", h)
                 /\ excused' = IF call[c].mount = 0 THEN excused \cup {h} ELSE excused
                 /\ UNCHANGED faults
           \/ /\ Answer("refused", None)
              /\ UNCHANGED <<hold, excused, faults>>
           \/ /\ Answer("signed out", None)
              /\ UNCHANGED <<hold, excused, faults>>
           \/ /\ Fault
              /\ \E h \in Holds : Grant(h) /\ excused' = excused \cup {h}
              /\ Answer("refused", None)
        /\ UNCHANGED <<page, going, stored, local, loads, visited,
                       endedBy, acts>>

\* Mistake: the token is only in the address of the checkout page.
KeptNot(c) == stored

Kept(c) == call[c].new

CreateReply(c) ==
    /\ call[c].step \in {"granted", "refused", "signed out"}
    /\ call' = Finished(c)
    /\ busy' = StillBusy(c)
    /\ \/ /\ call[c].step = "granted"
          /\ stored' = Kept(c)
          /\ excused' = excused \cup Overwritten({call[c].old})
          /\ going' = [at |-> "checkout", url |-> call[c].new]
          /\ UNCHANGED <<sel, mapCall>>
       \/ /\ call[c].step = "signed out"
          /\ going' = [at |-> "elsewhere", url |-> None]
          /\ UNCHANGED <<stored, excused, sel, mapCall>>
       \/ /\ call[c].step = "refused"
          /\ IF Mounted(c) THEN sel' = [sel EXCEPT !.seats = {}] /\ Reload
             ELSE UNCHANGED <<sel, mapCall>>
          /\ UNCHANGED <<stored, excused, going>>
    /\ UNCHANGED <<page, active, error, fired, shown, load, hold, visited, endedBy,
                   acts, faults>>

----------------------------------------------------------------------------
(* The checkout page. *)

(* A hold that was found needs its event too before anything can be paid;  *)
(* without it the page says that the hold has expired.                     *)
LoadReply ==
    /\ OnCheckout
    /\ load.step \in {"found", "gone", "failed"}
    /\ load' = NoLoad
    /\ \/ /\ load.step = "found"
          /\ active' = load.token
          /\ error' \in CASE error = "load" -> {"load"}
                         [] active # None /\ error = "none" -> {"none"}
                         [] OTHER -> {"none", "event"}
       \/ /\ load.step # "found"
          /\ error' = "load"
          /\ UNCHANGED active
    /\ UNCHANGED <<page, going, stored, sel, busy, fired, shown, mapCall, call, hold,
                   visited, history>>

(* handle_hold_expired of the checkout page: the hold stays in its state,  *)
(* behind the error.                                                       *)
CheckoutExpiry ==
    /\ OnCheckout /\ Passed
    /\ fired # active
    /\ fired' = active
    /\ stored' = None
    /\ excused' = excused \cup Overwritten({active})
    /\ error' = "load"
    /\ UNCHANGED <<page, going, active, sel, busy, loads, call, hold, visited,
                   endedBy, acts, faults>>

(* handle_confirm *)
Confirm(c) ==
    /\ OnCheckout /\ ~busy
    /\ active # None /\ error = "none"
    /\ Ready(c)
    /\ Act
    /\ busy' = TRUE
    /\ call' = [call EXCEPT ![c] = [NoCall EXCEPT !.step = "ordering",
                                                  !.mount = page.mount,
                                                  !.old = active]]
    /\ UNCHANGED <<page, going, stored, active, sel, error, fired, loads, hold, visited,
                   excused, endedBy, faults>>

(* CreateOrder knows the cart, not the hold. *)
CreateOrder(c) ==
    /\ call[c].step = "ordering"
    /\ \/ call' = (IF call[c].mount = 0 THEN Finished(c) ELSE To(c, "ordered"))
          /\ UNCHANGED faults
       \/ /\ Fault
          /\ call' = To(c, "failed")
    /\ UNCHANGED <<page, going, stored, local, loads, hold, visited, excused,
                   endedBy, acts>>

(* The payment window opens over whatever page is shown, unless its script *)
(* was not loaded.                                                         *)
OrderReply(c) ==
    /\ call[c].step \in {"ordered", "failed"}
    /\ \/ /\ call[c].step = "ordered"
          /\ call' = To(c, "paying")
          /\ UNCHANGED busy
       \/ /\ call' = Finished(c)
          /\ busy' = StillBusy(c)
    /\ UNCHANGED <<page, going, stored, active, sel, error, fired, loads, hold, visited,
                   history>>

\* Mistake: closing the window without paying is not handled.
ButtonAfterWindowOff(c) == busy

ButtonAfterWindow(c) == StillBusy(c)

(* onSuccess leads to the order's page and leaves the button as it is;     *)
(* after onPending, onError and onClose the buyer may pay again, with      *)
(* another order.                                                          *)
WindowEnds(c) ==
    /\ call[c].step = "paying"
    /\ \/ /\ going' = [at |-> "elsewhere", url |-> None]
          /\ call' = To(c, "paid")
          /\ UNCHANGED busy
       \/ /\ busy' = ButtonAfterWindow(c)
          /\ call' = Finished(c)
          /\ UNCHANGED going
    /\ UNCHANGED <<page, stored, active, sel, error, fired, loads, hold, visited, history>>

----------------------------------------------------------------------------
(* The server, on its own. *)

Lapse(h) ==
    /\ Live(h)
    /\ hold' = [hold EXCEPT ![h].fate = "lapsed"]
    /\ UNCHANGED <<page, going, stored, local, loads, call, visited,
                   history>>

----------------------------------------------------------------------------
Init ==
    /\ page = [at |-> "map", url |-> None, mount |-> 1]
    /\ going = None
    /\ stored = None
    /\ active = None
    /\ sel = NothingChosen
    /\ busy = FALSE
    /\ error = "none"
    /\ fired = None
    /\ shown = None
    /\ mapCall = TRUE
    /\ load = NoLoad
    /\ call = [c \in Calls |-> NoCall]
    /\ hold = [h \in Holds |-> [fate |-> "unused", seats |-> {}, qty |-> 0]]
    /\ visited = {}
    /\ excused = {}
    /\ endedBy = [h \in Holds |-> 0]
    /\ acts = 0
    /\ faults = 0

Choosing ==
    \/ \E s \in Seats : ToggleSeat(s) \/ RemoveSeat(s)
    \/ ChooseSeats \/ ChooseGA
    \/ \E q \in 0..MaxQty : ChangeQuantity(q)

Proceeding(c) ==
    ClickProceed(c) \/ Release(c) \/ ReleaseReply(c) \/ Create(c) \/ CreateReply(c)

Paying(c) == Confirm(c) \/ CreateOrder(c) \/ OrderReply(c) \/ WindowEnds(c)

Answers == MapReply \/ HoldRead \/ RestoreReply \/ LoadReply

Expiry == SeatPageExpiry \/ CheckoutExpiry

Next ==
    \/ Arrive \/ BuyerGoes \/ Refresh
    \/ Choosing
    \/ \E c \in Calls : Proceeding(c) \/ Paying(c)
    \/ Answers
    \/ Expiry
    \/ \E h \in Holds : Lapse(h)

Spec == Init /\ [][Next]_vars

(* Requests are answered, or fail; timers fire; router.push navigates.     *)
FairSpec ==
    /\ Spec
    /\ WF_vars(Arrive) /\ WF_vars(HoldRead) /\ WF_vars(RestoreReply)
    /\ WF_vars(SeatPageExpiry)

----------------------------------------------------------------------------
(* Properties. *)

(* The tab has the token in its storage, or a run is about to put it there. *)
Known(h) ==
    \/ h = stored
    \/ \E c \in Calls : call[c].mount # 0 /\ call[c].new = h

(* A hold that still locks tickets is the one in its tab's storage, from   *)
(* where the seat page shows them as the buyer's and can release them, or  *)
(* on its way there - unless a request about it failed, the page was       *)
(* reloaded under a run, or two runs, or a run and the restoring of the    *)
(* stored hold, overlapped: whatever the buyer clicks while replies are    *)
(* late, and whenever holds lapse.                                         *)
ForgottenHoldHasACause ==
    \A h \in Holds : Live(h) => Known(h) \/ h \in excused

(* The hold a page has, counts down and sells is the buyer's: it is live,  *)
(* or lapsed since the last tick, or its release by this page is being     *)
(* answered, or a run that the buyer left behind has released it.          *)
ShownHoldIsHeld ==
    active # None =>
        \/ hold[active].fate \in {"live", "lapsed"}
        \/ endedBy[active] # page.mount
        \/ \E c \in Calls :
              Mounted(c) /\ call[c].step = "released" /\ call[c].old = active

(* A disabled Proceed or Pay button comes back with the reply of a run of  *)
(* the same page, or a payment was made: no failure, reply to another page *)
(* or closed payment window leaves it disabled.                            *)
ButtonComesBack == busy => \E c \in Calls : Mounted(c)

(* The seat page does not keep the token of a hold that is gone: it learns *)
(* so when it loads the hold or when its time is up.                       *)
DeadToken == OnMap /\ stored # None /\ ~Live(stored)
DeadTokenIsForgotten == []<>~DeadToken
=============================================================================
