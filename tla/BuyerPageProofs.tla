--------------------------- MODULE BuyerPageProofs ---------------------------
(***************************************************************************)
(* Theorems about BuyerPage, for any seats, holds, runs and bounds: that   *)
(* the button comes back, that the hold shown is held, and that no live    *)
(* hold is forgotten without a cause.                                      *)
(***************************************************************************)
EXTENDS BuyerPage, TLAPS

Places == {"map", "checkout", "elsewhere"}
Steps == {"idle", "releasing", "released", "creating", "granted", "refused",
          "signed out", "ordering", "ordered", "failed", "paying", "paid"}
Contents == [seats : SUBSET Seats, qty : 0..MaxQty]
Runs == [step : Steps, mount : Nat, old : Token, want : Contents, new : Token]

(* What the variables hold. *)
TypeInv ==
    /\ page \in [at : Places, url : Token, mount : Nat \ {0}]
    /\ going = None \/ going \in [at : Places, url : Token]
    /\ stored \in Token /\ active \in Token /\ fired \in Token
    /\ sel \in [mode : {"seats", "ga"}, seats : SUBSET Seats, qty : 0..MaxQty]
    /\ busy \in BOOLEAN
    /\ error \in {"none", "load", "event"}
    /\ load \in [step : {"none", "sent", "found", "gone", "failed"}, token : Token]
    /\ load.step # "none" => load.token \in Holds
    /\ call \in [Calls -> Runs]
    /\ hold \in [Holds -> [fate : {"unused", "live", "lapsed", "released"},
                           seats : SUBSET Seats, qty : 0..MaxQty]]
    /\ visited \subseteq Holds /\ excused \subseteq Holds
    /\ endedBy \in [Holds -> Nat]
    /\ shown = None \/ shown \in SUBSET Seats
    /\ \A c \in Calls : /\ call[c].step = "releasing" => call[c].old \in Holds
                        /\ call[c].step = "released" => call[c].old \in Holds
                        /\ call[c].step = "granted" => call[c].new \in Holds
    /\ page.at = "checkout" => page.url \in Holds
    /\ going # None => (going.at = "checkout" => going.url \in Holds)

(* A run that has not begun, a page that loads no hold, an empty cart.     *)
LEMMA Constants ==
    /\ None \notin Holds /\ None \in Token /\ Holds \subseteq Token
    /\ Free \in Contents /\ NoCall \in Runs /\ NoCall.new = None
    /\ NoCall.step = "idle" /\ NoCall.mount = 0 /\ NoCall.old = None
    /\ NoLoad \in [step : {"none", "sent", "found", "gone", "failed"}, token : Token]
    /\ NoLoad.step = "none" /\ NoLoad.token = None
    /\ NothingChosen \in [mode : {"seats", "ga"}, seats : SUBSET Seats,
                          qty : 0..MaxQty]
  <1>1. MaxQty \in Nat
    BY BuyerPageAssumption
  <1>2. None \notin Holds
    BY BuyerPageAssumption DEF Holds
  <1>3. 0 \in 0..MaxQty
    BY <1>1
  <1>4. Free \in Contents
    BY <1>3 DEF Free, Contents
  <1> QED
    BY <1>2, <1>3, <1>4 DEF Token, NoCall, NoLoad, NothingChosen, Runs, Steps

(* Mounting a page and moving from one checkout to the next keep the types *)
(* of what the page holds.                                                 *)
LEMMA ShowTypes ==
    ASSUME TypeInv, NEW at \in Places, NEW url \in Token,
           at = "checkout" => url \in Holds,
           \/ Show(at, url)
           \/ Mount(at, url, page.mount + 1)
    PROVE  /\ page' \in [at : Places, url : Token, mount : Nat \ {0}]
           /\ page'.at = "checkout" => page'.url \in Holds
           /\ going' = None /\ active' \in Token /\ fired' \in Token
           /\ sel' \in [mode : {"seats", "ga"}, seats : SUBSET Seats, qty : 0..MaxQty]
           /\ busy' \in BOOLEAN
           /\ error' \in {"none", "load", "event"}
           /\ load' \in [step : {"none", "sent", "found", "gone", "failed"},
                         token : Token]
           /\ load'.step # "none" => load'.token \in Holds
           /\ shown' = None \/ shown' \in SUBSET Seats
  <1>0. page.mount + 1 \in Nat \ {0}
    BY DEF TypeInv
  <1>1. CASE Mount(at, url, page.mount + 1)
    <2>1. /\ page' = [at |-> at, url |-> url, mount |-> page.mount + 1]
          /\ active' = None /\ sel' = NothingChosen /\ busy' = FALSE
          /\ error' = "none" /\ fired' = None /\ shown' = None /\ going' = None
          /\ \/ load' = NoLoad
             \/ \E t \in Token \ {None} : load' = [step |-> "sent", token |-> t]
      BY <1>1 DEF Mount, TypeInv
    <2>2. /\ load' \in [step : {"none", "sent", "found", "gone", "failed"},
                        token : Token]
          /\ load'.step # "none" => load'.token \in Holds
      BY <2>1, Constants DEF Token
    <2>3. page' \in [at : Places, url : Token, mount : Nat \ {0}]
      BY <1>0, <2>1
    <2>4. page'.at = "checkout" => page'.url \in Holds
      BY <2>1
    <2> QED
      BY <2>1, <2>2, <2>3, <2>4, Constants
  <1>2. CASE Readdress(url) /\ at = "checkout" /\ OnCheckout
    BY <1>2, Constants DEF Readdress, OnCheckout, TypeInv, local
  <1> QED
    BY <1>1, <1>2 DEF Show

(* The buyer's navigation keeps the types. *)
LEMMA NavigationTypes ==
    ASSUME TypeInv, Arrive \/ BuyerGoes \/ Refresh PROVE TypeInv'
  <1> DEFINE Rest == /\ UNCHANGED <<stored, call, hold, endedBy>>
                     /\ visited' \subseteq Holds /\ excused' \subseteq Holds
  <1>1. ASSUME NEW at \in Places, NEW url \in Token, Show(at, url), Rest,
               at = "checkout" => url \in Holds
        PROVE  TypeInv'
    BY <1>1, ShowTypes DEF TypeInv
  <1>2. CASE Arrive
    <2>1. /\ going \in [at : Places, url : Token]
          /\ going.at = "checkout" => going.url \in Holds
      BY <1>2 DEF Arrive, TypeInv
    <2>2. Rest
      BY <1>2, <2>1, Constants DEF Arrive, TypeInv, Token, history
    <2>3. CASE Show(going.at, going.url)
      BY <2>1, <2>2, <2>3, <1>1
    <2>4. CASE going' = None /\ UNCHANGED <<page, local, loads>>
      BY <2>2, <2>4 DEF TypeInv, local, loads
    <2> QED
      BY <1>2, <2>3, <2>4 DEF Arrive
  <1>3. CASE BuyerGoes
    <2>1. Rest
      BY <1>3 DEF BuyerGoes, TypeInv
    <2>2. PICK at \in Places, url \in Token :
             Show(at, url) /\ (at = "checkout" => url \in Holds)
      BY <1>3, Constants DEF BuyerGoes, Places, TypeInv
    <2> QED
      BY <1>1, <2>1, <2>2
  <1>4. CASE Refresh
    <2>1. Mount(page.at, page.url, page.mount + 1)
      BY <1>4 DEF Refresh
    <2>2. page.at \in Places /\ page.url \in Token
      BY DEF TypeInv
    <2>3. page.at = "checkout" => page.url \in Holds
      BY DEF TypeInv
    <2>4. call' = [c \in Calls |->
                     IF call[c].step \in {"releasing", "creating", "ordering"}
                       THEN [call[c] EXCEPT !.mount = 0] ELSE NoCall]
      BY <1>4 DEF Refresh
    <2>5. \A c \in Calls : [call[c] EXCEPT !.mount = 0] \in Runs
      BY DEF TypeInv, Runs
    <2>6. call' \in [Calls -> Runs]
      BY <2>4, <2>5, Constants
    <2>7. \A c \in Calls : /\ call'[c].step = "releasing" => call'[c].old \in Holds
                           /\ call'[c].step = "released" => call'[c].old \in Holds
                           /\ call'[c].step = "granted" => call'[c].new \in Holds
      BY <2>4, Constants DEF TypeInv, Runs
    <2>8. excused' \subseteq Holds /\ UNCHANGED <<stored, hold, visited, endedBy>>
      BY <1>4 DEF Refresh, TypeInv, Runs, Token
    <2>9. /\ page' \in [at : Places, url : Token, mount : Nat \ {0}]
          /\ page'.at = "checkout" => page'.url \in Holds
          /\ going' = None /\ active' \in Token /\ fired' \in Token
          /\ sel' \in [mode : {"seats", "ga"}, seats : SUBSET Seats, qty : 0..MaxQty]
          /\ busy' \in BOOLEAN
          /\ error' \in {"none", "load", "event"}
          /\ load' \in [step : {"none", "sent", "found", "gone", "failed"},
                        token : Token]
          /\ load'.step # "none" => load'.token \in Holds
          /\ shown' = None \/ shown' \in SUBSET Seats
      BY <2>1, <2>2, <2>3, ShowTypes
    <2> QED
      BY <2>6, <2>7, <2>8, <2>9 DEF TypeInv
  <1> QED
    BY <1>2, <1>3, <1>4

(* Choosing keeps the types. *)
LEMMA ChoosingTypes == ASSUME TypeInv, Choosing PROVE TypeInv'
  <1>0. 0 \in 0..MaxQty /\ 1 \in 0..MaxQty
    BY BuyerPageAssumption
  <1>1. /\ sel' \in [mode : {"seats", "ga"}, seats : SUBSET Seats, qty : 0..MaxQty]
        /\ UNCHANGED <<page, going, stored, active, busy, error, fired, loads, call,
                       hold, visited, history>>
    <2>1. ASSUME NEW s \in Seats, ToggleSeat(s) \/ RemoveSeat(s)
          PROVE  sel' \in [mode : {"seats", "ga"}, seats : SUBSET Seats,
                           qty : 0..MaxQty]
      BY <2>1 DEF ToggleSeat, RemoveSeat, Selects, TypeInv
    <2>2. ASSUME NEW s \in Seats, ToggleSeat(s) \/ RemoveSeat(s)
          PROVE  UNCHANGED <<page, going, stored, active, busy, error, fired, loads,
                             call, hold, visited, history>>
      BY <2>2 DEF ToggleSeat, RemoveSeat, Selects
    <2>3. ASSUME ChooseSeats \/ ChooseGA
          PROVE  /\ sel' \in [mode : {"seats", "ga"}, seats : SUBSET Seats,
                              qty : 0..MaxQty]
                 /\ UNCHANGED <<page, going, stored, active, busy, error, fired,
                                loads, call, hold, visited, history>>
      <3>1. CASE ChooseSeats
        BY <1>0, <3>1 DEF ChooseSeats, Selects, TypeInv
      <3>2. CASE ChooseGA
        BY <1>0, <3>2 DEF ChooseGA, Selects, TypeInv
      <3> QED
        BY <2>3, <3>1, <3>2
    <2>4. ASSUME NEW q \in 0..MaxQty, ChangeQuantity(q)
          PROVE  /\ sel' \in [mode : {"seats", "ga"}, seats : SUBSET Seats,
                              qty : 0..MaxQty]
                 /\ UNCHANGED <<page, going, stored, active, busy, error, fired,
                                loads, call, hold, visited, history>>
      BY <2>4 DEF ChangeQuantity, Selects, TypeInv
    <2> QED
      BY <2>1, <2>2, <2>3, <2>4 DEF Choosing
  <1> QED
    BY <1>1 DEF TypeInv, loads, history

(* The answers to what a page loads keep the types. *)
LEMMA AnswerTypes == ASSUME TypeInv, Answers PROVE TypeInv'
  <1>1. CASE MapReply
    BY <1>1 DEF MapReply, TypeInv, local
  <1>2. CASE HoldRead
    <2>1. /\ load' \in [step : {"none", "sent", "found", "gone", "failed"},
                        token : Token]
          /\ load'.token = load.token /\ load.step = "sent"
      BY <1>2 DEF HoldRead, TypeInv
    <2>2. UNCHANGED <<page, going, stored, local, shown, mapCall, call, hold, visited,
                      excused, endedBy, acts>>
      BY <1>2 DEF HoldRead
    <2> QED
      BY <2>1, <2>2 DEF TypeInv, local
  <1>3. CASE RestoreReply
    <2>1. /\ load' = NoLoad /\ load.token \in Holds
          /\ active' \in Token /\ stored' \in Token /\ excused' \subseteq Holds
      BY <1>3, Constants DEF RestoreReply, TypeInv, Overwritten, Token
    <2>2. \A h \in Holds : Restored(h) \in
             [mode : {"seats", "ga"}, seats : SUBSET Seats, qty : 0..MaxQty]
      BY DEF Restored, TypeInv
    <2>3. sel' \in [mode : {"seats", "ga"}, seats : SUBSET Seats, qty : 0..MaxQty]
      BY <1>3, <2>1, <2>2 DEF RestoreReply, TypeInv
    <2>4. UNCHANGED <<page, going, busy, error, fired, shown, mapCall, call, hold,
                      visited, endedBy, acts, faults>>
      BY <1>3 DEF RestoreReply
    <2> QED
      BY <2>1, <2>3, <2>4, Constants DEF TypeInv
  <1>4. CASE LoadReply
    <2>1. /\ load' = NoLoad /\ active' \in Token
          /\ error' \in {"none", "load", "event"}
          /\ UNCHANGED <<page, going, stored, sel, busy, fired, shown, mapCall, call,
                         hold, visited, history>>
      BY <1>4 DEF LoadReply, TypeInv
    <2> QED
      BY <2>1, Constants DEF TypeInv, history
  <1> QED
    BY <1>1, <1>2, <1>3, <1>4 DEF Answers

(* What happens when the time of a hold is up keeps the types. *)
LEMMA ExpiryTypes == ASSUME TypeInv, Expiry PROVE TypeInv'
  <1>0. 0 \in 0..MaxQty
    BY BuyerPageAssumption
  <1>1. CASE SeatPageExpiry
    <2>1. /\ stored' \in Token /\ active' \in Token /\ excused' \subseteq Holds
      BY <1>1, Constants DEF SeatPageExpiry, TypeInv, Overwritten, Token
    <2>2. sel' \in [mode : {"seats", "ga"}, seats : SUBSET Seats, qty : 0..MaxQty]
      BY <1>0, <1>1 DEF SeatPageExpiry, TypeInv
    <2>3. UNCHANGED <<page, going, busy, error, fired, shown, load, call, hold,
                      visited, endedBy, acts, faults>>
      BY <1>1 DEF SeatPageExpiry
    <2> QED
      BY <2>1, <2>2, <2>3 DEF TypeInv
  <1>2. CASE CheckoutExpiry
    <2>1. /\ stored' \in Token /\ fired' \in Token /\ excused' \subseteq Holds
          /\ error' \in {"none", "load", "event"}
          /\ UNCHANGED <<page, going, active, sel, busy, loads, call, hold, visited,
                         endedBy, acts, faults>>
      BY <1>2, Constants DEF CheckoutExpiry, TypeInv, Overwritten, Token
    <2> QED
      BY <2>1 DEF TypeInv, loads
  <1> QED
    BY <1>1, <1>2 DEF Expiry

(* A run of Proceed keeps the types. *)
LEMMA ProceedTypes ==
    ASSUME TypeInv, NEW c \in Calls, Proceeding(c) PROVE TypeInv'
  <1>0. /\ call \in [Calls -> Runs] /\ call[c] \in Runs
        /\ stored \in Token /\ active \in Token
    BY DEF TypeInv
  <1> DEFINE CallsOK == /\ call' \in [Calls -> Runs]
                        /\ \A d \in Calls :
                             /\ call'[d].step = "releasing" => call'[d].old \in Holds
                             /\ call'[d].step = "released" => call'[d].old \in Holds
                             /\ call'[d].step = "granted" => call'[d].new \in Holds
  <1>a. ASSUME NEW r \in Runs, call' = [call EXCEPT ![c] = r],
               r.step = "releasing" => r.old \in Holds,
               r.step = "released" => r.old \in Holds,
               r.step = "granted" => r.new \in Holds
        PROVE  CallsOK
    BY <1>0, <1>a DEF TypeInv
  <1>b. Finished(c) = call' => CallsOK
    BY <1>0, <1>a, Constants DEF Finished
  <1> HIDE DEF CallsOK
  <1>1. CASE ClickProceed(c)
    <2>1. Wanted \in Contents
      BY BuyerPageAssumption DEF Wanted, Contents, TypeInv
    <2> DEFINE new == [step |-> FirstRequest, mount |-> page.mount, old |-> active,
                       want |-> Wanted, new |-> None]
    <2>2. new \in Runs /\ (new.step = "releasing" => new.old \in Holds)
          /\ new.step \notin {"released", "granted"}
      BY <1>0, <2>1, Constants DEF Runs, Steps, FirstRequest, TypeInv, Token
    <2>3. call' = [call EXCEPT ![c] = new] \/ call' = call
      BY <1>1 DEF ClickProceed
    <2> HIDE DEF new
    <2>4. CallsOK
      BY <2>2, <2>3, <1>a DEF CallsOK, TypeInv
    <2>5. /\ going' = None \/ going' \in [at : Places, url : Token]
          /\ going' # None => (going'.at = "checkout" => going'.url \in Holds)
      BY <1>0, <1>1, Constants DEF ClickProceed, Unchanged, TypeInv, Places, Token
    <2>6. /\ busy' \in BOOLEAN
          /\ UNCHANGED <<page, stored, active, sel, error, fired, loads, hold,
                         visited, excused, endedBy, faults>>
      BY <1>1 DEF ClickProceed, TypeInv
    <2> QED
      BY <2>4, <2>5, <2>6 DEF TypeInv, CallsOK, loads
  <1>2. CASE Release(c)
    <2>1. call[c].old \in Holds
      BY <1>2 DEF Release, TypeInv
    <2> DEFINE r == [call[c] EXCEPT !.step = "released"]
    <2>2. r \in Runs /\ r.step = "released" /\ r.old = call[c].old
      BY <1>0 DEF Runs, Steps
    <2>3. call' = Finished(c) \/ call' = [call EXCEPT ![c] = r]
      BY <1>0, <1>2 DEF Release, To
    <2> HIDE DEF r
    <2>4. CallsOK
      BY <2>1, <2>2, <2>3, <1>a, <1>b
    <2>5. hold' \in [Holds -> [fate : {"unused", "live", "lapsed", "released"},
                               seats : SUBSET Seats, qty : 0..MaxQty]]
      BY <1>2, <2>1 DEF Release, TypeInv
    <2>6. endedBy' \in [Holds -> Nat] /\ excused' \subseteq Holds
      BY <1>0, <1>2, <2>1 DEF Release, TypeInv, Runs
    <2>7. UNCHANGED <<page, going, stored, local, loads, visited, acts>>
      BY <1>2 DEF Release
    <2> QED
      BY <2>4, <2>5, <2>6, <2>7 DEF TypeInv, CallsOK, local, loads
  <1>3. CASE ReleaseReply(c)
    <2> DEFINE r == [call[c] EXCEPT !.step = "creating"]
    <2>1. r \in Runs /\ r.step = "creating"
      BY <1>0 DEF Runs, Steps
    <2>2. call' = [call EXCEPT ![c] = r]
      BY <1>0, <1>3 DEF ReleaseReply, To
    <2> HIDE DEF r
    <2>3. CallsOK
      BY <2>1, <2>2, <1>a
    <2>4. /\ stored' \in Token /\ active' \in Token /\ excused' \subseteq Holds
          /\ UNCHANGED <<page, going, sel, busy, error, fired, loads, hold, visited,
                         endedBy, acts, faults>>
      BY <1>3, Constants DEF ReleaseReply, AfterRelease, Overwritten, TypeInv, Token
    <2> QED
      BY <2>3, <2>4 DEF TypeInv, CallsOK, loads
  <1>4. CASE Create(c)
    <2>1. PICK step \in {"granted", "refused", "signed out"}, h \in Token :
             /\ \/ call' = Finished(c)
                \/ call' = [call EXCEPT ![c].step = step, ![c].new = h]
             /\ step = "granted" => h \in Holds
      BY <1>4, Constants DEF Create, Token
    <2> DEFINE r == [call[c] EXCEPT !.step = step, !.new = h]
    <2>2. r \in Runs /\ r.step = step /\ r.new = h
      BY <1>0 DEF Runs, Steps
    <2>3. call' = Finished(c) \/ call' = [call EXCEPT ![c] = r]
      BY <1>0, <2>1
    <2> HIDE DEF r
    <2>4. CallsOK
      BY <2>1, <2>2, <2>3, <1>a, <1>b
    <2>5. call[c].want \in Contents
      BY <1>0 DEF Runs
    <2>6. \/ hold' = hold
          \/ \E g \in Holds :
                hold' = [hold EXCEPT ![g] = [fate |-> "live",
                                             seats |-> call[c].want.seats,
                                             qty |-> call[c].want.qty]]
      BY <1>4 DEF Create
    <2>7. hold' \in [Holds -> [fate : {"unused", "live", "lapsed", "released"},
                               seats : SUBSET Seats, qty : 0..MaxQty]]
      <3>1. /\ call[c].want.seats \in SUBSET Seats
            /\ call[c].want.qty \in 0..MaxQty
        BY <2>5 DEF Contents
      <3> DEFINE new == [fate |-> "live", seats |-> call[c].want.seats,
                        qty |-> call[c].want.qty]
      <3>2. new \in [fate : {"unused", "live", "lapsed", "released"},
                   seats : SUBSET Seats, qty : 0..MaxQty]
        BY <3>1
      <3>3. hold' = hold \/ \E g \in Holds : hold' = [hold EXCEPT ![g] = new]
        BY <2>6
      <3> HIDE DEF new
      <3> QED
        BY <3>2, <3>3 DEF TypeInv
    <2>8. /\ excused' \subseteq Holds
          /\ UNCHANGED <<page, going, stored, local, loads, visited, endedBy, acts>>
      BY <1>4 DEF Create, TypeInv
    <2> QED
      BY <2>4, <2>7, <2>8 DEF TypeInv, CallsOK, local, loads
  <1>5. CASE CreateReply(c)
    <2>1. CallsOK
      BY <1>5, <1>b DEF CreateReply
    <2>2. call[c].step = "granted" => call[c].new \in Holds
      BY DEF TypeInv
    <2>3. stored' \in Token /\ excused' \subseteq Holds
      BY <1>0, <1>5, <2>2, Constants DEF CreateReply, Kept, Overwritten, TypeInv,
         Token
    <2>6. \/ going' = going \/ going' = [at |-> "elsewhere", url |-> None]
          \/ /\ going' = [at |-> "checkout", url |-> call[c].new]
             /\ call[c].new \in Holds
      BY <1>5, <2>2 DEF CreateReply
    <2>7. /\ going' = None \/ going' \in [at : Places, url : Token]
          /\ going' # None => (going'.at = "checkout" => going'.url \in Holds)
      BY <2>6, Constants DEF TypeInv, Places
    <2>4. sel' \in [mode : {"seats", "ga"}, seats : SUBSET Seats, qty : 0..MaxQty]
      BY <1>5 DEF CreateReply, TypeInv
    <2>5. /\ busy' \in BOOLEAN
          /\ UNCHANGED <<page, active, error, fired, shown, load, hold, visited,
                         endedBy, acts, faults>>
      BY <1>5 DEF CreateReply, StillBusy, TypeInv
    <2> QED
      BY <2>1, <2>3, <2>4, <2>5, <2>7 DEF TypeInv, CallsOK
  <1> QED
    BY <1>1, <1>2, <1>3, <1>4, <1>5 DEF Proceeding

(* A run of Pay keeps the types. *)
LEMMA PayTypes ==
    ASSUME TypeInv, NEW c \in Calls, Paying(c) PROVE TypeInv'
  <1>0. call \in [Calls -> Runs] /\ call[c] \in Runs
    BY DEF TypeInv
  <1>1. PICK r \in Runs :
           /\ call' = [call EXCEPT ![c] = r]
           /\ r.step \notin {"releasing", "released", "granted"}
    <2>1. CASE Confirm(c)
      <3>1. [NoCall EXCEPT !.step = "ordering", !.mount = page.mount,
                           !.old = active] \in Runs
        BY Constants DEF Runs, Steps, TypeInv
      <3>2. [NoCall EXCEPT !.step = "ordering", !.mount = page.mount,
                           !.old = active].step = "ordering"
        BY DEF NoCall
      <3> QED
        BY <2>1, <3>1, <3>2 DEF Confirm
    <2>2. CASE CreateOrder(c) \/ OrderReply(c) \/ WindowEnds(c)
      <3>1. PICK step \in {"ordered", "failed", "paying", "paid"} :
               call' = Finished(c) \/ call' = To(c, step)
        BY <2>2 DEF CreateOrder, OrderReply, WindowEnds
      <3>2. [call[c] EXCEPT !.step = step] \in Runs
        BY <1>0 DEF Runs, Steps
      <3>3. \/ call' = [call EXCEPT ![c] = NoCall]
            \/ call' = [call EXCEPT ![c] = [call[c] EXCEPT !.step = step]]
        BY <1>0, <3>1 DEF Finished, To
      <3>4. [call[c] EXCEPT !.step = step].step = step
        BY <1>0 DEF Runs
      <3> QED
        BY <3>2, <3>3, <3>4, Constants
    <2> QED
      BY <2>1, <2>2 DEF Paying
  <1>2. /\ busy' \in BOOLEAN
        /\ going' = going \/ going' = [at |-> "elsewhere", url |-> None]
        /\ UNCHANGED <<page, stored, active, sel, error, fired, loads, hold,
                       visited, excused, endedBy>>
    <2>1. CASE Confirm(c)
      BY <2>1 DEF Confirm
    <2>2. CASE CreateOrder(c)
      BY <2>2 DEF CreateOrder, TypeInv, local
    <2>3. CASE OrderReply(c)
      BY <2>3 DEF OrderReply, StillBusy, TypeInv, history
    <2>4. CASE WindowEnds(c)
      BY <2>4 DEF WindowEnds, ButtonAfterWindow, StillBusy, TypeInv, history
    <2> QED
      BY <2>1, <2>2, <2>3, <2>4 DEF Paying
  <1>3. /\ going' = None \/ going' \in [at : Places, url : Token]
        /\ going' # None => (going'.at = "checkout" => going'.url \in Holds)
    BY <1>2, Constants DEF TypeInv, Places
  <1>4. /\ call' \in [Calls -> Runs]
        /\ \A d \in Calls : /\ call'[d].step = "releasing" => call'[d].old \in Holds
                            /\ call'[d].step = "released" => call'[d].old \in Holds
                            /\ call'[d].step = "granted" => call'[d].new \in Holds
    BY <1>0, <1>1 DEF TypeInv
  <1> QED
    BY <1>2, <1>3, <1>4 DEF TypeInv, loads

(* The initial state has the types. *)
LEMMA InitTypes == Init => TypeInv
  <1> SUFFICES ASSUME Init PROVE TypeInv
    OBVIOUS
  <1>1. MaxQty \in Nat
    BY BuyerPageAssumption
  <1>2. hold \in [Holds -> [fate : {"unused", "live", "lapsed", "released"},
                            seats : SUBSET Seats, qty : 0..MaxQty]]
    BY <1>1 DEF Init
  <1>3. call \in [Calls -> Runs] /\ \A c \in Calls : call[c] = NoCall
    BY Constants DEF Init
  <1>4. /\ page \in [at : Places, url : Token, mount : Nat \ {0}]
        /\ page.at # "checkout"
    BY Constants DEF Init, Places
  <1> QED
    BY <1>2, <1>3, <1>4, Constants DEF Init, TypeInv

(* No step leaves the types. *)
LEMMA NextTypes == TypeInv /\ [Next]_vars => TypeInv'
  <1> SUFFICES ASSUME TypeInv, [Next]_vars PROVE TypeInv'
    OBVIOUS
  <1>1. ASSUME NEW h \in Holds, Lapse(h) PROVE TypeInv'
    BY <1>1 DEF Lapse, TypeInv, local, loads, history
  <1>2. CASE UNCHANGED vars
    BY <1>2 DEF vars, TypeInv, local, loads, history
  <1> QED
    BY <1>1, <1>2, NavigationTypes, ChoosingTypes, AnswerTypes, ExpiryTypes,
       ProceedTypes, PayTypes DEF Next

----------------------------------------------------------------------------
(* The button comes back with the reply of its run. *)

(* ButtonComesBack holds after every step. *)
LEMMA NextButton == TypeInv /\ ButtonComesBack /\ [Next]_vars => ButtonComesBack'
  <1> SUFFICES ASSUME TypeInv, ButtonComesBack, [Next]_vars PROVE ButtonComesBack'
    OBVIOUS
  <1>0. call \in [Calls -> Runs] /\ page.mount \in Nat \ {0}
    BY DEF TypeInv
  <1>a. ASSUME UNCHANGED <<busy, call>>, page'.mount = page.mount
        PROVE  ButtonComesBack'
    BY <1>a DEF ButtonComesBack, Mounted
  <1>b. ASSUME NEW at, NEW url, Show(at, url), UNCHANGED call PROVE ButtonComesBack'
    <2>1. CASE busy' = FALSE
      BY <2>1 DEF ButtonComesBack
    <2>2. CASE Readdress(url)
      <3>1. page'.mount = page.mount /\ busy' = busy
        BY <2>2, <1>0 DEF Readdress, local, TypeInv
      <3> QED
        BY <3>1, <1>a, <1>b
    <2> QED
      BY <1>b, <2>1, <2>2 DEF Show, Mount
  (* A run ends, and with it the wait of its page. *)
  <1>c. ASSUME NEW c \in Calls, call' = Finished(c), busy' = StillBusy(c),
               UNCHANGED page
        PROVE  ButtonComesBack'
    <2> SUFFICES ASSUME busy' PROVE \E d \in Calls : Mounted(d)'
      BY DEF ButtonComesBack
    <2>1. busy /\ ~Mounted(c)
      BY <1>c DEF StillBusy
    <2>2. PICK d \in Calls : Mounted(d)
      BY <2>1 DEF ButtonComesBack
    <2>3. d # c /\ call'[d] = call[d]
      BY <1>0, <1>c, <2>1, <2>2 DEF Finished
    <2> QED
      BY <1>c, <2>2, <2>3 DEF Mounted
  (* A run goes on, or one of no page ends. *)
  <1>d. ASSUME NEW c \in Calls, UNCHANGED <<busy, page>>,
               \A d \in Calls : call'[d].mount = call[d].mount \/ call[d].mount = 0
        PROVE  ButtonComesBack'
    BY <1>0, <1>d DEF ButtonComesBack, Mounted
  <1>1. CASE Arrive
    <2>1. CASE UNCHANGED <<page, local, loads>>
      BY <1>1, <1>a, <2>1 DEF Arrive, local
    <2>2. CASE Show(going.at, going.url)
      BY <1>1, <1>b, <2>2 DEF Arrive
    <2> QED
      BY <1>1, <2>1, <2>2 DEF Arrive
  <1>2. CASE BuyerGoes
    BY <1>2, <1>b DEF BuyerGoes
  <1>3. CASE Refresh
    <2>1. busy' = FALSE
      BY <1>3 DEF Refresh, Mount
    <2> QED
      BY <2>1 DEF ButtonComesBack
  <1>4. CASE Choosing \/ Answers \/ Expiry \/ \E h \in Holds : Lapse(h)
    BY <1>4, <1>a DEF Choosing, ToggleSeat, RemoveSeat, ChooseSeats, ChooseGA,
       ChangeQuantity, Selects, Answers, MapReply, HoldRead, RestoreReply, LoadReply,
       Expiry, SeatPageExpiry, CheckoutExpiry, Lapse, local
  <1>5. ASSUME NEW c \in Calls, Proceeding(c) \/ Paying(c) PROVE ButtonComesBack'
    <2>1. CASE ClickProceed(c)
      <3>1. CASE UNCHANGED <<busy, call>>
        BY <2>1, <3>1, <1>a DEF ClickProceed
      <3>2. CASE call' = [call EXCEPT ![c] =
                    [step |-> FirstRequest, mount |-> page.mount, old |-> active,
                     want |-> Wanted, new |-> None]]
        BY <2>1, <3>2, <1>0 DEF ClickProceed, ButtonComesBack, Mounted
      <3> QED
        BY <2>1, <3>1, <3>2 DEF ClickProceed
    <2>2. CASE Confirm(c)
      <3>1. call'[c].mount = page.mount /\ UNCHANGED page
        BY <2>2, <1>0 DEF Confirm, NoCall
      <3> QED
        BY <3>1 DEF ButtonComesBack, Mounted
    <2>3. CASE Release(c)
      BY <2>3, <1>0, <1>d DEF Release, Finished, To, local, Runs
    <2>4. CASE ReleaseReply(c)
      BY <2>4, <1>0, <1>d DEF ReleaseReply, To, Runs
    <2>5. CASE Create(c)
      <3>1. UNCHANGED <<busy, page>>
        BY <2>5 DEF Create, local
      <3>2. PICK step, h : \/ call[c].mount = 0 /\ call' = Finished(c)
                           \/ call' = [call EXCEPT ![c].step = step, ![c].new = h]
        BY <2>5 DEF Create
      <3> QED
        BY <3>1, <3>2, <1>0, <1>d DEF Finished, Runs
    <2>6. CASE CreateReply(c)
      BY <2>6, <1>c DEF CreateReply
    <2>7. CASE CreateOrder(c)
      BY <2>7, <1>0, <1>d DEF CreateOrder, Finished, To, local, Runs
    <2>8. CASE OrderReply(c)
      <3>1. CASE call' = Finished(c) /\ busy' = StillBusy(c)
        BY <2>8, <3>1, <1>c DEF OrderReply
      <3>2. CASE call' = To(c, "paying") /\ UNCHANGED busy
        BY <2>8, <3>2, <1>0, <1>d DEF OrderReply, To, Runs
      <3> QED
        BY <2>8, <3>1, <3>2 DEF OrderReply
    <2>9. CASE WindowEnds(c)
      <3>1. CASE call' = Finished(c) /\ busy' = StillBusy(c)
        BY <2>9, <3>1, <1>c DEF WindowEnds
      <3>2. CASE call' = To(c, "paid") /\ UNCHANGED busy
        BY <2>9, <3>2, <1>0, <1>d DEF WindowEnds, To, Runs
      <3> QED
        BY <2>9, <3>1, <3>2 DEF WindowEnds, ButtonAfterWindow
    <2> QED
      BY <1>5, <2>1, <2>2, <2>3, <2>4, <2>5, <2>6, <2>7, <2>8, <2>9
         DEF Proceeding, Paying
  <1>6. CASE UNCHANGED vars
    BY <1>6, <1>a DEF vars, local
  <1> QED
    BY <1>1, <1>2, <1>3, <1>4, <1>5, <1>6 DEF Next

(* With any number of runs, pages and failures: no button stays disabled   *)
(* unless a run of its page is under way or has been paid.                 *)
THEOREM ButtonBack == Spec => []ButtonComesBack
  <1>1. Init => ButtonComesBack
    BY DEF Init, ButtonComesBack
  <1> QED
    BY InitTypes, NextTypes, NextButton, <1>1, PTL DEF Spec

----------------------------------------------------------------------------
(* Every token the tab has was granted, and what is gone stays gone. *)

(* The tokens the tab has anywhere. *)
InTab ==
    ({stored, active, page.url, load.token} \cup visited
        \cup (IF going = None THEN {} ELSE {going.url})
        \cup {call[c].old : c \in Calls} \cup {call[c].new : c \in Calls}) \ {None}

TokensInv == \A h \in InTab : hold[h].fate # "unused"

(* A hold once granted stays so, and is not live again once it has ended. *)
LEMMA FatesAreFinal ==
    ASSUME TypeInv, [Next]_vars, NEW h \in Holds, hold[h].fate # "unused"
    PROVE  hold'[h].fate # "unused" /\ (Live(h)' => Live(h))
  <1>0. h # None
    BY Constants
  <1>1. CASE hold' = hold
    BY <1>1 DEF Live
  <1>2. ASSUME NEW g \in Holds, Lapse(g)
        PROVE  hold'[h].fate # "unused" /\ (Live(h)' => Live(h))
    BY <1>0, <1>2 DEF Lapse, Live, TypeInv
  <1>3. ASSUME NEW c \in Calls, Release(c)
        PROVE  hold'[h].fate # "unused" /\ (Live(h)' => Live(h))
    BY <1>0, <1>3 DEF Release, Live, TypeInv
  <1>4. ASSUME NEW c \in Calls, Create(c)
        PROVE  hold'[h].fate # "unused" /\ (Live(h)' => Live(h))
    <2>1. \/ hold' = hold
          \/ \E g \in Holds : \E r : Fresh(g) /\ hold' = [hold EXCEPT ![g] = r]
      BY <1>4 DEF Create
    <2>2. hold'[h] = hold[h]
      BY <2>1 DEF Fresh, TypeInv
    <2> QED
      BY <1>0, <2>2 DEF Live
  <1>5. \/ hold' = hold \/ \E g \in Holds : Lapse(g)
        \/ \E c \in Calls : Release(c) \/ Create(c)
    BY DEF Next, Arrive, BuyerGoes, Refresh, Choosing, ToggleSeat, RemoveSeat,
       ChooseSeats, ChooseGA, ChangeQuantity, Selects, Answers, MapReply, HoldRead,
       RestoreReply, LoadReply, Expiry, SeatPageExpiry, CheckoutExpiry, Proceeding,
       ClickProceed, ReleaseReply, CreateReply, Paying, Confirm, CreateOrder,
       OrderReply, WindowEnds, vars
  <1> QED
    BY <1>1, <1>2, <1>3, <1>4, <1>5

(* No step brings a token into the tab other than one just granted. *)
LEMMA TokensComeFromGrants ==
    ASSUME TypeInv, [Next]_vars
    PROVE  \A h \in InTab' : h \in Holds /\ (h \in InTab \/ hold'[h].fate # "unused")
  <1>0. /\ call \in [Calls -> Runs] /\ InTab \subseteq Holds /\ InTab' \subseteq Holds
    <2>1. TypeInv'
      BY NextTypes
    <2>2. InTab \subseteq Holds
      BY DEF InTab, TypeInv, Runs, Token
    <2>3. InTab' \subseteq Holds
      BY <2>1 DEF InTab, TypeInv, Runs, Token
    <2> QED
      BY <2>2, <2>3 DEF TypeInv
  <1> SUFFICES \A h \in InTab' : h \in InTab \/ hold'[h].fate # "unused"
    BY <1>0
  (* The runs have the tokens they had. *)
  <1> DEFINE SameRuns ==
        \A c \in Calls : /\ call'[c].old \in {call[c].old, None}
                         /\ call'[c].new \in {call[c].new, None}
  <1>a. ASSUME SameRuns, stored' \in InTab \cup {None}, active' \in InTab \cup {None},
               page'.url \in InTab \cup {None}, load'.token \in InTab \cup {None},
               visited' \subseteq InTab,
               going' # None => going'.url \in InTab \cup {None}
        PROVE  InTab' \subseteq InTab
    BY <1>a DEF InTab
  <1>b. /\ stored \in InTab \cup {None} /\ active \in InTab \cup {None}
        /\ page.url \in InTab \cup {None} /\ load.token \in InTab \cup {None}
        /\ visited \ {None} \subseteq InTab
        /\ going # None => going.url \in InTab \cup {None}
        /\ \A c \in Calls : /\ call[c].old \in InTab \cup {None}
                            /\ call[c].new \in InTab \cup {None}
    BY DEF InTab
  <1>c. visited \subseteq InTab
    BY <1>b, Constants DEF TypeInv
  <1>d. call' = call => SameRuns
    OBVIOUS
  <1>e. ASSUME NEW c \in Calls, NEW r, r.old \in {call[c].old, None},
               r.new \in {call[c].new, None}, call' = [call EXCEPT ![c] = r]
        PROVE  SameRuns
    BY <1>0, <1>e
  <1>f. \A c \in Calls : call' = Finished(c) => SameRuns
    BY <1>0, Constants DEF Finished
  <1>g. \A c \in Calls, step \in Steps : call' = To(c, step) => SameRuns
    BY <1>0 DEF To, Runs
  <1> HIDE DEF SameRuns
  <1>h. ASSUME NEW at, NEW url \in InTab \cup {None},
               Show(at, url) \/ Mount(at, url, page.mount + 1)
        PROVE  /\ active' \in InTab \cup {None} /\ page'.url \in InTab \cup {None}
               /\ load'.token \in InTab \cup {None} /\ going' = None
    <2>1. CASE Mount(at, url, page.mount + 1)
      BY <1>b, <2>1, Constants DEF Mount
    <2>2. CASE Readdress(url)
      <3>1. page'.url = url
        BY <2>2 DEF Readdress, TypeInv
      <3> QED
        BY <1>b, <2>2, <3>1 DEF Readdress, local
    <2> QED
      BY <1>h, <2>1, <2>2 DEF Show
  <1>1. CASE Arrive
    <2>1. /\ going # None /\ visited' = visited \cup ({going.url} \ {None})
          /\ UNCHANGED <<stored, call>>
      BY <1>1 DEF Arrive
    <2>2. visited' \subseteq InTab
      BY <1>b, <1>c, <2>1
    <2>3. CASE Show(going.at, going.url)
      BY <1>a, <1>b, <1>d, <1>h, <2>1, <2>2, <2>3
    <2>4. CASE going' = None /\ UNCHANGED <<page, local, loads>>
      BY <1>a, <1>b, <1>d, <2>1, <2>2, <2>4 DEF local, loads
    <2> QED
      BY <1>1, <2>3, <2>4 DEF Arrive
  <1>2. CASE BuyerGoes
    <2>1. \/ Show("map", None) \/ Show("elsewhere", None)
          \/ \E h \in visited : Show("checkout", h)
      BY <1>2 DEF BuyerGoes
    <2>2. UNCHANGED <<stored, call, visited>>
      BY <1>2 DEF BuyerGoes
    <2>3. /\ active' \in InTab \cup {None} /\ page'.url \in InTab \cup {None}
          /\ load'.token \in InTab \cup {None} /\ going' = None
      BY <1>c, <1>h, <2>1
    <2> QED
      BY <1>a, <1>b, <1>c, <1>d, <2>2, <2>3
  <1>3. CASE Refresh
    <2>1. Mount(page.at, page.url, page.mount + 1) /\ UNCHANGED <<stored, visited>>
      BY <1>3 DEF Refresh
    <2>2. call' = [c \in Calls |->
                     IF call[c].step \in {"releasing", "creating", "ordering"}
                       THEN [call[c] EXCEPT !.mount = 0] ELSE NoCall]
      BY <1>3 DEF Refresh
    <2>3. SameRuns
      BY <1>0, <2>2, Constants DEF SameRuns, Runs
    <2> QED
      BY <1>a, <1>b, <1>c, <1>h, <2>1, <2>3
  <1>4. CASE Choosing
    <2>1. UNCHANGED <<page, going, stored, active, loads, call, visited>>
      BY <1>4 DEF Choosing, ToggleSeat, RemoveSeat, ChooseSeats, ChooseGA,
         ChangeQuantity, Selects
    <2> QED
      BY <1>a, <1>b, <1>c, <1>d, <2>1 DEF loads
  <1>5. CASE MapReply
    BY <1>a, <1>b, <1>c, <1>d, <1>5 DEF MapReply, local
  <1>6. CASE HoldRead
    <2>1. load'.token = load.token
      BY <1>6 DEF HoldRead, TypeInv
    <2> QED
      BY <1>a, <1>b, <1>c, <1>d, <1>6, <2>1 DEF HoldRead, local
  <1>7. CASE RestoreReply
    BY <1>a, <1>b, <1>c, <1>d, <1>7, Constants DEF RestoreReply
  <1>8. CASE LoadReply
    BY <1>a, <1>b, <1>c, <1>d, <1>8, Constants DEF LoadReply
  <1>9. CASE Expiry
    <2>1. /\ stored' = None /\ active' \in {active, None}
          /\ UNCHANGED <<page, going, load, call, visited>>
      BY <1>9 DEF Expiry, SeatPageExpiry, CheckoutExpiry, loads
    <2> QED
      BY <1>a, <1>b, <1>c, <1>d, <2>1
  <1>10. ASSUME NEW c \in Calls, Proceeding(c)
         PROVE  \A h \in InTab' : h \in InTab \/ hold'[h].fate # "unused"
    <2>1. CASE ClickProceed(c)
      <3>1. /\ UNCHANGED <<page, stored, active, load, visited>>
            /\ \A d \in Calls : /\ call'[d].old \in {call[d].old, active}
                                /\ call'[d].new \in {call[d].new, None}
            /\ \/ going' = going
               \/ going'.url \in {active, None}
        BY <1>0, <2>1 DEF ClickProceed, loads
      <3> QED
        BY <1>b, <3>1 DEF InTab
    <2>2. CASE Release(c)
      BY <1>a, <1>b, <1>c, <1>f, <1>g, <2>2 DEF Release, local, loads, Steps
    <2>3. CASE ReleaseReply(c)
      <3>1. /\ active' \in {active, None} /\ SameRuns /\ stored' = None
            /\ UNCHANGED <<page, going, load, visited>>
        BY <1>g, <2>3 DEF ReleaseReply, AfterRelease, loads, Steps
      <3> QED
        BY <1>a, <1>b, <1>c, <3>1
    <2>4. CASE Create(c)
      <3>1. UNCHANGED <<page, going, stored, active, load, visited>>
        BY <2>4 DEF Create, local, loads
      <3>2. CASE \E g \in Holds :
                    /\ hold'[g].fate # "unused"
                    /\ \/ call' = Finished(c)
                       \/ call' = [call EXCEPT ![c].step = "granted", ![c].new = g]
        <4>1. PICK g \in Holds :
                 /\ hold'[g].fate # "unused"
                 /\ \A d \in Calls : /\ call'[d].old \in {call[d].old, None}
                                     /\ call'[d].new \in {call[d].new, None, g}
          BY <1>0, <3>2, Constants DEF Finished, Runs
        <4> QED
          BY <1>b, <3>1, <4>1 DEF InTab
      <3>3. CASE \E step : \/ call' = Finished(c)
                           \/ call' = [call EXCEPT ![c].step = step, ![c].new = None]
        <4>1. SameRuns
          BY <1>0, <3>3, Constants DEF Finished, Runs, SameRuns
        <4> QED
          BY <1>a, <1>b, <1>c, <3>1, <4>1
      <3>4. \A g \in Holds :
               hold' = [hold EXCEPT ![g] = [fate |-> "live",
                                            seats |-> call[c].want.seats,
                                            qty |-> call[c].want.qty]]
                 => hold'[g].fate # "unused"
        BY DEF TypeInv
      <3> QED
        BY <2>4, <3>2, <3>3, <3>4 DEF Create
    <2>5. CASE CreateReply(c)
      <3>1. SameRuns
        BY <1>f, <2>5 DEF CreateReply
      <3>2. /\ stored' \in {stored, call[c].new}
            /\ going' = going \/ going'.url \in {call[c].new, None}
        <4>1. \/ /\ stored' = call[c].new
                 /\ going' = [at |-> "checkout", url |-> call[c].new]
              \/ stored' = stored /\ going' = [at |-> "elsewhere", url |-> None]
              \/ stored' = stored /\ going' = going
          BY <2>5 DEF CreateReply, Kept
        <4> QED
          BY <4>1
      <3>3. UNCHANGED <<page, active, load, visited>>
        BY <2>5 DEF CreateReply
      <3> QED
        BY <1>a, <1>b, <1>c, <3>1, <3>2, <3>3
    <2> QED
      BY <1>10, <2>1, <2>2, <2>3, <2>4, <2>5 DEF Proceeding
  <1>11. ASSUME NEW c \in Calls, Paying(c) PROVE InTab' \subseteq InTab
    <2>1. CASE Confirm(c)
      <3>1. /\ UNCHANGED <<page, going, stored, active, load, visited>>
            /\ \A d \in Calls : /\ call'[d].old \in {call[d].old, active}
                                /\ call'[d].new \in {call[d].new, None}
        BY <1>0, <2>1 DEF Confirm, loads, NoCall
      <3> QED
        BY <1>b, <3>1 DEF InTab
    <2>2. CASE CreateOrder(c) \/ OrderReply(c) \/ WindowEnds(c)
      <3>1. SameRuns
        BY <1>f, <1>g, <2>2 DEF CreateOrder, OrderReply, WindowEnds, Steps
      <3>2. going' = going \/ going'.url = None
        BY <2>2 DEF CreateOrder, OrderReply, WindowEnds
      <3>3. UNCHANGED <<page, stored, active, load, visited>>
        BY <2>2 DEF CreateOrder, OrderReply, WindowEnds, local, loads
      <3> QED
        BY <1>a, <1>b, <1>c, <3>1, <3>2, <3>3
    <2> QED
      BY <1>11, <2>1, <2>2 DEF Paying
  <1>12. ASSUME NEW h \in Holds, Lapse(h) PROVE InTab' \subseteq InTab
    BY <1>a, <1>b, <1>c, <1>d, <1>12 DEF Lapse, local, loads
  <1>13. CASE UNCHANGED vars
    BY <1>a, <1>b, <1>c, <1>d, <1>13 DEF vars, local, loads
  <1> QED
    BY <1>0, <1>1, <1>2, <1>3, <1>4, <1>5, <1>6, <1>7, <1>8, <1>9, <1>10, <1>11,
       <1>12, <1>13 DEF Next, Answers

(* TokensInv holds after every step. *)
LEMMA NextTokens == TypeInv /\ TokensInv /\ [Next]_vars => TokensInv'
  <1> SUFFICES ASSUME TypeInv, TokensInv, [Next]_vars, NEW h \in InTab'
               PROVE  hold'[h].fate # "unused"
    BY DEF TokensInv
  <1>1. h \in Holds /\ (h \in InTab \/ hold'[h].fate # "unused")
    BY TokensComeFromGrants
  <1> QED
    BY <1>1, FatesAreFinal DEF TokensInv

(* TokensInv holds at first. *)
LEMMA InitTokens == Init => TokensInv
  BY Constants DEF Init, TokensInv, InTab

----------------------------------------------------------------------------
(* The hold a page has is held. *)

Releasing(c) == call[c].step \in {"releasing", "released"}

(* Runs and releases belong to mounts so far; those of the mount shown     *)
(* come from the map, after its hold was restored, and the page still has  *)
(* a hold it released only while that release is being answered.           *)
HoldInv ==
    /\ \A c \in Calls : call[c].mount <= page.mount
    /\ \A h \in Holds : endedBy[h] <= page.mount
    /\ OnMap /\ active # None => load.step = "none"
    /\ \A c \in Calls : Mounted(c) /\ Releasing(c) => OnMap /\ load.step = "none"
    /\ \A h \in Holds : endedBy[h] = page.mount => OnMap /\ load.step = "none"
    /\ \A h \in Holds : active = h /\ endedBy[h] = page.mount =>
          \E c \in Calls : /\ Mounted(c) /\ call[c].step = "released"
                           /\ call[c].old = h

(* HoldInv holds after every step. *)
LEMMA NextHold == TypeInv /\ HoldInv /\ [Next]_vars => HoldInv'
  <1> SUFFICES ASSUME TypeInv, HoldInv, [Next]_vars PROVE HoldInv'
    OBVIOUS
  <1>0. /\ call \in [Calls -> Runs] /\ page.mount \in Nat \ {0}
        /\ endedBy \in [Holds -> Nat]
        /\ \A c \in Calls : call[c].mount \in Nat
    BY DEF TypeInv, Runs
  <1> USE DEF OnMap, Mounted, Releasing
  (* A step within a page that leaves the runs alone. *)
  <1>a. ASSUME UNCHANGED <<call, endedBy>>, page'.mount = page.mount,
               page'.at = page.at,
               \/ active' \in {active, None} /\ load' = load
               \/ active' \in {active, None} /\ load'.step = "none"
               \/ ~OnMap
               \/ active' = active /\ load.step # "none"
               \/ load.step # "none" /\ load'.step = "none"
        PROVE  HoldInv'
    BY <1>a, Constants DEF HoldInv
  (* A new mount. *)
  <1>b. ASSUME NEW at, NEW url, Mount(at, url, page.mount + 1), UNCHANGED endedBy,
               \A c \in Calls : call'[c].mount \in {call[c].mount, 0}
        PROVE  HoldInv'
    <2>1. page'.mount = page.mount + 1 /\ active' = None
      BY <1>b DEF Mount
    <2>2. \A c \in Calls : call'[c].mount <= page.mount
      BY <1>0, <1>b DEF HoldInv
    <2>3. \A h \in Holds : endedBy'[h] <= page.mount
      BY <1>0, <1>b DEF HoldInv
    <2>4. \A c \in Calls : call'[c].mount \in Nat
      BY <1>0, <1>b
    <2>5. \A m \in Nat : m <= page.mount => m <= page'.mount /\ m # page'.mount
      BY <1>0, <2>1
    <2>6. \A h \in Holds : endedBy'[h] \in Nat
      BY <1>0, <1>b
    <2> QED
      BY <2>1, <2>2, <2>3, <2>4, <2>5, <2>6, Constants DEF HoldInv
  <1>c. ASSUME NEW at, NEW url, Show(at, url), UNCHANGED <<call, endedBy>>
        PROVE  HoldInv'
    <2>1. CASE Mount(at, url, page.mount + 1)
      BY <1>b, <1>c, <2>1
    <2>2. CASE Readdress(url) /\ page.at = "checkout"
      <3>1. page'.mount = page.mount /\ page'.at = page.at
        BY <2>2 DEF Readdress, TypeInv
      <3>2. ~OnMap
        BY <2>2
      <3> QED
        BY <1>a, <1>c, <3>1, <3>2
    <2> QED
      BY <1>c, <2>1, <2>2 DEF Show, OnCheckout
  (* A step of a run that leaves the rest alone and is not about a release.  *)
  <1>d. ASSUME NEW c \in Calls, UNCHANGED <<page, load, endedBy, active>>,
               \A d \in Calls : d # c => call'[d] = call[d],
               call[c].step # "released",
               \/ call'[c].mount \in {call[c].mount, 0} /\ ~Releasing(c)'
               \/ call'[c].mount = page.mount /\ OnMap
                  /\ (Releasing(c)' => active # None)
               \/ call'[c].mount = page.mount /\ ~Releasing(c)'
        PROVE  HoldInv'
    BY <1>0, <1>d DEF HoldInv
  <1>1. CASE Arrive
    <2>0. UNCHANGED <<call, endedBy>>
      BY <1>1 DEF Arrive, history
    <2>1. CASE UNCHANGED <<page, local, loads>>
      <3>1. UNCHANGED <<page, active, load>>
        BY <2>1 DEF local, loads
      <3> QED
        BY <1>a, <2>0, <3>1
    <2>2. CASE Show(going.at, going.url)
      BY <1>c, <2>0, <2>2
    <2> QED
      BY <1>1, <2>1, <2>2 DEF Arrive
  <1>2. CASE BuyerGoes
    BY <1>2, <1>c DEF BuyerGoes
  <1>3. CASE Refresh
    <2>1. call' = [c \in Calls |->
                     IF call[c].step \in {"releasing", "creating", "ordering"}
                       THEN [call[c] EXCEPT !.mount = 0] ELSE NoCall]
      BY <1>3 DEF Refresh
    <2>2. \A c \in Calls : call'[c].mount \in {call[c].mount, 0}
      BY <1>0, <2>1, Constants DEF Runs
    <2> QED
      BY <1>3, <1>b, <2>2 DEF Refresh
  <1>4. CASE Choosing \/ MapReply \/ \E h \in Holds : Lapse(h)
    BY <1>4, <1>a DEF Choosing, ToggleSeat, RemoveSeat, ChooseSeats, ChooseGA,
       ChangeQuantity, Selects, MapReply, Lapse, local, loads, history
  <1>5. CASE HoldRead
    BY <1>5, <1>a DEF HoldRead, local
  <1>6. CASE RestoreReply
    BY <1>6, <1>a, Constants DEF RestoreReply
  <1>7. CASE LoadReply
    <2>1. ~OnMap /\ UNCHANGED <<page, call, endedBy>>
      BY <1>7 DEF LoadReply, OnCheckout, history
    <2> QED
      BY <1>a, <2>1
  <1>8. CASE Expiry
    BY <1>8, <1>a DEF Expiry, SeatPageExpiry, CheckoutExpiry, loads
  <1>9. ASSUME NEW c \in Calls, Proceeding(c) PROVE HoldInv'
    <2>1. CASE ClickProceed(c)
      <3>1. CASE call' = call
        BY <2>1, <3>1, <1>a DEF ClickProceed, loads
      <3>2. CASE call' = [call EXCEPT ![c] =
                    [step |-> FirstRequest, mount |-> page.mount, old |-> active,
                     want |-> Wanted, new |-> None]]
        <4>1. /\ call'[c].mount = page.mount
              /\ Releasing(c)' => active # None
              /\ \A d \in Calls : d # c => call'[d] = call[d]
          BY <1>0, <3>2 DEF FirstRequest
        <4>2. OnMap /\ call[c] = NoCall
          BY <2>1 DEF ClickProceed, Ready
        <4>3. UNCHANGED <<page, load, endedBy, active>>
          BY <2>1 DEF ClickProceed, loads
        <4>4. call[c].step # "released"
          BY <4>2 DEF NoCall
        <4> QED
          BY <1>d, <4>1, <4>2, <4>3, <4>4
      <3> QED
        BY <2>1, <3>1, <3>2 DEF ClickProceed
    <2>2. CASE Release(c)
      <3>1. /\ call[c].step = "releasing" /\ UNCHANGED <<page, load, active>>
            /\ call[c].old \in Holds
            /\ \/ endedBy' = endedBy
               \/ endedBy' = [endedBy EXCEPT ![call[c].old] = call[c].mount]
        BY <2>2 DEF Release, local, loads, TypeInv
      <3>2. CASE call[c].mount = 0
        <4>1. /\ call' = Finished(c)
              /\ \A h \in Holds : endedBy'[h] \in {endedBy[h], 0}
          BY <1>0, <2>2, <3>1, <3>2 DEF Release
        <4> QED
          BY <1>0, <3>1, <3>2, <4>1, Constants DEF HoldInv, Finished
      <3>3. CASE call[c].mount # 0
        <4>1. /\ \A d \in Calls : /\ call'[d].mount = call[d].mount
                                  /\ call'[d].old = call[d].old
                                  /\ d # c => call'[d].step = call[d].step
              /\ call'[c].step = "released"
          BY <1>0, <2>2, <3>3 DEF Release, To, Runs
        <4>2. \A h \in Holds : \/ endedBy'[h] = endedBy[h]
                               \/ h = call[c].old /\ endedBy'[h] = call[c].mount
          BY <1>0, <3>1
        <4> QED
          BY <1>0, <3>1, <4>1, <4>2 DEF HoldInv
      <3> QED
        BY <3>2, <3>3
    <2>3. CASE ReleaseReply(c)
      <3>1. /\ call[c].step = "released" /\ UNCHANGED <<page, load, endedBy>>
            /\ active' = IF Mounted(c) THEN None ELSE active
        BY <2>3 DEF ReleaseReply, AfterRelease, loads
      <3>2. /\ \A d \in Calls : /\ call'[d].mount = call[d].mount
                                /\ call'[d].old = call[d].old
                                /\ d # c => call'[d].step = call[d].step
            /\ call'[c].step = "creating"
        BY <1>0, <2>3 DEF ReleaseReply, To, Runs
      <3> QED
        BY <1>0, <3>1, <3>2, Constants DEF HoldInv
    <2>4. CASE Create(c)
      <3>1. UNCHANGED <<page, load, endedBy, active>> /\ call[c].step = "creating"
        BY <2>4 DEF Create, local, loads
      <3>2. PICK step \in {"granted", "refused", "signed out"} : \E h :
               \/ call' = Finished(c)
               \/ call' = [call EXCEPT ![c].step = step, ![c].new = h]
        BY <2>4 DEF Create
      <3>3. PICK f \in Runs : call' = [call EXCEPT ![c] = f] /\ f.mount \in {call[c].mount, 0}
                              /\ f.step \notin {"releasing", "released"}
        <4>1. TypeInv'
          BY NextTypes
        <4>2. call'[c] \in Runs /\ call' = [call EXCEPT ![c] = call'[c]]
          BY <1>0, <3>2, <4>1 DEF Finished, TypeInv
        <4>3. CASE call' = Finished(c)
          BY <1>0, <4>2, <4>3, Constants DEF Finished
        <4>4. ASSUME NEW h, call' = [call EXCEPT ![c].step = step, ![c].new = h]
              PROVE  \E f \in Runs : /\ call' = [call EXCEPT ![c] = f]
                                     /\ f.mount \in {call[c].mount, 0}
                                     /\ f.step \notin {"releasing", "released"}
          <5>1. call'[c].step = step /\ call'[c].mount = call[c].mount
            BY <1>0, <4>4 DEF Runs
          <5> QED
            BY <4>2, <5>1
        <4> QED
          BY <3>2, <4>3, <4>4
      <3>4. /\ call'[c].mount \in {call[c].mount, 0} /\ ~Releasing(c)'
            /\ \A d \in Calls : d # c => call'[d] = call[d]
        BY <1>0, <3>3
      <3> QED
        BY <1>d, <3>1, <3>4
    <2>5. CASE CreateReply(c)
      <3>1. /\ UNCHANGED <<page, load, endedBy, active>>
            /\ call[c].step # "released" /\ call' = Finished(c)
        BY <2>5 DEF CreateReply
      <3> QED
        BY <1>0, <1>d, <3>1, Constants DEF Finished
    <2> QED
      BY <1>9, <2>1, <2>2, <2>3, <2>4, <2>5 DEF Proceeding
  <1>10. ASSUME NEW c \in Calls, Paying(c) PROVE HoldInv'
    <2>1. /\ UNCHANGED <<page, load, endedBy, active>> /\ call[c].step # "released"
      BY <1>10, Constants DEF Paying, Confirm, CreateOrder, OrderReply, WindowEnds,
         Ready, local, loads, history
    <2>2. CASE Confirm(c)
      <3>1. /\ call'[c].mount = page.mount /\ ~Releasing(c)'
            /\ \A d \in Calls : d # c => call'[d] = call[d]
        BY <1>0, <2>2 DEF Confirm, NoCall
      <3> QED
        BY <1>d, <2>1, <3>1
    <2>3. CASE CreateOrder(c) \/ OrderReply(c) \/ WindowEnds(c)
      <3>1. PICK step \in {"ordered", "failed", "paying", "paid"} :
               call' = Finished(c) \/ call' = To(c, step)
        BY <2>3 DEF CreateOrder, OrderReply, WindowEnds
      <3>2. /\ call'[c].mount \in {call[c].mount, 0} /\ ~Releasing(c)'
            /\ \A d \in Calls : d # c => call'[d] = call[d]
        BY <1>0, <3>1, Constants DEF Finished, To, Runs
      <3> QED
        BY <1>d, <2>1, <3>2
    <2> QED
      BY <1>10, <2>2, <2>3 DEF Paying
  <1>11. CASE UNCHANGED vars
    BY <1>11, <1>a DEF vars, local, loads, history
  <1> QED
    BY <1>1, <1>2, <1>3, <1>4, <1>5, <1>6, <1>7, <1>8, <1>9, <1>10, <1>11
       DEF Next, Answers

(* HoldInv holds at first. *)
LEMMA InitHold == Init => HoldInv
  BY Constants DEF Init, HoldInv, Mounted, Releasing

(* With any number of runs, pages and failures: the hold a page has is the *)
(* buyer's, or its end is on its way to the page or was another page's.    *)
THEOREM ShownIsHeld == Spec => []ShownHoldIsHeld
  <1>1. TypeInv /\ TokensInv /\ HoldInv => ShownHoldIsHeld
    <2> SUFFICES ASSUME TypeInv, TokensInv, HoldInv, active # None,
                        endedBy[active] = page.mount,
                        hold[active].fate \notin {"live", "lapsed"}
                 PROVE  \E c \in Calls : /\ Mounted(c) /\ call[c].step = "released"
                                         /\ call[c].old = active
      BY DEF ShownHoldIsHeld
    <2>1. active \in Holds
      BY DEF TypeInv, Token
    <2> QED
      BY <2>1 DEF HoldInv
  <1> QED
    BY InitTypes, NextTypes, InitTokens, NextTokens, InitHold, NextHold, <1>1, PTL
       DEF Spec

----------------------------------------------------------------------------
(* No live hold is forgotten without a cause. *)

Following == {"released", "creating", "granted"}

(* A run has a new hold only while it brings it to the page, and by then   *)
(* the hold it replaces is over, or its release was lost.                  *)
RunInv(c) ==
    /\ call[c].new # None => call[c].step = "granted"
    /\ call[c].step \in Following /\ call[c].old # None =>
          ~Live(call[c].old) \/ call[c].old \in excused

(* A hold that was reported gone is. *)
GoneInv == load.step = "gone" => ~Live(load.token)

RunsInv == (\A c \in Calls : RunInv(c)) /\ GoneInv

(* The tab does not stop having been made to forget a hold. *)
LEMMA ExcusesStay == ASSUME [Next]_vars PROVE excused \subseteq excused'
  BY DEF Next, Arrive, BuyerGoes, Refresh, Choosing, ToggleSeat, RemoveSeat,
     ChooseSeats, ChooseGA, ChangeQuantity, Selects, Answers, MapReply, HoldRead,
     RestoreReply, LoadReply, Expiry, SeatPageExpiry, CheckoutExpiry, Proceeding,
     ClickProceed, Release, ReleaseReply, Create, CreateReply, Paying, Confirm,
     CreateOrder, OrderReply, WindowEnds, Lapse, vars, history

(* RunsInv holds after every step. *)
LEMMA NextRuns == TypeInv /\ TokensInv /\ RunsInv /\ [Next]_vars => RunsInv'
  <1> SUFFICES ASSUME TypeInv, TokensInv, RunsInv, [Next]_vars PROVE RunsInv'
    OBVIOUS
  <1>0. /\ call \in [Calls -> Runs] /\ excused \subseteq excused'
        /\ \A c \in Calls : call'[c] \in Runs
    BY ExcusesStay, NextTypes DEF TypeInv
  <1>1. \A h \in InTab : ~Live(h) => ~Live(h)'
    <2> TAKE h \in InTab
    <2>1. h \in Holds /\ hold[h].fate # "unused"
      BY DEF InTab, TypeInv, Runs, Token, TokensInv
    <2> QED
      BY <2>1, FatesAreFinal DEF Live
  <1>2. ASSUME NEW c \in Calls, call'[c].step \in {call[c].step} \cup Following,
               call[c].step \in Following \/ call'[c].step = call[c].step,
               call'[c].old = call[c].old,
               call'[c].new # None => call'[c].step = "granted"
        PROVE  RunInv(c)'
    <2>1. call[c].old # None => call[c].old \in InTab
      BY DEF InTab
    <2> QED
      BY <1>0, <1>1, <1>2, <2>1 DEF RunsInv, RunInv, Following
  <1>3. ASSUME NEW c \in Calls, call'[c].new = None, call'[c].step \notin Following
        PROVE  RunInv(c)'
    BY <1>3 DEF RunInv
  <1>4. \A c \in Calls : call'[c] = call[c] => RunInv(c)'
    BY <1>2 DEF RunsInv, RunInv
  <1>5. \A c \in Calls : call'[c] = NoCall => RunInv(c)'
    BY <1>3 DEF NoCall, Following
  <1>6. ASSUME load' = load \/ load'.step # "gone" PROVE GoneInv'
    <2>1. load.token # None => load.token \in InTab
      BY DEF InTab
    <2> QED
      BY <1>1, <1>6, <2>1 DEF GoneInv, RunsInv, Live
  (* Only one run takes a step. *)
  <1>7. ASSUME NEW c \in Calls, \A d \in Calls : d # c => call'[d] = call[d],
               RunInv(c)', load' = load
        PROVE  RunsInv'
    BY <1>4, <1>6, <1>7 DEF RunsInv
  <1>8. ASSUME NEW at, NEW url, Show(at, url) \/ Mount(at, url, page.mount + 1)
        PROVE  load'.step # "gone"
    BY <1>8 DEF Show, Mount, Readdress, NoLoad
  <1>9. CASE Arrive
    <2>1. load' = load \/ load'.step # "gone"
      BY <1>8, <1>9 DEF Arrive, loads
    <2> QED
      BY <1>4, <1>6, <1>9, <2>1 DEF Arrive, RunsInv
  <1>10. CASE BuyerGoes
    <2>1. load'.step # "gone"
      BY <1>8, <1>10 DEF BuyerGoes
    <2> QED
      BY <1>4, <1>6, <1>10, <2>1 DEF BuyerGoes, RunsInv
  <1>11. CASE Refresh
    <2>1. load'.step # "gone"
      BY <1>8, <1>11 DEF Refresh
    <2>2. ASSUME NEW c \in Calls PROVE RunInv(c)'
      <3>1. \/ call'[c] = NoCall
            \/ call'[c] = [call[c] EXCEPT !.mount = 0]
        BY <1>11 DEF Refresh
      <3>2. CASE call'[c] = [call[c] EXCEPT !.mount = 0]
        <4>1. /\ call'[c].step = call[c].step /\ call'[c].old = call[c].old
              /\ call'[c].new = call[c].new
          BY <1>0, <3>2 DEF Runs
        <4> QED
          BY <1>2, <4>1 DEF RunsInv, RunInv
      <3> QED
        BY <1>5, <3>1, <3>2
    <2> QED
      BY <1>6, <2>1, <2>2 DEF RunsInv
  <1>12. CASE HoldRead
    <2>1. load'.token = load.token /\ UNCHANGED <<call, hold>>
      BY <1>12 DEF HoldRead, TypeInv
    <2>2. GoneInv'
      <3>1. CASE load' = [load EXCEPT !.step = IF Live(load.token) THEN "found"
                                               ELSE "gone"]
        BY <2>1, <3>1 DEF GoneInv, Live, TypeInv
      <3>2. CASE load' = [load EXCEPT !.step = "failed"]
        BY <3>2 DEF GoneInv, TypeInv
      <3> QED
        BY <1>12, <3>1, <3>2 DEF HoldRead
    <2> QED
      BY <1>4, <2>1, <2>2 DEF RunsInv
  <1>13. CASE Choosing \/ MapReply \/ Expiry \/ \E h \in Holds : Lapse(h)
    <2>1. UNCHANGED <<call, load>>
      BY <1>13 DEF Choosing, ToggleSeat, RemoveSeat, ChooseSeats, ChooseGA,
         ChangeQuantity, Selects, MapReply, Expiry, SeatPageExpiry, CheckoutExpiry,
         Lapse, loads
    <2> QED
      BY <1>4, <1>6, <2>1 DEF RunsInv
  <1>14. CASE RestoreReply \/ LoadReply
    <2>1. load' = NoLoad /\ UNCHANGED call
      BY <1>14 DEF RestoreReply, LoadReply
    <2>2. load'.step # "gone"
      BY <2>1 DEF NoLoad
    <2> QED
      BY <1>4, <1>6, <2>1, <2>2 DEF RunsInv
  <1>15. ASSUME NEW c \in Calls, Proceeding(c) \/ Paying(c) PROVE RunsInv'
    <2>1. load' = load
      BY <1>15 DEF Proceeding, ClickProceed, Release, ReleaseReply, Create,
         CreateReply, Paying, Confirm, CreateOrder, OrderReply, WindowEnds, loads
    <2>f. CASE call' = Finished(c)
      <3>1. call'[c] = NoCall /\ \A d \in Calls : d # c => call'[d] = call[d]
        BY <1>0, <2>f DEF Finished
      <3> QED
        BY <1>5, <1>7, <2>1, <3>1
    <2>t. ASSUME NEW step, call' = To(c, step)
          PROVE  /\ call'[c].step = step /\ call'[c].old = call[c].old
                 /\ call'[c].new = call[c].new
                 /\ \A d \in Calls : d # c => call'[d] = call[d]
      BY <1>0, <2>t DEF To, Runs
    <2>2. CASE ClickProceed(c)
      <3>1. CASE call' = call
        BY <1>4, <1>6, <2>1, <3>1 DEF RunsInv
      <3>2. CASE call' = [call EXCEPT ![c] =
                    [step |-> FirstRequest, mount |-> page.mount, old |-> active,
                     want |-> Wanted, new |-> None]]
        <4>1. /\ call'[c].new = None /\ call'[c].old = active
              /\ call'[c].step = FirstRequest
              /\ \A d \in Calls : d # c => call'[d] = call[d]
          BY <1>0, <3>2
        <4>2. RunInv(c)'
          BY <4>1 DEF RunInv, FirstRequest, Following
        <4> QED
          BY <1>7, <2>1, <4>1, <4>2
      <3> QED
        BY <2>2, <3>1, <3>2 DEF ClickProceed
    <2>3. CASE Release(c)
      <3>1. CASE call' = To(c, "released")
        <4>1. call[c].step = "releasing" /\ call[c].new = None /\ call[c].old \in Token
          BY <1>0, <2>3 DEF Release, RunsInv, RunInv, Runs
        <4>2. call[c].old # None =>
                 hold'[call[c].old].fate # "live" \/ call[c].old \in excused'
          <5>1. CASE hold' = [hold EXCEPT ![call[c].old].fate =
                                 IF @ = "live" THEN "released" ELSE @]
            BY <4>1, <5>1 DEF Token, TypeInv
          <5>2. CASE excused' = excused \cup {call[c].old}
            BY <5>2
          <5> QED
            BY <2>3, <5>1, <5>2 DEF Release
        <4>3. /\ call'[c].new = None /\ call'[c].old = call[c].old
              /\ call'[c].step = "released"
              /\ \A d \in Calls : d # c => call'[d] = call[d]
          BY <2>t, <3>1, <4>1
        <4>4. RunInv(c)'
          BY <4>2, <4>3 DEF RunInv, Live
        <4> QED
          BY <1>7, <2>1, <4>3, <4>4
      <3> QED
        BY <2>3, <2>f, <3>1 DEF Release
    <2>4. CASE ReleaseReply(c)
      <3>1. call' = To(c, "creating") /\ call[c].step = "released"
        BY <2>4 DEF ReleaseReply
      <3>2. call[c].new = None
        BY <3>1 DEF RunsInv, RunInv
      <3>3. /\ call'[c].new = None /\ call'[c].old = call[c].old
            /\ call'[c].step = "creating"
            /\ \A d \in Calls : d # c => call'[d] = call[d]
        BY <2>t, <3>1, <3>2
      <3> QED
        BY <1>2, <1>7, <2>1, <3>1, <3>3 DEF Following
    <2>5. CASE Create(c)
      <3>1. call[c].step = "creating"
        BY <2>5 DEF Create
      <3>2. ASSUME NEW h, NEW step \in Steps,
                   call' = [call EXCEPT ![c].step = step, ![c].new = h],
                   h # None => step = "granted",
                   step = "granted" \/ step \notin Following
            PROVE  RunsInv'
        <4>1. /\ call'[c].new = h /\ call'[c].old = call[c].old
              /\ call'[c].step = step
              /\ \A d \in Calls : d # c => call'[d] = call[d]
          BY <1>0, <3>2 DEF Runs
        <4>2. CASE step = "granted"
          BY <1>2, <1>7, <2>1, <3>1, <4>1, <4>2 DEF Following
        <4>3. CASE step \notin Following
          BY <1>3, <1>7, <2>1, <3>2, <4>1, <4>3 DEF Following
        <4> QED
          BY <3>2, <4>2, <4>3
      <3>3. \/ call' = Finished(c)
            \/ \E h \in Holds :
                  call' = [call EXCEPT ![c].step = "granted", ![c].new = h]
            \/ call' = [call EXCEPT ![c].step = "refused", ![c].new = None]
            \/ call' = [call EXCEPT ![c].step = "signed out", ![c].new = None]
        BY <2>5 DEF Create
      <3> QED
        BY <2>f, <3>2, <3>3 DEF Steps, Following
    <2>6. CASE CreateReply(c)
      BY <2>6, <2>f DEF CreateReply
    <2>7. CASE Confirm(c)
      <3>1. /\ call'[c].new = None /\ call'[c].step = "ordering"
            /\ \A d \in Calls : d # c => call'[d] = call[d]
        BY <1>0, <2>7 DEF Confirm, NoCall
      <3> QED
        BY <1>3, <1>7, <2>1, <3>1 DEF Following
    <2>8. CASE CreateOrder(c) \/ OrderReply(c) \/ WindowEnds(c)
      <3>1. /\ call[c].step \notin Following
            /\ \/ call' = Finished(c)
               \/ \E step \in {"ordered", "failed", "paying", "paid"} :
                     call' = To(c, step)
        BY <2>8 DEF CreateOrder, OrderReply, WindowEnds, Following
      <3>2. ASSUME NEW step \in {"ordered", "failed", "paying", "paid"},
                   call' = To(c, step)
            PROVE  RunsInv'
        <4>1. call[c].new = None
          BY <3>1 DEF RunsInv, RunInv, Following
        <4>2. /\ call'[c].new = None /\ call'[c].step = step
              /\ \A d \in Calls : d # c => call'[d] = call[d]
          BY <2>t, <3>2, <4>1
        <4> QED
          BY <1>3, <1>7, <2>1, <3>2, <4>2 DEF Following
      <3> QED
        BY <2>f, <3>1, <3>2
    <2> QED
      BY <1>15, <2>2, <2>3, <2>4, <2>5, <2>6, <2>7, <2>8 DEF Proceeding, Paying
  <1>16. CASE UNCHANGED vars
    BY <1>4, <1>6, <1>16 DEF vars, loads, RunsInv
  <1> QED
    BY <1>9, <1>10, <1>11, <1>12, <1>13, <1>14, <1>15, <1>16 DEF Next, Answers

(* ForgottenHoldHasACause holds after every step. *)
LEMMA NextForgotten ==
    TypeInv /\ TokensInv /\ RunsInv /\ ForgottenHoldHasACause /\ [Next]_vars
        => ForgottenHoldHasACause'
  <1> SUFFICES ASSUME TypeInv, RunsInv, ForgottenHoldHasACause, [Next]_vars
               PROVE  ForgottenHoldHasACause'
    OBVIOUS
  <1>0. /\ call \in [Calls -> Runs] /\ excused \subseteq excused'
        /\ \A c \in Calls : call'[c] \in Runs
    BY ExcusesStay, NextTypes DEF TypeInv
  <1> DEFINE Lost(h) == ~Live(h) \/ h \in excused'
             NewKept == \A c \in Calls : call[c].new # None /\ call[c].mount # 0 =>
                           /\ call'[c].new = call[c].new
                           /\ call'[c].mount = call[c].mount
  <1>1. ASSUME hold' = hold \/ \A h \in Holds : Live(h)' => Live(h),
               stored' = stored \/ stored = None \/ Lost(stored), NewKept
        PROVE  ForgottenHoldHasACause'
    BY <1>0, <1>1 DEF ForgottenHoldHasACause, Known, Live
  <1>2. call' = call => NewKept
    OBVIOUS
  <1>3. ASSUME NEW c \in Calls, \A d \in Calls : d # c => call'[d] = call[d],
               call[c].step # "granted"
        PROVE  NewKept
    BY <1>3 DEF RunsInv, RunInv
  <1>4. \A meant : stored \in Overwritten(meant) \/ stored \in meant \/ stored = None
    BY DEF Overwritten
  <1> HIDE DEF NewKept
  <1>5. CASE Arrive \/ BuyerGoes \/ Choosing \/ MapReply \/ HoldRead \/ LoadReply
    BY <1>1, <1>2, <1>5 DEF Arrive, BuyerGoes, Choosing, ToggleSeat, RemoveSeat,
       ChooseSeats, ChooseGA, ChangeQuantity, Selects, MapReply, HoldRead, LoadReply
  <1>6. CASE Refresh
    <2>1. UNCHANGED <<stored, hold>>
      BY <1>6 DEF Refresh
    <2>2. \A c \in Calls : call[c].new # None => call[c].new \in excused'
      BY <1>6 DEF Refresh
    <2> QED
      BY <1>0, <2>1, <2>2, Constants DEF ForgottenHoldHasACause, Known, Live
  <1>7. CASE RestoreReply
    <2>1. stored' = stored \/ stored = None \/ Lost(stored)
      BY <1>4, <1>7 DEF RestoreReply, RunsInv, GoneInv
    <2> QED
      BY <1>1, <1>2, <1>7, <2>1 DEF RestoreReply
  <1>8. CASE Expiry
    <2>1. stored = None \/ Lost(stored)
      BY <1>4, <1>8 DEF Expiry, SeatPageExpiry, CheckoutExpiry, Passed
    <2>2. UNCHANGED <<call, hold>>
      BY <1>8 DEF Expiry, SeatPageExpiry, CheckoutExpiry
    <2> QED
      BY <1>1, <1>2, <2>1, <2>2
  <1>9. ASSUME NEW h \in Holds, Lapse(h) PROVE ForgottenHoldHasACause'
    <2>1. \A g \in Holds : Live(g)' => Live(g)
      BY <1>9 DEF Lapse, Live, TypeInv
    <2> QED
      BY <1>1, <1>2, <1>9, <2>1 DEF Lapse
  <1>10. ASSUME NEW c \in Calls, Proceeding(c) \/ Paying(c)
         PROVE  ForgottenHoldHasACause'
    <2>f. ASSUME call' = Finished(c) \/ \E step : call' = To(c, step)
          PROVE  \A d \in Calls : d # c => call'[d] = call[d]
      BY <1>0, <2>f DEF Finished, To
    <2>1. CASE ClickProceed(c) \/ Confirm(c)
      <3>1. UNCHANGED <<stored, hold>>
        BY <2>1 DEF ClickProceed, Confirm
      <3>2. call[c].step # "granted" /\ \A d \in Calls : d # c => call'[d] = call[d]
        BY <1>0, <2>1 DEF ClickProceed, Confirm, Ready, NoCall
      <3> QED
        BY <1>1, <1>3, <3>1, <3>2
    <2>2. CASE CreateOrder(c) \/ OrderReply(c) \/ WindowEnds(c)
      <3>1. /\ UNCHANGED <<stored, hold>> /\ call[c].step # "granted"
            /\ call' = Finished(c) \/ \E step : call' = To(c, step)
        BY <2>2 DEF CreateOrder, OrderReply, WindowEnds
      <3> QED
        BY <1>1, <1>3, <2>f, <3>1
    <2>3. CASE Release(c)
      <3>1. /\ UNCHANGED stored /\ call[c].step # "granted"
            /\ call' = Finished(c) \/ \E step : call' = To(c, step)
        BY <2>3 DEF Release
      <3>2. \A h \in Holds : Live(h)' => Live(h)
        <4>1. CASE hold' = [hold EXCEPT ![call[c].old].fate =
                               IF @ = "live" THEN "released" ELSE @]
          BY <4>1 DEF Live, TypeInv
        <4> QED
          BY <2>3, <4>1 DEF Release, Live
      <3> QED
        BY <1>1, <1>3, <2>f, <3>1, <3>2
    <2>4. CASE ReleaseReply(c)
      <3>1. /\ UNCHANGED hold /\ call[c].step = "released" /\ call' = To(c, "creating")
            /\ excused' = excused \cup Overwritten({call[c].old})
        BY <2>4 DEF ReleaseReply
      <3>2. stored = None \/ Lost(stored)
        BY <1>0, <1>4, <3>1 DEF RunsInv, RunInv, Following
      <3>3. NewKept
        BY <1>3, <2>f, <3>1
      <3> QED
        BY <1>1, <3>1, <3>2, <3>3
    <2>5. CASE Create(c)
      <3>1. UNCHANGED stored /\ call[c].step = "creating"
        BY <2>5 DEF Create
      <3>2. ASSUME NEW h, NEW step,
                   call' = [call EXCEPT ![c].step = step, ![c].new = h]
            PROVE  /\ call'[c].new = h /\ call'[c].mount = call[c].mount
                   /\ \A d \in Calls : d # c => call'[d] = call[d]
        BY <1>0, <3>2 DEF Runs
      <3>3. NewKept
        BY <1>3, <2>5, <2>f, <3>1, <3>2 DEF Create
      <3>4. CASE hold' = hold
        BY <1>1, <3>1, <3>3, <3>4
      <3>5. CASE \E h \in Holds :
                    /\ \E r : hold' = [hold EXCEPT ![h] = r]
                    /\ \/ h \in excused'
                       \/ /\ call[c].mount # 0
                          /\ call' = [call EXCEPT ![c].step = "granted", ![c].new = h]
        <4>1. PICK h \in Holds :
                 /\ \E r : hold' = [hold EXCEPT ![h] = r]
                 /\ \/ h \in excused'
                    \/ /\ call[c].mount # 0
                       /\ call' = [call EXCEPT ![c].step = "granted", ![c].new = h]
          BY <3>5
        <4>2. \A g \in Holds : g # h => hold'[g] = hold[g]
          BY <4>1 DEF TypeInv
        <4>3. h \in excused' \/ Known(h)'
          BY <3>2, <4>1 DEF Known
        <4> QED
          BY <1>0, <3>1, <3>3, <4>2, <4>3 DEF ForgottenHoldHasACause, Known, Live,
             NewKept
      <3> QED
        BY <2>5, <3>4, <3>5 DEF Create
    <2>6. CASE CreateReply(c)
      <3>1. UNCHANGED hold /\ call' = Finished(c)
        BY <2>6 DEF CreateReply
      <3>2. \A d \in Calls : d # c => call'[d] = call[d]
        BY <2>f, <3>1
      <3>3. CASE call[c].step # "granted"
        BY <1>1, <1>3, <2>6, <3>1, <3>2, <3>3 DEF CreateReply
      <3>4. CASE call[c].step = "granted"
        <4>1. /\ stored' = call[c].new
              /\ excused' = excused \cup Overwritten({call[c].old})
          BY <2>6, <3>4 DEF CreateReply, Kept
        <4>2. stored = None \/ Lost(stored)
          BY <1>0, <1>4, <3>4, <4>1 DEF RunsInv, RunInv, Following
        <4> QED
          BY <1>0, <3>1, <3>2, <4>1, <4>2 DEF ForgottenHoldHasACause, Known, Live
      <3> QED
        BY <3>3, <3>4
    <2> QED
      BY <1>10, <2>1, <2>2, <2>3, <2>4, <2>5, <2>6 DEF Proceeding, Paying
  <1>11. CASE UNCHANGED vars
    BY <1>1, <1>2, <1>11 DEF vars
  <1> QED
    BY <1>5, <1>6, <1>7, <1>8, <1>9, <1>10, <1>11 DEF Next, Answers

(* With any number of runs, pages and failures: the tab knows every hold   *)
(* that locks tickets, or something the model names made it lose track.    *)
THEOREM ForgottenHasACause == Spec => []ForgottenHoldHasACause
  <1>1. Init => RunsInv /\ ForgottenHoldHasACause
    BY Constants DEF Init, RunsInv, RunInv, GoneInv, NoCall, NoLoad, Following,
       ForgottenHoldHasACause, Live
  <1> QED
    BY InitTypes, NextTypes, InitTokens, NextTokens, NextRuns, NextForgotten, <1>1, PTL
       DEF Spec
=============================================================================
