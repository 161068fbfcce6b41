------------------------------- MODULE Orders -------------------------------
(***************************************************************************)
(* Paying for an order and issuing its ticket: backend/internal/payment,   *)
(* the part of backend/internal/ticket that issues tickets, and the        *)
(* administrator's status override.                                        *)
(*                                                                         *)
(* Midtrans reports the state of a payment with notifications that it      *)
(* repeats until one is answered 200, so they arrive late, repeated and    *)
(* out of order.  Three handlers insert a ticket "if missing": the webhook *)
(* (one statement, whose snapshot is older than its insert), the buyer's   *)
(* CompletePayment (a transaction that locks the order's row), and the     *)
(* ticket vault's RequestTicketOTP (look, then insert).  A Postgres        *)
(* statement takes effect when it commits; an insert into tickets takes    *)
(* only a key-share lock on the order, which an UPDATE does not conflict   *)
(* with.                                                                   *)
(***************************************************************************)
EXTENDS Naturals, FiniteSets

CONSTANTS
    Orders,      \* orders that buyers place
    Workers,     \* requests the server handles at the same time
    Operations,  \* which of AllOperations are called
    FaultKinds,  \* which of AllFaults the environment produces
    MaxFaults,   \* bound: faults in one behaviour
    None         \* no order, no worker, no notification

AllOperations == {"webhook", "complete", "otp", "admin"}
AllFaults == {"call", "issue", "crash"}
Notices == {"pending", "challenge", "paid", "failed"}
Statuses == {"pending", "paid", "failed", "refunded"}

ASSUME OrdersAssumption ==
    /\ None \notin Orders \cup Workers \cup Notices \cup Statuses
    /\ Operations \subseteq AllOperations
    /\ FaultKinds \subseteq AllFaults
    /\ MaxFaults \in Nat

VARIABLES
    status,      \* orders.status, None before the row exists
    tickets,     \* number of tickets rows of each order
    rowLock,     \* the transaction that holds the order's row
    gateway,     \* the payment as Midtrans knows it
    inbox,       \* notifications not yet answered 200
    pc,          \* per worker: where its request is
    ord,         \* the order it is about
    note,        \* the notification it handles
    missing,     \* it found no ticket of the order, or failed to look
    raced,       \* orders two of whose issuers overlapped, at least one of
                 \* them not CompletePayment (history)
    blind,       \* orders for which a ticket was asked although the lookup
                 \* of their ticket failed (history)
    dropped,     \* orders whose INSERT failed in the webhook (history)
    issuedBy,    \* which handlers issued tickets of each order (history)
    overridden,  \* orders whose status was written after the payment ended,
                 \* by anything but its last notification (history)
    faults       \* faults so far

database == <<status, tickets, rowLock>>
midtrans == <<gateway, inbox>>
requests == <<pc, ord, note, missing>>
history == <<raced, blind, dropped, issuedBy, overridden>>
vars == <<database, midtrans, requests, history, faults>>

Steps == {"idle", "update", "snapshot", "insert", "answer",
          "lock", "count", "commit", "look", "mint"}

Placed(o) == status[o] # None
Closed(o) == gateway[o] \in {"paid", "ended"}
Go(w, step) == pc' = [pc EXCEPT ![w] = step]

Rest(w) ==
    /\ Go(w, "idle")
    /\ ord' = [ord EXCEPT ![w] = None]
    /\ note' = [note EXCEPT ![w] = None]
    /\ missing' = [missing EXCEPT ![w] = FALSE]

Begin(w, kind, o, n, step) ==
    /\ kind \in Operations
    /\ pc[w] = "idle"
    /\ Placed(o)
    /\ Go(w, step)
    /\ ord' = [ord EXCEPT ![w] = o]
    /\ note' = [note EXCEPT ![w] = n]
    /\ UNCHANGED <<database, midtrans, missing, history, faults>>

Fault(kind) ==
    /\ kind \in FaultKinds
    /\ faults < MaxFaults
    /\ faults' = faults + 1

----------------------------------------------------------------------------
(* CreateMidtransTransaction inserts the order before it asks Midtrans for *)
(* the payment page; when Midtrans refuses, the pending order stays.       *)

PlaceOrder(o) ==
    /\ ~Placed(o)
    /\ status' = [status EXCEPT ![o] = "pending"]
    /\ gateway' = [gateway EXCEPT ![o] = "open"]
    /\ UNCHANGED <<tickets, rowLock, inbox, requests, history, faults>>

PlaceOrderRefused(o) ==
    /\ ~Placed(o)
    /\ status' = [status EXCEPT ![o] = "pending"]
    /\ UNCHANGED <<tickets, rowLock, midtrans, requests, history, faults>>

(* What Midtrans does with the payment, and what it reports: a method was  *)
(* chosen, a card was challenged, the payment was captured or settled, it  *)
(* was cancelled, denied or expired.                                       *)
Report(o, state, n) ==
    /\ gateway' = [gateway EXCEPT ![o] = state]
    /\ inbox' = inbox \cup {<<o, n>>}
    /\ UNCHANGED <<database, requests, history, faults>>

Payment(o) ==
    \/ /\ gateway[o] = "open"
       /\ \/ Report(o, "chosen", "pending")
          \/ Report(o, "challenged", "challenge")
    \/ /\ gateway[o] \in {"open", "chosen", "challenged"}
       /\ \/ Report(o, "paid", "paid")
          \/ Report(o, "ended", "failed")

----------------------------------------------------------------------------
(* HandleMidtransWebhook. *)

Deliver(w, o, n) ==
    /\ <<o, n>> \in inbox
    /\ Begin(w, "webhook", o, n, "update")

\* Mistake: a capture that fraud detection challenged counts as paid.
StatusOfChallenged(n) ==
    CASE n \in {"paid", "challenge"} -> "paid"
      [] n = "failed" -> "failed"
      [] OTHER -> "pending"

StatusOf(n) ==
    CASE n = "paid" -> "paid"
      [] n = "failed" -> "failed"
      [] OTHER -> "pending"

(* A notification other than the one that closed the payment, when it has. *)
Stale(o, n) ==
    \/ gateway[o] = "paid" /\ n # "paid"
    \/ gateway[o] = "ended" /\ n # "failed"

(* The UPDATE commits on its own; it waits for a transaction on the row.   *)
UpdateOrderStatus(w) ==
    LET o == ord[w]
        n == note[w]
    IN  /\ pc[w] = "update"
        /\ rowLock[o] = None
        /\ status' = [status EXCEPT ![o] = StatusOf(n)]
        /\ overridden' = IF Stale(o, n) THEN overridden \cup {o} ELSE overridden
        /\ Go(w, IF StatusOf(n) = "paid" THEN "snapshot" ELSE "answer")
        /\ UNCHANGED <<tickets, rowLock, midtrans, ord, note, missing, raced, blind,
                       dropped, issuedBy, faults>>

(* A worker that found no ticket of order o, and has not inserted one yet. *)
Issuing(w, o) == ord[w] = o /\ pc[w] \in {"insert", "commit", "mint"} /\ missing[w]

(* Two calls of CompletePayment lock the order's row and so take turns.    *)
InTurn(u, w) == pc[u] = "commit" /\ pc[w] = "count"

(* What worker w learns about the order's tickets, and goes on to do.      *)
FindMissing(w, ifMissing, ifThere) ==
    LET o == ord[w]
        none == tickets[o] = 0
    IN  /\ missing' = [missing EXCEPT ![w] = none]
        /\ raced' = IF none /\ \E u \in Workers : Issuing(u, o) /\ ~InTurn(u, w)
                      THEN raced \cup {o} ELSE raced
        /\ Go(w, IF none THEN ifMissing ELSE ifThere)
        /\ UNCHANGED <<database, midtrans, ord, note, blind, dropped, issuedBy,
                       overridden, faults>>

AddTicket(o, kind) ==
    /\ tickets' = [tickets EXCEPT ![o] = @ + 1]
    /\ issuedBy' = [issuedBy EXCEPT ![o] = @ \cup {kind}]

(* INSERT ... WHERE NOT EXISTS: its snapshot, then its commit.             *)
TakeSnapshot(w) == pc[w] = "snapshot" /\ FindMissing(w, "insert", "answer")

InsertTicket(w) ==
    /\ pc[w] = "insert"
    /\ AddTicket(ord[w], "webhook")
    /\ Go(w, "answer")
    /\ UNCHANGED <<status, rowLock, midtrans, ord, note, missing, raced, blind,
                   dropped, overridden, faults>>

(* The error of that INSERT is dropped: the notification is answered 200.  *)
InsertFails(w) ==
    /\ Fault("issue")
    /\ pc[w] \in {"snapshot", "insert"}
    /\ dropped' = dropped \cup {ord[w]}
    /\ Go(w, "answer")
    /\ UNCHANGED <<database, midtrans, ord, note, missing, raced, blind,
                   issuedBy, overridden>>

Answer(w) ==
    /\ pc[w] = "answer"
    /\ inbox' = inbox \ {<<ord[w], note[w]>>}
    /\ Rest(w)
    /\ UNCHANGED <<database, gateway, history, faults>>

----------------------------------------------------------------------------
(* CompletePayment, in one transaction: UPDATE orders, which locks the row,*)
(* COUNT the tickets, insert one if there is none, commit.                 *)

StartComplete(w, o) == Begin(w, "complete", o, None, "lock")

\* Mistake: the order's row is not locked.
LockOrderNot(w) ==
    /\ pc[w] = "lock"
    /\ Go(w, "count")
    /\ UNCHANGED <<database, midtrans, ord, note, missing, history, faults>>

LockOrder(w) ==
    /\ pc[w] = "lock"
    /\ rowLock[ord[w]] = None
    /\ rowLock' = [rowLock EXCEPT ![ord[w]] = w]
    /\ Go(w, "count")
    /\ UNCHANGED <<status, tickets, midtrans, ord, note, missing, history, faults>>

CountTickets(w) == pc[w] = "count" /\ FindMissing(w, "commit", "commit")

CommitTicket(w) ==
    LET o == ord[w]
    IN  /\ pc[w] = "commit"
        /\ status' = [status EXCEPT ![o] = "paid"]
        /\ rowLock' = [rowLock EXCEPT ![o] = None]
        /\ \/ missing[w] /\ AddTicket(o, "complete")
           \/ ~missing[w] /\ UNCHANGED <<tickets, issuedBy>>
        /\ overridden' = IF gateway[o] = "paid" THEN overridden
                                                ELSE overridden \cup {o}
        /\ Rest(w)
        /\ UNCHANGED <<midtrans, raced, blind, dropped, faults>>

----------------------------------------------------------------------------
(* RequestTicketOTP with an order id: look for a ticket, and insert one    *)
(* for any order that has none, whatever its status.                       *)

StartOTP(w, o) == Begin(w, "otp", o, None, "look")

LookForTicket(w) == pc[w] = "look" /\ FindMissing(w, "mint", "answer")

(* Any error of the lookup is taken for "no ticket": the request goes on   *)
(* and inserts one for the order, whose INSERT has no NOT EXISTS.          *)
LookupFails(w) ==
    /\ Fault("call")
    /\ pc[w] = "look"
    /\ missing' = [missing EXCEPT ![w] = TRUE]
    /\ blind' = blind \cup {ord[w]}
    /\ Go(w, "mint")
    /\ UNCHANGED <<database, midtrans, ord, note, raced, dropped, issuedBy,
                   overridden>>

MintTicket(w) ==
    /\ pc[w] = "mint"
    /\ AddTicket(ord[w], "otp")
    /\ Rest(w)
    /\ UNCHANGED <<status, rowLock, midtrans, raced, blind, dropped, overridden,
                   faults>>

----------------------------------------------------------------------------
(* The administrator sets the status and issues nothing.                   *)
UpdateTransactionStatus(o, s) ==
    /\ "admin" \in Operations
    /\ Placed(o)
    /\ rowLock[o] = None
    /\ status' = [status EXCEPT ![o] = s]
    /\ overridden' = overridden \cup {o}
    /\ UNCHANGED <<tickets, rowLock, midtrans, requests, raced, blind, dropped,
                   issuedBy, faults>>

----------------------------------------------------------------------------
(* Faults.  Either way the transaction is rolled back, its lock is gone,   *)
(* and a notification stays unanswered.                                    *)

Unlocked(w) == [o \in Orders |-> IF rowLock[o] = w THEN None ELSE rowLock[o]]

\* Mistake: a failed UPDATE is logged and answered 200.
CallFailsAnswered(w) ==
    /\ Fault("call")
    /\ pc[w] = "update"
    /\ Go(w, "answer")
    /\ UNCHANGED <<database, midtrans, ord, note, missing, history>>

(* A statement fails: the webhook answers 500, CompletePayment an error.   *)
(* RequestTicketOTP drops the error of its EXISTS and of its INSERT, and   *)
(* goes on without a ticket.                                               *)
CallFails(w) ==
    /\ Fault("call")
    /\ pc[w] \in {"update", "lock", "count", "commit", "mint"}
    /\ rowLock' = Unlocked(w)
    /\ Rest(w)
    /\ UNCHANGED <<status, tickets, midtrans, history>>

(* The server dies with the request, or its answer is lost.                *)
Crash(w) ==
    /\ Fault("crash")
    /\ pc[w] # "idle"
    /\ rowLock' = Unlocked(w)
    /\ Rest(w)
    /\ UNCHANGED <<status, tickets, midtrans, history>>

----------------------------------------------------------------------------
Init ==
    /\ status = [o \in Orders |-> None]
    /\ tickets = [o \in Orders |-> 0]
    /\ rowLock = [o \in Orders |-> None]
    /\ gateway = [o \in Orders |-> "none"]
    /\ inbox = {}
    /\ pc = [w \in Workers |-> "idle"]
    /\ ord = [w \in Workers |-> None]
    /\ note = [w \in Workers |-> None]
    /\ missing = [w \in Workers |-> FALSE]
    /\ raced = {}
    /\ blind = {}
    /\ dropped = {}
    /\ issuedBy = [o \in Orders |-> {}]
    /\ overridden = {}
    /\ faults = 0

(* What a request does next when nothing fails. *)
Advance(w) ==
    \/ UpdateOrderStatus(w) \/ TakeSnapshot(w) \/ InsertTicket(w) \/ Answer(w)
    \/ LockOrder(w) \/ CountTickets(w) \/ CommitTicket(w)
    \/ LookForTicket(w) \/ MintTicket(w)

Next ==
    \/ \E o \in Orders :
          \/ PlaceOrder(o) \/ PlaceOrderRefused(o) \/ Payment(o)
          \/ \E w \in Workers : \/ \E n \in Notices : Deliver(w, o, n)
                                \/ StartComplete(w, o) \/ StartOTP(w, o)
          \/ \E s \in {"paid", "refunded", "pending"} : UpdateTransactionStatus(o, s)
    \/ \E w \in Workers : \/ Advance(w) \/ InsertFails(w) \/ LookupFails(w)
                         \/ CallFails(w) \/ Crash(w)

Spec == Init /\ [][Next]_vars

(* A request goes on, and Midtrans repeats a notification until it is      *)
(* answered.  Strong fairness of the delivery: a request that is repeated  *)
(* is accepted in the end, the bound on Workers is not the server's.       *)
Fairness ==
    /\ \A w \in Workers : WF_vars(Advance(w))
    /\ \A o \in Orders, n \in Notices : SF_vars(\E w \in Workers : Deliver(w, o, n))

FairSpec == Spec /\ Fairness

----------------------------------------------------------------------------
(* Properties. *)

(* Every variable stays in its type; a row lock is held by a request that  *)
(* works on that order, inside its transaction.                            *)
TypeOK ==
    /\ status \in [Orders -> Statuses \cup {None}]
    /\ tickets \in [Orders -> Nat]
    /\ rowLock \in [Orders -> Workers \cup {None}]
    /\ gateway \in [Orders -> {"none", "open", "chosen", "challenged", "paid", "ended"}]
    /\ inbox \subseteq Orders \X Notices
    /\ pc \in [Workers -> Steps]
    /\ ord \in [Workers -> Orders \cup {None}]
    /\ note \in [Workers -> Notices \cup {None}]
    /\ missing \in [Workers -> BOOLEAN]
    /\ raced \subseteq Orders /\ blind \subseteq Orders
    /\ dropped \subseteq Orders /\ overridden \subseteq Orders
    /\ issuedBy \in [Orders -> SUBSET AllOperations]
    /\ faults \in Nat
    /\ \A w \in Workers :
          /\ pc[w] # "idle" => ord[w] \in Orders
          /\ pc[w] = "update" => note[w] \in Notices
          /\ pc[w] \in {"count", "commit"} => rowLock[ord[w]] = w

(* An order gets a second ticket ("Auto-generate ticket for paid order if  *)
(* missing") for two causes only: two handlers that issue tickets          *)
(* overlapped, one of them the webhook or RequestTicketOTP, or             *)
(* RequestTicketOTP went on after its lookup failed.  Repeated             *)
(* notifications, retries after a crash or after any other failure, and    *)
(* any number of concurrent CompletePayment calls never do it.             *)
OneTicketUnlessRaced ==
    \A o \in Orders : tickets[o] > 1 => o \in raced \cup blind

(* The webhook issues a ticket only for a payment that Midtrans captured or*)
(* settled, whatever the order of the notifications.                       *)
WebhookIssuesPaid ==
    \A o \in Orders : "webhook" \in issuedBy[o] => gateway[o] = "paid"

(* Once the last notification of a payment has been answered, the order's  *)
(* status is what it says, unless a stale notification, the administrator  *)
(* or CompletePayment wrote it too: an update that failed is never         *)
(* acknowledged.                                                           *)
StatusFollowsPayment ==
    \A o \in Orders \ overridden :
        /\ gateway[o] = "paid" /\ <<o, "paid">> \notin inbox => status[o] = "paid"
        /\ gateway[o] = "ended" /\ <<o, "failed">> \notin inbox => status[o] = "failed"

(* A buyer who paid gets a ticket, through crashes, failed updates and     *)
(* repeated notifications, unless the one INSERT whose error is dropped    *)
(* failed.                                                                 *)
PaidGetsTicket ==
    \A o \in Orders : gateway[o] = "paid" ~> tickets[o] > 0 \/ o \in dropped
=============================================================================
