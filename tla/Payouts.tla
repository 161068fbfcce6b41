------------------------------ MODULE Payouts ------------------------------
(***************************************************************************)
(* Paying an organizer for the sales of one event: CreatePayoutRequest and *)
(* UpdatePayoutDetails of backend/internal/organizer (the organizer),      *)
(* settlePayout of backend/internal/admin (the admin), and the payout      *)
(* review of backend/internal/auditor (the auditor).                       *)
(*                                                                         *)
(* All of them run on the same Postgres rows under READ COMMITTED: each    *)
(* statement sees what is committed when it starts.  A transaction whose   *)
(* only effect is one UPDATE that looks at nothing read before is a single *)
(* step here, its commit: the row lock it holds until then keeps other     *)
(* writers waiting and hides nothing from readers.  A call draws its       *)
(* arguments at the step that first uses them.                             *)
(***************************************************************************)
EXTENDS Integers, FiniteSets

CONSTANTS
    Payouts,     \* bound: ids of payouts rows
    Calls,       \* request handlers that run at the same time
    Items,       \* items of the auditor's checklist
    Accounts,    \* bank account numbers
    Kinds,       \* which of AllKinds of calls are made
    MaxSales,    \* bound: net amount of the paid orders of the event
    None         \* no payout, no account, no call

AllKinds == {"request", "settle", "check", "approve", "verify", "edit", "profile"}

ASSUME PayoutAssumption ==
    /\ None \notin Payouts \cup Calls \cup Accounts
    /\ Kinds \subseteq AllKinds
    /\ MaxSales \in Nat

VARIABLES
    sales,      \* sum of net_amount of the event's paid orders
    amount,     \* payouts.amount
    status,     \* payouts.status, "none" for an id not used yet
    checks,     \* payout_review_checks: the items ticked, per payout
    recorded,   \* items the activity log says were verified on approval
    account,    \* organizer_applications.bank_account_number
    verified,   \* bank_verification_status = 'verified'
    open,       \* organizer_applications.status lets the organizer edit the
                \* application: it is neither approved nor in review
    submitted,  \* an event of the organizer is pending_review or approved
    eventLock,  \* the call that holds the event's advisory lock
    rowLock,    \* the call that holds a payouts row FOR UPDATE
    pc,         \* per call: where it is
    pay,        \* the payout it is about
    bal,        \* the money it read, then the amount it will insert
    snap,       \* the ticked items it read
    shown,      \* the account number the auditor's console displayed
    overtaken,  \* what it read was changed since by another call (history)
    bySettle,   \* payouts inserted by the admin (history)
    peak,       \* highest sales so far (history)
    crowded,    \* a payout request was overtaken by another (history)
    stale,      \* payouts whose last approval was overtaken (history)
    slipped,    \* the last verification was overtaken (history)
    rewritten,  \* since it, the application rewrote the account (history)
    confirmed   \* the account number the last verification was for (history)

ledger == <<amount, status>>
review == <<checks, recorded>>
bank == <<account, verified, open>>
locks == <<eventLock, rowLock>>
local == <<pay, bal, snap, shown>>
history == <<bySettle, peak, crowded, stale, slipped, rewritten, confirmed>>
vars == <<sales, ledger, review, bank, submitted, locks, pc, local, overtaken,
          history>>

Steps == {"idle", "balance", "insert", "sum", "settle", "tick", "approve",
          "compare", "verify", "events", "payouts", "edit", "profile"}

Statuses == {"pending", "processed", "failed", "approved", "rejected",
             "on_hold", "need_revision"}

\* Mistake: an approved payout may still be worked on.
TerminalButApproved == {"rejected", "processed", "failed"}

terminalPayoutStatuses == {"approved", "rejected", "processed", "failed"}

Rows == {p \in Payouts : status[p] # "none"}
With(some) == {p \in Payouts : status[p] \in some}

(* A sum of amounts is a number of units of money: those of each row.      *)
Units(of, rows) == UNION {{p} \X (1..of[p]) : p \in rows}
Sum(rows) == Cardinality(Units(amount, rows))

Start(c, kind, step) ==
    /\ kind \in Kinds
    /\ pc[c] = "idle"
    /\ pc' = [pc EXCEPT ![c] = step]

Go(c, step) == pc' = [pc EXCEPT ![c] = step]

(* The call ends: its locks are released and its variables go.  What it    *)
(* committed overtakes the calls `others`, which had read the old value.   *)
EndOver(c, others) ==
    /\ Go(c, "idle")
    /\ pay' = [pay EXCEPT ![c] = None]
    /\ bal' = [bal EXCEPT ![c] = 0]
    /\ snap' = [snap EXCEPT ![c] = {}]
    /\ shown' = [shown EXCEPT ![c] = None]
    /\ overtaken' = [d \in Calls |-> d # c /\ (overtaken[d] \/ d \in others)]
    /\ eventLock' = IF eventLock = c THEN None ELSE eventLock
    /\ rowLock' = [p \in Payouts |->
                    IF rowLock[p] = c THEN None ELSE rowLock[p]]

End(c) == EndOver(c, {})

At(step) == {c \in Calls : pc[c] = step}

----------------------------------------------------------------------------
(* The rest of the program.                                                *)

(* An order of the event is paid, or a late notification of the payment    *)
(* provider overwrites the status of a paid order.                         *)
SalesChange ==
    /\ \/ sales < MaxSales /\ sales' = sales + 1
       \/ sales > 0 /\ sales' = sales - 1
    /\ peak' = IF sales' > peak THEN sales' ELSE peak
    /\ UNCHANGED <<ledger, review, bank, submitted, locks, pc, local,
                   overtaken, bySettle, crowded, stale, slipped, rewritten,
                   confirmed>>

(* An event is submitted, which the payout gate allows only with an        *)
(* account on file; or the last such event is withdrawn, rejected, sent    *)
(* back or set to draft by the admin.                                      *)
EventsChange ==
    /\ submitted \/ account # None
    /\ submitted' = ~submitted
    /\ UNCHANGED <<sales, ledger, review, bank, locks, pc, local, overtaken,
                   history>>

----------------------------------------------------------------------------
(* The organizer requests a payout: CreatePayoutRequest.                   *)

\* Mistake: requests not settled yet are forgotten.
CountedProcessed == {"processed"}

countedPayouts == {"pending", "processed"}

ReadSales(c) ==
    /\ Start(c, "request", "balance")
    /\ bal' = [bal EXCEPT ![c] = sales]
    /\ UNCHANGED <<sales, ledger, review, bank, submitted, locks, pay, snap,
                   shown, overtaken, history>>

ReadBalance(c, requested) ==
    /\ pc[c] = "balance"
    /\ requested > 0
    /\ IF requested > bal[c] - Sum(With(countedPayouts))
         THEN End(c)
         ELSE /\ Go(c, "insert")
              /\ bal' = [bal EXCEPT ![c] = requested]
              /\ UNCHANGED <<locks, pay, snap, shown, overtaken>>
    /\ UNCHANGED <<sales, ledger, review, bank, submitted, history>>

Insert(p, sum, to) ==
    /\ p \notin Rows
    /\ amount' = [amount EXCEPT ![p] = sum]
    /\ status' = [status EXCEPT ![p] = to]

InsertRequest(c, p) ==
    /\ pc[c] = "insert"
    /\ Insert(p, bal[c], "pending")
    /\ EndOver(c, At("insert"))
    /\ crowded' = (crowded \/ overtaken[c])
    /\ UNCHANGED <<sales, review, bank, submitted, bySettle, peak, stale,
                   slipped, rewritten, confirmed>>

----------------------------------------------------------------------------
(* The admin settles the balance of the event, or a payout that failed:    *)
(* settlePayout.                                                           *)

\* Mistake: no advisory lock.
LockEventNot(c) ==
    /\ Start(c, "settle", "sum")
    /\ UNCHANGED <<sales, ledger, review, bank, submitted, locks, local,
                   overtaken, history>>

LockEvent(c) ==
    /\ Start(c, "settle", "sum")
    /\ eventLock = None
    /\ eventLock' = c
    /\ UNCHANGED <<sales, ledger, review, bank, submitted, rowLock, local,
                   overtaken, history>>

SumOutstanding(c) ==
    /\ pc[c] = "sum"
    /\ LET outstanding == sales - Sum(Rows)
       IN  IF outstanding <= 0
             THEN End(c)
             ELSE /\ Go(c, "settle")
                  /\ bal' = [bal EXCEPT ![c] = outstanding]
                  /\ UNCHANGED <<locks, pay, snap, shown, overtaken>>
    /\ UNCHANGED <<sales, ledger, review, bank, submitted, history>>

decisions == {"processed", "failed"}

InsertSettled(c, p, to) ==
    /\ pc[c] = "settle"
    /\ to \in decisions
    /\ Insert(p, bal[c], to)
    /\ End(c)
    /\ bySettle' = bySettle \cup {p}
    /\ UNCHANGED <<sales, review, bank, submitted, peak, crowded, stale,
                   slipped, rewritten, confirmed>>

(* The rows of payouts a call holds FOR UPDATE keep other writers waiting. *)
SetStatus(p, to) ==
    /\ rowLock[p] = None
    /\ status' = [status EXCEPT ![p] = to]

Retry(p, to) ==
    /\ "settle" \in Kinds
    /\ status[p] = "failed"
    /\ to \in decisions
    /\ SetStatus(p, to)
    /\ UNCHANGED <<sales, amount, review, bank, submitted, locks, pc, local,
                   overtaken, history>>

----------------------------------------------------------------------------
(* The auditor reviews a payout.                                           *)

(* RejectPayout, HoldPayout and RevisePayout, whatever the status was.     *)
Decide(p, to) ==
    /\ p \in Rows
    /\ to \in {"rejected", "on_hold", "need_revision"}
    /\ SetStatus(p, to)
    /\ UNCHANGED <<sales, amount, review, bank, submitted, locks, pc, local,
                   overtaken, history>>

\* Mistake: the status is read without FOR UPDATE.
LockForCheckNot(c, p) ==
    /\ Start(c, "check", "tick")
    /\ p \in Rows
    /\ status[p] \notin terminalPayoutStatuses
    /\ pay' = [pay EXCEPT ![c] = p]
    /\ UNCHANGED <<sales, ledger, review, bank, submitted, locks, bal, snap,
                   shown, overtaken, history>>

(* UpdatePayoutCheck: SELECT status ... FOR UPDATE, then the upsert.       *)
LockForCheck(c, p) ==
    /\ Start(c, "check", "tick")
    /\ p \in Rows
    /\ status[p] \notin terminalPayoutStatuses
    /\ rowLock[p] = None
    /\ rowLock' = [rowLock EXCEPT ![p] = c]
    /\ pay' = [pay EXCEPT ![c] = p]
    /\ UNCHANGED <<sales, ledger, review, bank, submitted, eventLock, bal,
                   snap, shown, overtaken, history>>

UpdateCheck(c, item, checked) ==
    /\ pc[c] = "tick"
    /\ checks' = [checks EXCEPT ![pay[c]] =
                    IF checked THEN @ \cup {item} ELSE @ \ {item}]
    /\ EndOver(c, {d \in At("approve") : pay[d] = pay[c]})
    /\ UNCHANGED <<sales, ledger, recorded, bank, submitted, history>>

(* ApprovePayout: read the checklist, without a lock; update the status    *)
(* and log the items outstanding.                                          *)
ReadChecks(c, p) ==
    /\ Start(c, "approve", "approve")
    /\ p \in Rows
    /\ pay' = [pay EXCEPT ![c] = p]
    /\ snap' = [snap EXCEPT ![c] = checks[p]]
    /\ UNCHANGED <<sales, ledger, review, bank, submitted, locks, bal, shown,
                   overtaken, history>>

Approve(c) ==
    /\ pc[c] = "approve"
    /\ LET p == pay[c]
       IN  /\ SetStatus(p, "approved")
           /\ recorded' = [recorded EXCEPT ![p] = snap[c]]
           /\ stale' = IF overtaken[c] THEN stale \cup {p} ELSE stale \ {p}
    /\ End(c)
    /\ UNCHANGED <<sales, amount, checks, bank, submitted, bySettle, peak,
                   crowded, slipped, rewritten, confirmed>>

(* VerifyPayoutBankAccount: the console shows the account of a payout; the *)
(* click sends the number back, which is compared and, if it is the one on *)
(* file, the account on file is marked verified.                           *)
ShowAccount(c) ==
    /\ Start(c, "verify", "compare")
    /\ Rows # {}
    /\ account # None
    /\ shown' = [shown EXCEPT ![c] = account]
    /\ UNCHANGED <<sales, ledger, review, bank, submitted, locks, pay, bal,
                   snap, overtaken, history>>

\* Mistake: the number the console displayed is not compared.
CompareNot(c) ==
    /\ pc[c] = "compare"
    /\ Go(c, "verify")
    /\ UNCHANGED <<sales, ledger, review, bank, submitted, locks, local,
                   overtaken, history>>

Compare(c) ==
    /\ pc[c] = "compare"
    /\ IF account # shown[c]
         THEN End(c)
         ELSE Go(c, "verify") /\ UNCHANGED <<locks, local, overtaken>>
    /\ UNCHANGED <<sales, ledger, review, bank, submitted, history>>

Verify(c) ==
    /\ pc[c] = "verify"
    /\ verified' = TRUE
    /\ slipped' = overtaken[c]
    /\ rewritten' = FALSE
    /\ confirmed' = shown[c]
    /\ End(c)
    /\ UNCHANGED <<sales, ledger, review, account, open, submitted, bySettle,
                   peak, crowded, stale>>

----------------------------------------------------------------------------
(* The organizer changes the bank account: UpdatePayoutDetails.  One on    *)
(* file is locked while an event is submitted or a payout counts.          *)

ReadAccount(c) ==
    /\ Start(c, "edit", IF account = None THEN "edit" ELSE "events")
    /\ UNCHANGED <<sales, ledger, review, bank, submitted, locks, local,
                   overtaken, history>>

CountEvents(c) ==
    /\ pc[c] = "events"
    /\ IF submitted
         THEN End(c)
         ELSE Go(c, "payouts") /\ UNCHANGED <<locks, local, overtaken>>
    /\ UNCHANGED <<sales, ledger, review, bank, submitted, history>>

CountPayouts(c) ==
    /\ pc[c] = "payouts"
    /\ IF With(countedPayouts) # {}
         THEN End(c)
         ELSE Go(c, "edit") /\ UNCHANGED <<locks, local, overtaken>>
    /\ UNCHANGED <<sales, ledger, review, bank, submitted, history>>

\* Mistake: the verification carries over to the new account.
EditVerified(c, number) ==
    /\ pc[c] = "edit"
    /\ account' = number
    /\ EndOver(c, At("verify"))
    /\ UNCHANGED <<sales, ledger, review, verified, open, submitted, history>>

Edit(c, number) ==
    /\ pc[c] = "edit"
    /\ account' = number
    /\ verified' = FALSE
    /\ EndOver(c, At("verify"))
    /\ UNCHANGED <<sales, ledger, review, open, submitted, history>>

----------------------------------------------------------------------------
(* The organizer's application, which holds the bank account too.          *)

(* The auditor approves it, rejects it or sets its status, also after it   *)
(* was approved.                                                           *)
AuditApplication ==
    /\ open' = ~open
    /\ UNCHANGED <<sales, ledger, review, account, verified, submitted, locks,
                   pc, local, overtaken, history>>

(* UpdateApplication reads the application, and later writes all of it     *)
(* back with its account number, an empty one included: without the lock   *)
(* of UpdatePayoutDetails, without a look at what the auditor did          *)
(* meanwhile, and without touching the verification.                       *)
ReadApplication(c) ==
    /\ Start(c, "profile", "profile")
    /\ open
    /\ UNCHANGED <<sales, ledger, review, bank, submitted, locks, local,
                   overtaken, history>>

SaveApplication(c, number) ==
    /\ pc[c] = "profile"
    /\ account' = number
    /\ open' = TRUE
    /\ rewritten' = (rewritten \/ number # account)
    /\ EndOver(c, At("verify"))
    /\ UNCHANGED <<sales, ledger, review, verified, submitted, bySettle, peak,
                   crowded, stale, slipped, confirmed>>

(* A statement fails, the deadline of the call passes or the process dies: *)
(* the transaction is rolled back.                                         *)
Fail(c) ==
    /\ pc[c] # "idle"
    /\ End(c)
    /\ UNCHANGED <<sales, ledger, review, bank, submitted, history>>

----------------------------------------------------------------------------
Init ==
    /\ sales = 0
    /\ amount = [p \in Payouts |-> 0]
    /\ status = [p \in Payouts |-> "none"]
    /\ checks = [p \in Payouts |-> {}]
    /\ recorded = [p \in Payouts |-> {}]
    /\ account \in Accounts \cup {None}
    /\ verified = FALSE
    /\ open \in BOOLEAN
    /\ submitted = FALSE
    /\ eventLock = None
    /\ rowLock = [p \in Payouts |-> None]
    /\ pc = [c \in Calls |-> "idle"]
    /\ pay = [c \in Calls |-> None]
    /\ bal = [c \in Calls |-> 0]
    /\ snap = [c \in Calls |-> {}]
    /\ shown = [c \in Calls |-> None]
    /\ overtaken = [c \in Calls |-> FALSE]
    /\ bySettle = {}
    /\ peak = 0
    /\ crowded = FALSE
    /\ stale = {}
    /\ slipped = FALSE
    /\ rewritten = FALSE
    /\ confirmed = None

Request(c) ==
    \/ ReadSales(c)
    \/ \E requested \in 1..MaxSales : ReadBalance(c, requested)
    \/ \E p \in Payouts : InsertRequest(c, p)

Settle(c) ==
    \/ LockEvent(c)
    \/ SumOutstanding(c)
    \/ \E p \in Payouts, to \in decisions : InsertSettled(c, p, to)

Audit(c) ==
    \/ \E p \in Payouts : LockForCheck(c, p) \/ ReadChecks(c, p)
    \/ \E item \in Items, checked \in BOOLEAN : UpdateCheck(c, item, checked)
    \/ Approve(c)
    \/ ShowAccount(c) \/ Compare(c) \/ Verify(c)

EditDetails(c) ==
    \/ ReadAccount(c) \/ CountEvents(c) \/ CountPayouts(c)
    \/ \E number \in Accounts : Edit(c, number)

EditApplication(c) ==
    \/ ReadApplication(c)
    \/ \E number \in Accounts \cup {None} : SaveApplication(c, number)

Next ==
    \/ SalesChange \/ EventsChange \/ AuditApplication
    \/ \E p \in Payouts, to \in Statuses : Retry(p, to) \/ Decide(p, to)
    \/ \E c \in Calls : \/ Request(c) \/ Settle(c) \/ Audit(c) \/ EditDetails(c)
                        \/ EditApplication(c) \/ Fail(c)

Spec == Init /\ [][Next]_vars

----------------------------------------------------------------------------
(* Types, and who holds a lock: only a call that settles holds the lock of *)
(* the event, and a call in the middle of a check, and no other, holds the *)
(* row of the payout it is about.                                          *)
MoneyTypeOK ==
    /\ sales \in 0..MaxSales
    /\ amount \in [Payouts -> 0..MaxSales]
    /\ bal \in [Calls -> 0..MaxSales]
    /\ bySettle \subseteq Payouts
    /\ peak \in 0..MaxSales
    /\ crowded \in BOOLEAN

ReviewTypeOK ==
    /\ status \in [Payouts -> Statuses \cup {"none"}]
    /\ checks \in [Payouts -> SUBSET Items]
    /\ recorded \in [Payouts -> SUBSET Items]
    /\ account \in Accounts \cup {None}
    /\ verified \in BOOLEAN
    /\ open \in BOOLEAN
    /\ submitted \in BOOLEAN
    /\ pc \in [Calls -> Steps]
    /\ pay \in [Calls -> Payouts \cup {None}]
    /\ snap \in [Calls -> SUBSET Items]
    /\ shown \in [Calls -> Accounts \cup {None}]
    /\ overtaken \in [Calls -> BOOLEAN]
    /\ stale \subseteq Payouts
    /\ slipped \in BOOLEAN
    /\ rewritten \in BOOLEAN
    /\ confirmed \in Accounts \cup {None}
    /\ \A c \in Calls : pc[c] \in {"tick", "approve"} => pay[c] \in Payouts

LocksOK ==
    /\ eventLock \in Calls \cup {None}
    /\ eventLock # None => pc[eventLock] \in {"sum", "settle"}
    /\ rowLock \in [Payouts -> Calls \cup {None}]
    /\ \A p \in Payouts, c \in Calls :
          rowLock[p] = c <=> pc[c] = "tick" /\ pay[c] = p

TypeOK == MoneyTypeOK /\ ReviewTypeOK /\ LocksOK

(* The advisory lock: however the admin's Process clicks interleave with   *)
(* each other and with the organizer's requests, what they pay out never   *)
(* adds up to more than was sold (admin/repository.go, settlePayout: "two  *)
(* concurrent Process clicks can't double-pay the same balance").          *)
SettledOnce == Sum(bySettle) <= peak

(* The balance check of CreatePayoutRequest: the requests waiting never    *)
(* add up to more than was sold, unless two of them were checked at the    *)
(* same time.                                                              *)
PendingFitsUnlessCrowded == ~crowded => Sum(With({"pending"})) <= peak

(* UpdatePayoutCheck's row lock: an item is ticked or unticked only on a   *)
(* payout that is not approved, rejected or paid, even when the decision   *)
(* and the tick arrive together.                                           *)
ChecklistFreezes ==
    [][\A p \in Payouts :
          checks'[p] # checks[p] =>
              status[p] \notin terminalPayoutStatuses]_vars

(* The activity log of an approved payout names the items that are ticked  *)
(* on it, unless one was ticked or unticked between ApprovePayout's read   *)
(* and its update.                                                         *)
ApprovalRecordsTheChecklist ==
    \A p \in Payouts :
        status[p] = "approved" /\ p \notin stale => recorded[p] = checks[p]

(* A verified account is the one the auditor was shown, for two reasons    *)
(* only not: the account was written between VerifyPayoutBankAccount's     *)
(* comparison and its update, or UpdateApplication rewrote it afterwards   *)
(* and left the verification ("only an organizer edit resets it            *)
(* (organizer/repository.go sets 'unverified' on any change)"; "Without    *)
(* that, an organizer editing their details between page load and click    *)
(* would have the NEW account verified by an auditor who never saw it").   *)
VerifiedWasShownUnlessSlipped ==
    verified /\ ~slipped /\ ~rewritten => account = confirmed
=============================================================================
