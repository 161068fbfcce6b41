--------------------------- MODULE PayoutsProofs ---------------------------
(***************************************************************************)
(* What the payout review guarantees for any payouts, calls, checklists    *)
(* and accounts, and what the ledger does for any sales.  First the types  *)
(* and locks of the review, then its checklist and the bank account; then  *)
(* sums, counted as units of money so that the theorems on finite sets     *)
(* apply to them, and the invariant of the money.                          *)
(***************************************************************************)
EXTENDS Payouts, FiniteSetTheorems, TLAPS

Inv == ReviewTypeOK /\ LocksOK

(* The program starts with the right types and no lock.                    *)
LEMMA InitInv == Init => Inv
<1> SUFFICES ASSUME Init PROVE Inv
  OBVIOUS
<1> USE PayoutAssumption DEF Init
<1>1. ReviewTypeOK
  BY DEF ReviewTypeOK, Steps
<1>2. LocksOK
  BY DEF LocksOK
<1> QED BY <1>1, <1>2 DEF Inv

(* A call that ends gives up its locks and its variables, and leaves those *)
(* of the other calls alone.                                               *)
LEMMA EndKeepsLocks ==
    ASSUME Inv, NEW c \in Calls, NEW others, EndOver(c, others)
    PROVE  /\ LocksOK'
           /\ pc' \in [Calls -> Steps]
           /\ pay' \in [Calls -> Payouts \cup {None}]
           /\ snap' \in [Calls -> SUBSET Items]
           /\ shown' \in [Calls -> Accounts \cup {None}]
           /\ overtaken' \in [Calls -> BOOLEAN]
           /\ \A d \in Calls :
                 pc'[d] \in {"tick", "approve"} => pay'[d] \in Payouts
<1> USE PayoutAssumption DEF Inv, ReviewTypeOK, LocksOK, EndOver, Go
<1>1. /\ pc' \in [Calls -> Steps]
      /\ pay' \in [Calls -> Payouts \cup {None}]
      /\ snap' \in [Calls -> SUBSET Items]
      /\ shown' \in [Calls -> Accounts \cup {None}]
  BY DEF Steps
<1>2. overtaken' \in [Calls -> BOOLEAN]
  OBVIOUS
<1>3. \A d \in Calls : pc'[d] \in {"tick", "approve"} => pay'[d] \in Payouts
  OBVIOUS
<1>4. LocksOK'
  <2>1. /\ eventLock' \in Calls \cup {None}
        /\ eventLock' # None => pc'[eventLock'] \in {"sum", "settle"}
    OBVIOUS
  <2>2. rowLock' \in [Payouts -> Calls \cup {None}]
    OBVIOUS
  <2>3. \A p \in Payouts, d \in Calls :
           rowLock'[p] = d <=> pc'[d] = "tick" /\ pay'[d] = p
    OBVIOUS
  <2> QED BY <2>1, <2>2, <2>3
<1> QED BY <1>1, <1>2, <1>3, <1>4

(* Types and locks are preserved by every step.                            *)
LEMMA NextInv == Inv /\ [Next]_vars => Inv'
<1> SUFFICES ASSUME Inv, [Next]_vars PROVE Inv'
  OBVIOUS
<1> USE PayoutAssumption
<1>1. ASSUME SalesChange PROVE Inv'
  BY <1>1 DEF Inv, ReviewTypeOK, LocksOK, SalesChange, ledger, review, bank,
         locks, local, history
<1>2. ASSUME EventsChange PROVE Inv'
  BY <1>2 DEF Inv, ReviewTypeOK, LocksOK, EventsChange, ledger, review, bank,
         locks, local, history
<1>3. ASSUME NEW p \in Payouts, NEW to \in Statuses, Retry(p, to) PROVE Inv'
  BY <1>3
     DEF Inv, ReviewTypeOK, LocksOK, Retry, SetStatus, Statuses,
         decisions, ledger, review, bank,
         locks, local, history
<1>4. ASSUME NEW p \in Payouts, NEW to \in Statuses, Decide(p, to) PROVE Inv'
  BY <1>4
     DEF Inv, ReviewTypeOK, LocksOK, Decide, SetStatus, Statuses, ledger,
         review, bank,
         locks, local, history
<1>5. ASSUME NEW c \in Calls, ReadSales(c) PROVE Inv'
  BY <1>5 DEF Inv, ReviewTypeOK, LocksOK, ReadSales, Start, Steps, Rows,
         ledger, review, bank, locks, local, history
<1>6. ASSUME NEW c \in Calls, NEW requested \in 1..MaxSales,
             ReadBalance(c, requested)
      PROVE  Inv'
  <2>1. CASE End(c)
    <3>1. EndOver(c, {})
      BY <2>1 DEF End
    <3> QED
      BY <1>6, <3>1, EndKeepsLocks DEF Inv, ReviewTypeOK, ReadBalance,
         ledger, review, bank, history
  <2>2. CASE ~End(c)
    BY <1>6, <2>2 DEF Inv, ReviewTypeOK, LocksOK, ReadBalance, Go, Steps,
         ledger, review, bank, locks, local, history
  <2> QED BY <2>1, <2>2
<1>7. ASSUME NEW c \in Calls, NEW p \in Payouts, InsertRequest(c, p) PROVE Inv'
  <2>1. EndOver(c, At("insert"))
    BY <1>7 DEF InsertRequest, End
  <2>2. LocksOK'
    BY <2>1, EndKeepsLocks
  <2>3. ReviewTypeOK'
    BY <1>7, <2>1, EndKeepsLocks
       DEF Inv, ReviewTypeOK, LocksOK, InsertRequest, Insert, Statuses,
         ledger, review, bank, history
  <2> QED BY <2>2, <2>3 DEF Inv
<1>8. ASSUME NEW c \in Calls, LockEvent(c) PROVE Inv'
  BY <1>8 DEF Inv, ReviewTypeOK, LocksOK, LockEvent, Start, Steps, Rows,
         ledger, review, bank, locks, local, history
<1>9. ASSUME NEW c \in Calls, SumOutstanding(c) PROVE Inv'
  <2>1. CASE End(c)
    <3>1. EndOver(c, {})
      BY <2>1 DEF End
    <3> QED
      BY <1>9, <3>1, EndKeepsLocks DEF Inv, ReviewTypeOK, SumOutstanding,
         ledger, review, bank, history
  <2>2. CASE ~End(c)
    BY <1>9, <2>2 DEF Inv, ReviewTypeOK, LocksOK, SumOutstanding, Go, Steps,
         ledger, review, bank, locks, local, history
  <2> QED BY <2>1, <2>2
<1>10. ASSUME NEW c \in Calls, NEW p \in Payouts, NEW to \in decisions,
              InsertSettled(c, p, to)
      PROVE  Inv'
  <2>1. EndOver(c, {})
    BY <1>10 DEF InsertSettled, End
  <2>2. LocksOK'
    BY <2>1, EndKeepsLocks
  <2>3. ReviewTypeOK'
    BY <1>10, <2>1, EndKeepsLocks
       DEF Inv, ReviewTypeOK, LocksOK, InsertSettled, Insert, decisions,
           Statuses,
         ledger, review, bank, history
  <2> QED BY <2>2, <2>3 DEF Inv
<1>11. ASSUME NEW c \in Calls, NEW p \in Payouts, LockForCheck(c, p) PROVE Inv'
  BY <1>11 DEF Inv, ReviewTypeOK, LocksOK, LockForCheck, Start, Steps, Rows,
         ledger, review, bank, locks, local, history
<1>12. ASSUME NEW c \in Calls, NEW p \in Payouts, ReadChecks(c, p) PROVE Inv'
  BY <1>12 DEF Inv, ReviewTypeOK, LocksOK, ReadChecks, Start, Steps, Rows,
         ledger, review, bank, locks, local, history
<1>13. ASSUME NEW c \in Calls, NEW item \in Items, NEW checked \in BOOLEAN,
              UpdateCheck(c, item, checked)
      PROVE  Inv'
  <2>1. EndOver(c, {d \in At("approve") : pay[d] = pay[c]})
    BY <1>13 DEF UpdateCheck, End
  <2>2. LocksOK'
    BY <2>1, EndKeepsLocks
  <2>3. ReviewTypeOK'
    BY <1>13, <2>1, EndKeepsLocks DEF Inv, ReviewTypeOK, LocksOK, UpdateCheck,
         ledger, review, bank, history
  <2> QED BY <2>2, <2>3 DEF Inv
<1>14. ASSUME NEW c \in Calls, Approve(c) PROVE Inv'
  <2>1. EndOver(c, {})
    BY <1>14 DEF Approve, End
  <2>2. LocksOK'
    BY <2>1, EndKeepsLocks
  <2>3. ReviewTypeOK'
    BY <1>14, <2>1, EndKeepsLocks
       DEF Inv, ReviewTypeOK, LocksOK, Approve, SetStatus, Statuses,
         ledger, review, bank, history
  <2> QED BY <2>2, <2>3 DEF Inv
<1>15. ASSUME NEW c \in Calls, ShowAccount(c) PROVE Inv'
  BY <1>15 DEF Inv, ReviewTypeOK, LocksOK, ShowAccount, Start, Steps, Rows,
         ledger, review, bank, locks, local, history
<1>16. ASSUME NEW c \in Calls, Compare(c) PROVE Inv'
  <2>1. CASE End(c)
    <3>1. EndOver(c, {})
      BY <2>1 DEF End
    <3> QED
      BY <1>16, <3>1, EndKeepsLocks DEF Inv, ReviewTypeOK, Compare,
         ledger, review, bank, history
  <2>2. CASE ~End(c)
    BY <1>16, <2>2 DEF Inv, ReviewTypeOK, LocksOK, Compare, Go, Steps,
         ledger, review, bank, locks, local, history
  <2> QED BY <2>1, <2>2
<1>17. ASSUME NEW c \in Calls, Verify(c) PROVE Inv'
  <2>1. EndOver(c, {})
    BY <1>17 DEF Verify, End
  <2>2. LocksOK'
    BY <2>1, EndKeepsLocks
  <2>3. ReviewTypeOK'
    BY <1>17, <2>1, EndKeepsLocks DEF Inv, ReviewTypeOK, LocksOK, Verify,
         ledger, review, bank, history
  <2> QED BY <2>2, <2>3 DEF Inv
<1>18. ASSUME NEW c \in Calls, ReadAccount(c) PROVE Inv'
  BY <1>18 DEF Inv, ReviewTypeOK, LocksOK, ReadAccount, Start, Steps, Rows,
         ledger, review, bank, locks, local, history
<1>19. ASSUME NEW c \in Calls, CountEvents(c) PROVE Inv'
  <2>1. CASE End(c)
    <3>1. EndOver(c, {})
      BY <2>1 DEF End
    <3> QED
      BY <1>19, <3>1, EndKeepsLocks DEF Inv, ReviewTypeOK, CountEvents,
         ledger, review, bank, history
  <2>2. CASE ~End(c)
    BY <1>19, <2>2 DEF Inv, ReviewTypeOK, LocksOK, CountEvents, Go, Steps,
         ledger, review, bank, locks, local, history
  <2> QED BY <2>1, <2>2
<1>20. ASSUME NEW c \in Calls, CountPayouts(c) PROVE Inv'
  <2>1. CASE End(c)
    <3>1. EndOver(c, {})
      BY <2>1 DEF End
    <3> QED
      BY <1>20, <3>1, EndKeepsLocks DEF Inv, ReviewTypeOK, CountPayouts,
         ledger, review, bank, history
  <2>2. CASE ~End(c)
    BY <1>20, <2>2 DEF Inv, ReviewTypeOK, LocksOK, CountPayouts, Go, Steps,
         ledger, review, bank, locks, local, history
  <2> QED BY <2>1, <2>2
<1>21. ASSUME NEW c \in Calls, NEW number \in Accounts, Edit(c, number)
      PROVE  Inv'
  <2>1. EndOver(c, At("verify"))
    BY <1>21 DEF Edit, End
  <2>2. LocksOK'
    BY <2>1, EndKeepsLocks
  <2>3. /\ account' \in Accounts \cup {None}
        /\ verified' \in BOOLEAN
        /\ UNCHANGED <<status, checks, recorded, open, submitted, stale,
                       slipped, rewritten, confirmed>>
    BY <1>21 DEF Edit, ledger, review, history
  <2>4. ReviewTypeOK'
    BY <2>1, <2>3, EndKeepsLocks DEF Inv, ReviewTypeOK
  <2> QED BY <2>2, <2>4 DEF Inv
<1>22. ASSUME NEW c \in Calls, Fail(c) PROVE Inv'
  <2>1. EndOver(c, {})
    BY <1>22 DEF Fail, End
  <2>2. LocksOK'
    BY <2>1, EndKeepsLocks
  <2>3. ReviewTypeOK'
    BY <1>22, <2>1, EndKeepsLocks DEF Inv, ReviewTypeOK, LocksOK, Fail,
         ledger, review, bank, history
  <2> QED BY <2>2, <2>3 DEF Inv
<1>23. ASSUME AuditApplication PROVE Inv'
  BY <1>23 DEF Inv, ReviewTypeOK, LocksOK, AuditApplication, ledger, review,
         locks, local, history
<1>24. ASSUME NEW c \in Calls, ReadApplication(c) PROVE Inv'
  BY <1>24 DEF Inv, ReviewTypeOK, LocksOK, ReadApplication, Start, Steps,
         ledger, review, bank, locks, local, history
<1>25. ASSUME NEW c \in Calls, NEW number \in Accounts \cup {None},
              SaveApplication(c, number)
      PROVE  Inv'
  <2>1. EndOver(c, At("verify"))
    BY <1>25 DEF SaveApplication
  <2>2. LocksOK'
    BY <2>1, EndKeepsLocks
  <2>3. /\ account' \in Accounts \cup {None}
        /\ open' \in BOOLEAN /\ rewritten' \in BOOLEAN
        /\ UNCHANGED <<status, checks, recorded, verified, submitted, stale,
                       slipped, confirmed>>
    BY <1>25 DEF SaveApplication, ledger, review, Inv, ReviewTypeOK
  <2>4. ReviewTypeOK'
    BY <2>1, <2>3, EndKeepsLocks DEF Inv, ReviewTypeOK
  <2> QED BY <2>2, <2>4 DEF Inv
<1>26. CASE UNCHANGED vars
  BY <1>26 DEF Inv, ReviewTypeOK, LocksOK, vars, ledger, review, bank, locks,
         local, history
<1> QED
  BY <1>1, <1>2, <1>3, <1>4, <1>5, <1>6, <1>7, <1>8, <1>9, <1>10, <1>11,
     <1>12, <1>13, <1>14, <1>15, <1>16, <1>17, <1>18, <1>19, <1>20,
     <1>21, <1>22, <1>23, <1>24, <1>25, <1>26
     DEF Next, Request, Settle, Audit, EditDetails, EditApplication

(* Whatever the payouts, calls, items and accounts, every variable of the  *)
(* review has its type, and a payouts row is held exactly by the call in   *)
(* the middle of a check of it.                                            *)
THEOREM ReviewTypeCorrect == Spec => [](ReviewTypeOK /\ LocksOK)
<1>1. Spec => []Inv
  BY InitInv, NextInv, PTL DEF Spec
<1> QED BY <1>1, PTL DEF Inv

(* What makes the freeze and the record right: a call in the middle of a   *)
(* check works on a payout that is still open, and one about to approve    *)
(* has read the checklist as it is, unless it was overtaken.               *)
CheckInv ==
    /\ \A c \in Calls : pc[c] = "tick" =>
          status[pay[c]] \notin terminalPayoutStatuses \cup {"none"}
    /\ \A c \in Calls : pc[c] = "approve" =>
          /\ status[pay[c]] # "none"
          /\ ~overtaken[c] => snap[c] = checks[pay[c]]
    /\ ApprovalRecordsTheChecklist

(* It holds at the start.                                                *)
LEMMA InitCheckInv == Init => CheckInv
BY DEF Init, CheckInv, ApprovalRecordsTheChecklist

(* Every step preserves it.                                              *)
LEMMA NextCheckInv == Inv /\ CheckInv /\ [Next]_vars => CheckInv'
<1> SUFFICES ASSUME Inv, CheckInv, [Next]_vars PROVE CheckInv'
  OBVIOUS
<1> USE PayoutAssumption
<1>1. ASSUME SalesChange PROVE CheckInv'
  BY <1>1
     DEF Inv, ReviewTypeOK, LocksOK, CheckInv,
         ApprovalRecordsTheChecklist, terminalPayoutStatuses, SalesChange,
         ledger, review, bank, locks, local, history
<1>2. ASSUME EventsChange PROVE CheckInv'
  BY <1>2
     DEF Inv, ReviewTypeOK, LocksOK, CheckInv,
         ApprovalRecordsTheChecklist, terminalPayoutStatuses,
         EventsChange, ledger, review, bank, locks, local, history
<1>3. ASSUME NEW p \in Payouts, NEW to \in Statuses, Retry(p, to)
      PROVE  CheckInv'
  BY <1>3
     DEF Inv, ReviewTypeOK, LocksOK, CheckInv,
         ApprovalRecordsTheChecklist, terminalPayoutStatuses, Retry,
         SetStatus, decisions, ledger, review, bank, locks, local, history
<1>4. ASSUME NEW p \in Payouts, NEW to \in Statuses, Decide(p, to)
      PROVE  CheckInv'
  BY <1>4
     DEF Inv, ReviewTypeOK, LocksOK, CheckInv,
         ApprovalRecordsTheChecklist, terminalPayoutStatuses, Decide,
         SetStatus, ledger, review, bank, locks, local, history
<1>5. ASSUME NEW c \in Calls, ReadSales(c) PROVE CheckInv'
  BY <1>5
     DEF Inv, ReviewTypeOK, LocksOK, CheckInv,
         ApprovalRecordsTheChecklist, terminalPayoutStatuses, ReadSales,
         Start, Go, ledger, review, bank, locks, local, history
<1>6. ASSUME NEW c \in Calls, NEW requested \in 1..MaxSales,
             ReadBalance(c, requested)
      PROVE  CheckInv'
  BY <1>6
     DEF Inv, ReviewTypeOK, LocksOK, CheckInv,
         ApprovalRecordsTheChecklist, terminalPayoutStatuses, ReadBalance,
         End, EndOver, Go, ledger, review, bank, locks, local, history
<1>7. ASSUME NEW c \in Calls, NEW p \in Payouts, InsertRequest(c, p)
      PROVE  CheckInv'
  BY <1>7
     DEF Inv, ReviewTypeOK, LocksOK, CheckInv,
         ApprovalRecordsTheChecklist, terminalPayoutStatuses,
         InsertRequest, End, EndOver, At, Go, Insert, Rows, ledger,
         review, bank, locks, local, history
<1>8. ASSUME NEW c \in Calls, LockEvent(c) PROVE CheckInv'
  BY <1>8
     DEF Inv, ReviewTypeOK, LocksOK, CheckInv,
         ApprovalRecordsTheChecklist, terminalPayoutStatuses, LockEvent,
         Start, Rows, Go, ledger, review, bank, locks, local, history
<1>9. ASSUME NEW c \in Calls, SumOutstanding(c) PROVE CheckInv'
  BY <1>9
     DEF Inv, ReviewTypeOK, LocksOK, CheckInv,
         ApprovalRecordsTheChecklist, terminalPayoutStatuses,
         SumOutstanding, End, EndOver, Go, ledger, review, bank, locks,
         local, history
<1>10. ASSUME NEW c \in Calls, NEW p \in Payouts, NEW to \in decisions,
              InsertSettled(c, p, to)
      PROVE  CheckInv'
  BY <1>10
     DEF Inv, ReviewTypeOK, LocksOK, CheckInv,
         ApprovalRecordsTheChecklist, terminalPayoutStatuses,
         InsertSettled, End, EndOver, At, Go, Insert, decisions, Rows,
         ledger, review, bank, locks, local, history
<1>11. ASSUME NEW c \in Calls, NEW p \in Payouts, LockForCheck(c, p)
      PROVE  CheckInv'
  BY <1>11
     DEF Inv, ReviewTypeOK, LocksOK, CheckInv,
         ApprovalRecordsTheChecklist, terminalPayoutStatuses,
         LockForCheck, Start, Rows, Go, ledger, review, bank, locks,
         local, history
<1>12. ASSUME NEW c \in Calls, NEW p \in Payouts, ReadChecks(c, p)
      PROVE  CheckInv'
  BY <1>12
     DEF Inv, ReviewTypeOK, LocksOK, CheckInv,
         ApprovalRecordsTheChecklist, terminalPayoutStatuses, ReadChecks,
         Start, Go, Rows, ledger, review, bank, locks, local, history
<1>13. ASSUME NEW c \in Calls, NEW item \in Items, NEW checked \in BOOLEAN,
              UpdateCheck(c, item, checked)
      PROVE  CheckInv'
  <2> DEFINE p == pay[c]
  <2>1. /\ p \in Payouts /\ pc[c] = "tick"
        /\ status[p] \notin terminalPayoutStatuses \cup {"none"}
        /\ UNCHANGED <<status, recorded, stale>>
        /\ \A q \in Payouts \ {p} : checks'[q] = checks[q]
        /\ EndOver(c, {d \in At("approve") : pay[d] = pay[c]})
    BY <1>13 DEF UpdateCheck, CheckInv, Inv, ReviewTypeOK, ledger, history
  <2>2. ApprovalRecordsTheChecklist'
    BY <2>1 DEF CheckInv, ApprovalRecordsTheChecklist, terminalPayoutStatuses
  <2>3. \A d \in Calls : pc'[d] # "idle" =>
           /\ pc'[d] = pc[d] /\ pay'[d] = pay[d] /\ snap'[d] = snap[d]
           /\ ~overtaken'[d] =>
                 ~overtaken[d] /\ (pc[d] = "approve" => pay[d] # p)
    BY <2>1 DEF EndOver, Go, At, Inv, ReviewTypeOK
  <2>4. \A d \in Calls : pc'[d] = "tick" =>
           status'[pay'[d]] \notin terminalPayoutStatuses \cup {"none"}
    BY <2>1, <2>3 DEF CheckInv
  <2>5. \A d \in Calls : pc'[d] = "approve" =>
           /\ status'[pay'[d]] # "none"
           /\ ~overtaken'[d] => snap'[d] = checks'[pay'[d]]
    BY <2>1, <2>3 DEF CheckInv, Inv, ReviewTypeOK
  <2> QED BY <2>2, <2>4, <2>5 DEF CheckInv
<1>14. ASSUME NEW c \in Calls, Approve(c) PROVE CheckInv'
  BY <1>14
     DEF Inv, ReviewTypeOK, LocksOK, CheckInv,
         ApprovalRecordsTheChecklist, terminalPayoutStatuses, Approve,
         End, EndOver, At, Go, SetStatus, ledger, review, bank, locks,
         local, history
<1>15. ASSUME NEW c \in Calls, ShowAccount(c) PROVE CheckInv'
  BY <1>15
     DEF Inv, ReviewTypeOK, LocksOK, CheckInv,
         ApprovalRecordsTheChecklist, terminalPayoutStatuses, ShowAccount,
         Start, Go, ledger, review, bank, locks, local, history
<1>16. ASSUME NEW c \in Calls, Compare(c) PROVE CheckInv'
  BY <1>16
     DEF Inv, ReviewTypeOK, LocksOK, CheckInv,
         ApprovalRecordsTheChecklist, terminalPayoutStatuses, Compare,
         End, EndOver, Go, ledger, review, bank, locks, local, history
<1>17. ASSUME NEW c \in Calls, Verify(c) PROVE CheckInv'
  BY <1>17
     DEF Inv, ReviewTypeOK, LocksOK, CheckInv,
         ApprovalRecordsTheChecklist, terminalPayoutStatuses, Verify, End,
         EndOver, At, Go, ledger, review, bank, locks, local, history
<1>18. ASSUME NEW c \in Calls, ReadAccount(c) PROVE CheckInv'
  BY <1>18
     DEF Inv, ReviewTypeOK, LocksOK, CheckInv,
         ApprovalRecordsTheChecklist, terminalPayoutStatuses, ReadAccount,
         Start, Go, ledger, review, bank, locks, local, history
<1>19. ASSUME NEW c \in Calls, CountEvents(c) PROVE CheckInv'
  BY <1>19
     DEF Inv, ReviewTypeOK, LocksOK, CheckInv,
         ApprovalRecordsTheChecklist, terminalPayoutStatuses, CountEvents,
         End, EndOver, Go, ledger, review, bank, locks, local, history
<1>20. ASSUME NEW c \in Calls, CountPayouts(c) PROVE CheckInv'
  BY <1>20
     DEF Inv, ReviewTypeOK, LocksOK, CheckInv,
         ApprovalRecordsTheChecklist, terminalPayoutStatuses,
         CountPayouts, End, EndOver, Go, ledger, review, bank, locks,
         local, history
<1>21. ASSUME NEW c \in Calls, NEW number \in Accounts, Edit(c, number)
      PROVE  CheckInv'
  BY <1>21
     DEF Inv, ReviewTypeOK, LocksOK, CheckInv,
         ApprovalRecordsTheChecklist, terminalPayoutStatuses, Edit, End,
         EndOver, At, Go, ledger, review, bank, locks, local, history
<1>22. ASSUME NEW c \in Calls, Fail(c) PROVE CheckInv'
  BY <1>22
     DEF Inv, ReviewTypeOK, LocksOK, CheckInv,
         ApprovalRecordsTheChecklist, terminalPayoutStatuses, Fail, End,
         EndOver, At, Go, ledger, review, bank, locks, local, history
<1>23. ASSUME AuditApplication PROVE CheckInv'
  BY <1>23
     DEF Inv, ReviewTypeOK, LocksOK, CheckInv,
         ApprovalRecordsTheChecklist, terminalPayoutStatuses,
         AuditApplication, ledger, review, locks, local, history
<1>24. ASSUME NEW c \in Calls, ReadApplication(c) PROVE CheckInv'
  BY <1>24
     DEF Inv, ReviewTypeOK, LocksOK, CheckInv,
         ApprovalRecordsTheChecklist, terminalPayoutStatuses,
         ReadApplication, Start, Go, ledger, review, bank, locks, local,
         history
<1>25. ASSUME NEW c \in Calls, NEW number \in Accounts \cup {None},
              SaveApplication(c, number)
      PROVE  CheckInv'
  BY <1>25
     DEF Inv, ReviewTypeOK, LocksOK, CheckInv,
         ApprovalRecordsTheChecklist, terminalPayoutStatuses,
         SaveApplication, EndOver, At, Go, ledger, review, locks, local,
         history
<1>26. CASE UNCHANGED vars
  BY <1>26
     DEF Inv, ReviewTypeOK, LocksOK, CheckInv,
         ApprovalRecordsTheChecklist, terminalPayoutStatuses, vars,
         ledger, review, bank, locks, local, history
<1> QED
  BY <1>1, <1>2, <1>3, <1>4, <1>5, <1>6, <1>7, <1>8, <1>9, <1>10, <1>11,
     <1>12, <1>13, <1>14, <1>15, <1>16, <1>17, <1>18, <1>19, <1>20,
     <1>21, <1>22, <1>23, <1>24, <1>25, <1>26
     DEF Next, Request, Settle, Audit, EditDetails, EditApplication

(* What makes the verification right: a call about to verify was shown     *)
(* the account on file, unless it was overtaken.                           *)
BankInv ==
    /\ \A c \in Calls :
          pc[c] = "verify" /\ ~overtaken[c] => account = shown[c]
    /\ VerifiedWasShownUnlessSlipped

(* It holds at the start.                                                *)
LEMMA InitBankInv == Init => BankInv
BY DEF Init, BankInv, VerifiedWasShownUnlessSlipped

(* Every step preserves it.                                              *)
LEMMA NextBankInv == Inv /\ BankInv /\ [Next]_vars => BankInv'
<1> SUFFICES ASSUME Inv, BankInv, [Next]_vars PROVE BankInv'
  OBVIOUS
<1> USE PayoutAssumption
<1>1. ASSUME SalesChange PROVE BankInv'
  BY <1>1
     DEF Inv, ReviewTypeOK, BankInv, VerifiedWasShownUnlessSlipped,
         SalesChange, ledger, review, bank, locks, local, history
<1>2. ASSUME EventsChange PROVE BankInv'
  BY <1>2
     DEF Inv, ReviewTypeOK, BankInv, VerifiedWasShownUnlessSlipped,
         EventsChange, ledger, review, bank, locks, local, history
<1>3. ASSUME NEW p \in Payouts, NEW to \in Statuses, Retry(p, to)
      PROVE  BankInv'
  BY <1>3
     DEF Inv, ReviewTypeOK, BankInv, VerifiedWasShownUnlessSlipped, Retry,
         SetStatus, decisions, ledger, review, bank, locks, local, history
<1>4. ASSUME NEW p \in Payouts, NEW to \in Statuses, Decide(p, to)
      PROVE  BankInv'
  BY <1>4
     DEF Inv, ReviewTypeOK, BankInv, VerifiedWasShownUnlessSlipped,
         Decide, SetStatus, ledger, review, bank, locks, local, history
<1>5. ASSUME NEW c \in Calls, ReadSales(c) PROVE BankInv'
  BY <1>5
     DEF Inv, ReviewTypeOK, BankInv, VerifiedWasShownUnlessSlipped,
         ReadSales, Start, Go, ledger, review, bank, locks, local, history
<1>6. ASSUME NEW c \in Calls, NEW requested \in 1..MaxSales,
             ReadBalance(c, requested)
      PROVE  BankInv'
  BY <1>6
     DEF Inv, ReviewTypeOK, BankInv, VerifiedWasShownUnlessSlipped,
         ReadBalance, End, EndOver, Go, ledger, review, bank, locks,
         local, history
<1>7. ASSUME NEW c \in Calls, NEW p \in Payouts, InsertRequest(c, p)
      PROVE  BankInv'
  BY <1>7
     DEF Inv, ReviewTypeOK, BankInv, VerifiedWasShownUnlessSlipped,
         InsertRequest, End, EndOver, At, Go, Insert, Rows, ledger,
         review, bank, locks, local, history
<1>8. ASSUME NEW c \in Calls, LockEvent(c) PROVE BankInv'
  BY <1>8
     DEF Inv, ReviewTypeOK, BankInv, VerifiedWasShownUnlessSlipped,
         LockEvent, Start, Rows, Go, ledger, review, bank, locks, local,
         history
<1>9. ASSUME NEW c \in Calls, SumOutstanding(c) PROVE BankInv'
  BY <1>9
     DEF Inv, ReviewTypeOK, BankInv, VerifiedWasShownUnlessSlipped,
         SumOutstanding, End, EndOver, Go, ledger, review, bank, locks,
         local, history
<1>10. ASSUME NEW c \in Calls, NEW p \in Payouts, NEW to \in decisions,
              InsertSettled(c, p, to)
      PROVE  BankInv'
  BY <1>10
     DEF Inv, ReviewTypeOK, BankInv, VerifiedWasShownUnlessSlipped,
         InsertSettled, End, EndOver, At, Go, Insert, decisions, Rows,
         ledger, review, bank, locks, local, history
<1>11. ASSUME NEW c \in Calls, NEW p \in Payouts, LockForCheck(c, p)
      PROVE  BankInv'
  BY <1>11
     DEF Inv, ReviewTypeOK, BankInv, VerifiedWasShownUnlessSlipped,
         LockForCheck, Start, Rows, Go, ledger, review, bank, locks,
         local, history
<1>12. ASSUME NEW c \in Calls, NEW p \in Payouts, ReadChecks(c, p)
      PROVE  BankInv'
  BY <1>12
     DEF Inv, ReviewTypeOK, BankInv, VerifiedWasShownUnlessSlipped,
         ReadChecks, Start, Go, Rows, ledger, review, bank, locks, local,
         history
<1>13. ASSUME NEW c \in Calls, NEW item \in Items, NEW checked \in BOOLEAN,
              UpdateCheck(c, item, checked)
      PROVE  BankInv'
  BY <1>13
     DEF Inv, ReviewTypeOK, BankInv, VerifiedWasShownUnlessSlipped,
         UpdateCheck, End, EndOver, At, Go, ledger, review, bank, locks,
         local, history
<1>14. ASSUME NEW c \in Calls, Approve(c) PROVE BankInv'
  BY <1>14
     DEF Inv, ReviewTypeOK, BankInv, VerifiedWasShownUnlessSlipped,
         Approve, End, EndOver, At, Go, SetStatus, ledger, review, bank,
         locks, local, history
<1>15. ASSUME NEW c \in Calls, ShowAccount(c) PROVE BankInv'
  BY <1>15
     DEF Inv, ReviewTypeOK, BankInv, VerifiedWasShownUnlessSlipped,
         ShowAccount, Start, Go, ledger, review, bank, locks, local,
         history
<1>16. ASSUME NEW c \in Calls, Compare(c) PROVE BankInv'
  BY <1>16
     DEF Inv, ReviewTypeOK, BankInv, VerifiedWasShownUnlessSlipped,
         Compare, End, EndOver, Go, ledger, review, bank, locks, local,
         history
<1>17. ASSUME NEW c \in Calls, Verify(c) PROVE BankInv'
  BY <1>17
     DEF Inv, ReviewTypeOK, BankInv, VerifiedWasShownUnlessSlipped,
         Verify, End, EndOver, At, Go, ledger, review, bank, locks, local,
         history
<1>18. ASSUME NEW c \in Calls, ReadAccount(c) PROVE BankInv'
  BY <1>18
     DEF Inv, ReviewTypeOK, BankInv, VerifiedWasShownUnlessSlipped,
         ReadAccount, Start, Go, ledger, review, bank, locks, local,
         history
<1>19. ASSUME NEW c \in Calls, CountEvents(c) PROVE BankInv'
  BY <1>19
     DEF Inv, ReviewTypeOK, BankInv, VerifiedWasShownUnlessSlipped,
         CountEvents, End, EndOver, Go, ledger, review, bank, locks,
         local, history
<1>20. ASSUME NEW c \in Calls, CountPayouts(c) PROVE BankInv'
  BY <1>20
     DEF Inv, ReviewTypeOK, BankInv, VerifiedWasShownUnlessSlipped,
         CountPayouts, End, EndOver, Go, ledger, review, bank, locks,
         local, history
<1>21. ASSUME NEW c \in Calls, NEW number \in Accounts, Edit(c, number)
      PROVE  BankInv'
  BY <1>21
     DEF Inv, ReviewTypeOK, BankInv, VerifiedWasShownUnlessSlipped, Edit,
         End, EndOver, At, Go, ledger, review, bank, locks, local, history
<1>22. ASSUME NEW c \in Calls, Fail(c) PROVE BankInv'
  BY <1>22
     DEF Inv, ReviewTypeOK, BankInv, VerifiedWasShownUnlessSlipped, Fail,
         End, EndOver, At, Go, ledger, review, bank, locks, local, history
<1>23. ASSUME AuditApplication PROVE BankInv'
  BY <1>23
     DEF Inv, ReviewTypeOK, BankInv, VerifiedWasShownUnlessSlipped,
         AuditApplication, ledger, review, locks, local, history
<1>24. ASSUME NEW c \in Calls, ReadApplication(c) PROVE BankInv'
  BY <1>24
     DEF Inv, ReviewTypeOK, BankInv, VerifiedWasShownUnlessSlipped,
         ReadApplication, Start, Go, ledger, review, bank, locks, local,
         history
<1>25. ASSUME NEW c \in Calls, NEW number \in Accounts \cup {None},
              SaveApplication(c, number)
      PROVE  BankInv'
  BY <1>25
     DEF Inv, ReviewTypeOK, BankInv, VerifiedWasShownUnlessSlipped,
         SaveApplication, EndOver, At, Go, ledger, review, locks, local,
         history
<1>26. CASE UNCHANGED vars
  BY <1>26
     DEF Inv, ReviewTypeOK, BankInv, VerifiedWasShownUnlessSlipped, vars,
         ledger, review, bank, locks, local, history
<1> QED
  BY <1>1, <1>2, <1>3, <1>4, <1>5, <1>6, <1>7, <1>8, <1>9, <1>10, <1>11,
     <1>12, <1>13, <1>14, <1>15, <1>16, <1>17, <1>18, <1>19, <1>20,
     <1>21, <1>22, <1>23, <1>24, <1>25, <1>26
     DEF Next, Request, Settle, Audit, EditDetails, EditApplication

(* The three invariants hold in every reachable state.                   *)
LEMMA AllInvariants == Spec => [](Inv /\ CheckInv /\ BankInv)
BY InitInv, NextInv, InitCheckInv, NextCheckInv, InitBankInv, NextBankInv, PTL
   DEF Spec

(* Only UpdateCheck changes a checklist.                                   *)
LEMMA OnlyChecksTick ==
    ASSUME [Next]_vars, UNCHANGED checks => FALSE
    PROVE  \E c \in Calls, item \in Items, checked \in BOOLEAN :
              UpdateCheck(c, item, checked)
BY DEF Next, Request, Settle, Audit, EditDetails, EditApplication,
       SalesChange, EventsChange, AuditApplication, ReadApplication,
       SaveApplication,
       Retry, Decide, ReadSales, ReadBalance, InsertRequest, LockEvent,
       SumOutstanding, InsertSettled, LockForCheck, ReadChecks, Approve,
       ShowAccount, Compare, Verify, ReadAccount, CountEvents, CountPayouts,
       Edit, Fail, review, vars

(* An item is ticked or unticked only on a payout that is still open,      *)
(* however many auditors work on it.                                       *)
THEOREM ChecklistFrozen == Spec => ChecklistFreezes
<1>1. ASSUME Inv, CheckInv, [Next]_vars
      PROVE  \A p \in Payouts :
                checks'[p] # checks[p] =>
                    status[p] \notin terminalPayoutStatuses
  <2>1. CASE UNCHANGED checks
    BY <2>1
  <2>2. CASE ~UNCHANGED checks
    <3>1. PICK c \in Calls, item \in Items, checked \in BOOLEAN :
             UpdateCheck(c, item, checked)
      BY <1>1, <2>2, OnlyChecksTick
    <3> QED BY <1>1, <3>1 DEF UpdateCheck, CheckInv, Inv, ReviewTypeOK
  <2> QED BY <2>1, <2>2
<1>2. Inv /\ CheckInv /\ [Next]_vars =>
         [\A p \in Payouts :
            checks'[p] # checks[p] =>
                status[p] \notin terminalPayoutStatuses]_vars
  BY <1>1
<1> QED BY <1>2, AllInvariants, PTL DEF Spec, ChecklistFreezes

(* An approved payout's record is its checklist, unless the approval was   *)
(* overtaken by a tick.                                                    *)
THEOREM ApprovalRecorded == Spec => []ApprovalRecordsTheChecklist
<1>1. CheckInv => ApprovalRecordsTheChecklist
  BY DEF CheckInv
<1> QED BY <1>1, AllInvariants, PTL

(* A verified account is the one the auditor was shown, unless the         *)
(* verification was overtaken, or UpdateApplication rewrote the account.   *)
THEOREM VerifiedShown == Spec => []VerifiedWasShownUnlessSlipped
<1>1. BankInv => VerifiedWasShownUnlessSlipped
  BY DEF BankInv
<1> QED BY <1>1, AllInvariants, PTL

----------------------------------------------------------------------------
(* Sums.  An amount is as many units as it says.                           *)
LEMMA UnitsOfOne ==
    ASSUME NEW n \in Nat
    PROVE  IsFiniteSet(1..n) /\ Cardinality(1..n) = n
<1>1. 1 \in Int /\ n \in Int
  OBVIOUS
<1>2. /\ IsFiniteSet(1..n)
      /\ Cardinality(1..n) = IF 1 > n THEN 0 ELSE n - 1 + 1
  BY <1>1, FS_Interval, Zenon
<1>3. (IF 1 > n THEN 0 ELSE n - 1 + 1) = n
  OBVIOUS
<1> QED BY <1>2, <1>3

(* The amounts of a finite set of rows are finitely many units.            *)
LEMMA UnitsFinite ==
    ASSUME NEW S, IsFiniteSet(S), NEW max \in Nat, NEW of,
           \A p \in S : of[p] \in 0..max
    PROVE  IsFiniteSet(Units(of, S))
<1>1. IsFiniteSet(S \X (1..max))
  BY UnitsOfOne, FS_Product, Zenon
<1>2. Units(of, S) \subseteq S \X (1..max)
  BY DEF Units
<1> QED BY <1>1, <1>2, FS_Subset

(* A sum is a natural number.                                              *)
LEMMA SumType ==
    ASSUME NEW S, IsFiniteSet(S), NEW max \in Nat, NEW of,
           \A p \in S : of[p] \in 0..max
    PROVE  Cardinality(Units(of, S)) \in Nat
BY UnitsFinite, FS_CardinalityType

(* A part of a sum is not more than the sum.                               *)
LEMMA SumOfPart ==
    ASSUME NEW S, IsFiniteSet(S), NEW max \in Nat, NEW of,
           \A p \in S : of[p] \in 0..max, NEW T \in SUBSET S
    PROVE  Cardinality(Units(of, T)) <= Cardinality(Units(of, S))
<1>1. IsFiniteSet(Units(of, S))
  BY UnitsFinite
<1>2. Units(of, T) \subseteq Units(of, S)
  BY DEF Units
<1> QED BY <1>1, <1>2, FS_Subset

(* A row that is added adds its amount.                                    *)
LEMMA SumOfOneMore ==
    ASSUME NEW S, IsFiniteSet(S), NEW max \in Nat, NEW of,
           \A p \in S : of[p] \in 0..max,
           NEW q, q \notin S, of[q] \in 0..max
    PROVE  Cardinality(Units(of, S \cup {q}))
              = Cardinality(Units(of, S)) + of[q]
<1> DEFINE A == Units(of, S)
           B == {q} \X (1..of[q])
<1>1. IsFiniteSet(A) /\ Cardinality(A) \in Nat
  BY UnitsFinite, FS_CardinalityType
<1>2. IsFiniteSet(B) /\ Cardinality(B) = of[q]
  <2>1. IsFiniteSet({q}) /\ Cardinality({q}) = 1
    BY FS_Singleton
  <2>2. IsFiniteSet(1..of[q]) /\ Cardinality(1..of[q]) = of[q]
    BY UnitsOfOne
  <2> DEFINE U == 1..of[q]
  <2> HIDE DEF U
  <2>3. /\ IsFiniteSet({q} \X U)
        /\ Cardinality({q} \X U) = Cardinality({q}) * Cardinality(U)
    BY <2>1, <2>2, FS_Product DEF U
  <2>4. Cardinality({q}) * Cardinality(U) = of[q]
    BY <2>1, <2>2 DEF U
  <2> QED BY <2>3, <2>4 DEF U
<1>3. A \cap B = {}
  BY DEF Units
<1>4. Units(of, S \cup {q}) = A \cup B
  BY DEF Units
<1>5. Cardinality(A \cap B) = 0
  BY <1>3, FS_EmptySet
<1> HIDE DEF A, B
<1>6. Cardinality(A \cup B)
         = Cardinality(A) + Cardinality(B) - Cardinality(A \cap B)
  BY <1>1, <1>2, FS_Union
<1>7. Cardinality(A \cup B) = Cardinality(A) + of[q]
  BY <1>1, <1>2, <1>5, <1>6
<1> QED BY <1>4, <1>7 DEF A

(* Only the amounts of its rows matter to a sum.                           *)
LEMMA SumOfSame ==
    ASSUME NEW S, NEW of, NEW now, \A p \in S : of[p] = now[p]
    PROVE  Units(of, S) = Units(now, S)
BY DEF Units

----------------------------------------------------------------------------
(* Money.  A call that settles holds the event's advisory lock from before *)
(* it reads the balance until its row is in, so what was settled cannot    *)
(* grow in between, and what it is about to insert still fits.  A request  *)
(* holds no lock: what it is about to insert fits as long as no other      *)
(* request was inserted since its check, which would have overtaken it.    *)
(* No other step makes a payout pending.                                   *)
Waiting == With({"pending"})

SettleInv ==
    /\ bySettle \subseteq Rows
    /\ \A c \in Calls : pc[c] \in {"sum", "settle"} => eventLock = c
    /\ \A c \in Calls : pc[c] = "settle" => Sum(bySettle) + bal[c] <= peak
    /\ SettledOnce

RequestInv ==
    /\ \A c \in Calls : pc[c] = "balance" => bal[c] <= peak
    /\ \A c \in Calls :
          pc[c] = "insert" /\ ~overtaken[c] /\ ~crowded =>
              bal[c] + Sum(Waiting) <= peak
    /\ PendingFitsUnlessCrowded

MoneyInv ==
    /\ MoneyTypeOK
    /\ IsFiniteSet(Rows)
    /\ sales <= peak
    /\ SettleInv
    /\ RequestInv

(* Nothing is sold, requested or settled at the start.                     *)
LEMMA InitMoneyInv == Init => MoneyInv
<1> SUFFICES ASSUME Init PROVE MoneyInv
  OBVIOUS
<1> USE PayoutAssumption DEF Init
<1>0. MaxSales \in Nat /\ 0 \in 0..MaxSales
  BY PayoutAssumption
<1>1. Rows = {} /\ Waiting = {} /\ bySettle = {}
  BY DEF Rows, Waiting, With
<1>2. Sum({}) = 0
  <2>1. Units(amount, {}) = {}
    BY DEF Units
  <2> QED BY <2>1, FS_EmptySet DEF Sum
<1>3. MoneyTypeOK /\ IsFiniteSet(Rows) /\ sales <= peak
  <2>1. IsFiniteSet(Rows)
    BY <1>1, FS_EmptySet
  <2>2. crowded \in BOOLEAN /\ bySettle \subseteq Payouts
    OBVIOUS
  <2>3. sales = 0 /\ peak = 0 /\ sales <= peak
    OBVIOUS
  <2>4. /\ amount \in [Payouts -> 0..MaxSales]
        /\ bal \in [Calls -> 0..MaxSales]
    BY <1>0
  <2> QED BY <1>0, <2>1, <2>2, <2>3, <2>4 DEF MoneyTypeOK
<1>4. SettleInv
  BY <1>1, <1>2 DEF SettleInv, SettledOnce
<1>5. RequestInv
  <2>1. Sum(With({"pending"})) = 0
    BY <1>1, <1>2 DEF Waiting
  <2>2. /\ \A c \in Calls : pc[c] = "idle"
        /\ peak = 0
    OBVIOUS
  <2> HIDE DEF Init
  <2> QED
    BY <2>1, <2>2 DEF RequestInv, PendingFitsUnlessCrowded
<1> QED BY <1>3, <1>4, <1>5 DEF MoneyInv

(* The sums the invariant is about are natural numbers.                    *)
LEMMA SumsAreNat ==
    ASSUME MoneyInv
    PROVE  /\ IsFiniteSet(bySettle) /\ IsFiniteSet(Waiting)
           /\ Sum(bySettle) \in Nat
           /\ Sum(Waiting) \in Nat
           /\ Sum(With(countedPayouts)) \in Nat
           /\ Sum(Rows) \in Nat
           /\ Sum(bySettle) <= Sum(Rows)
           /\ Sum(Waiting) <= Sum(With(countedPayouts))
<1>1. IsFiniteSet(Rows) /\ \A p \in Rows : amount[p] \in 0..MaxSales
  BY DEF MoneyInv, MoneyTypeOK, Rows
<1>2. /\ bySettle \in SUBSET Rows /\ Waiting \in SUBSET With(countedPayouts)
      /\ With(countedPayouts) \in SUBSET Rows
  BY DEF MoneyInv, SettleInv, Waiting, With, countedPayouts, Rows
<1>3. IsFiniteSet(bySettle) /\ IsFiniteSet(Waiting)
        /\ IsFiniteSet(With(countedPayouts))
  BY <1>1, <1>2, FS_Subset
<1>4. MaxSales \in Nat
  BY PayoutAssumption
<1>5. /\ \A p \in bySettle : amount[p] \in 0..MaxSales
      /\ \A p \in Waiting : amount[p] \in 0..MaxSales
      /\ \A p \in With(countedPayouts) : amount[p] \in 0..MaxSales
  BY <1>1, <1>2
<1>6. Sum(bySettle) \in Nat /\ Sum(Waiting) \in Nat
        /\ Sum(With(countedPayouts)) \in Nat /\ Sum(Rows) \in Nat
  BY <1>1, <1>3, <1>4, <1>5, SumType DEF Sum
<1>7. Sum(bySettle) <= Sum(Rows)
  BY <1>1, <1>2, <1>4, SumOfPart DEF Sum
<1>8. Sum(Waiting) <= Sum(With(countedPayouts))
  BY <1>2, <1>3, <1>4, <1>5, SumOfPart DEF Sum
<1> QED BY <1>3, <1>6, <1>7, <1>8

(* Steps that leave the money alone: the rows stay, with their amounts,    *)
(* none becomes pending, and the calls that pay go on or end.              *)
MoneyStays ==
    /\ UNCHANGED <<sales, amount, bySettle, peak, crowded>>
    /\ Rows' = Rows
    /\ Waiting' \subseteq Waiting
    /\ bal' \in [Calls -> 0..MaxSales]
    /\ \A d \in Calls : pc'[d] \in {"balance", "insert", "sum", "settle"} =>
          /\ pc'[d] = pc[d]
          /\ bal'[d] = bal[d]
          /\ overtaken[d] => overtaken'[d]
          /\ eventLock = d => eventLock' = d

(* Those steps preserve the invariant.                                     *)
LEMMA MoneyStaysFine == MoneyInv /\ MoneyStays => MoneyInv'
<1> SUFFICES ASSUME MoneyInv, MoneyStays PROVE MoneyInv'
  OBVIOUS
<1>1. MoneyTypeOK' /\ IsFiniteSet(Rows)' /\ (sales <= peak)'
  BY DEF MoneyInv, MoneyTypeOK, MoneyStays
<1>2. Sum(bySettle)' = Sum(bySettle)
  BY DEF MoneyStays, Sum
<1>3. Sum(Waiting)' \in Nat /\ Sum(Waiting)' <= Sum(Waiting)
  <2>1. IsFiniteSet(Waiting) /\ Waiting' \in SUBSET Waiting
    BY SumsAreNat DEF MoneyStays
  <2>2. \A p \in Waiting : amount[p] \in 0..MaxSales
    BY DEF MoneyInv, MoneyTypeOK, Waiting, With
  <2>3. IsFiniteSet(Waiting')
    BY <2>1, FS_Subset
  <2>4. MaxSales \in Nat /\ \A p \in Waiting' : amount[p] \in 0..MaxSales
    BY <2>1, <2>2, PayoutAssumption
  <2>5. Sum(Waiting)' = Cardinality(Units(amount, Waiting'))
    BY DEF MoneyStays, Sum
  <2>6. Cardinality(Units(amount, Waiting')) \in Nat
    BY <2>3, <2>4, SumType
  <2>7. Cardinality(Units(amount, Waiting')) <= Cardinality(Units(amount, Waiting))
    BY <2>1, <2>2, <2>4, SumOfPart
  <2> QED BY <2>5, <2>6, <2>7 DEF Sum
<1>4. SettleInv'
  BY <1>2 DEF MoneyInv, SettleInv, SettledOnce, MoneyStays
<1>5. RequestInv'
  <2>1. \A c \in Calls : pc'[c] = "balance" => bal'[c] <= peak'
    BY DEF MoneyInv, RequestInv, MoneyStays
  <2>2. /\ Sum(Waiting) \in Nat /\ peak \in Nat /\ peak' = peak
        /\ crowded' = crowded
    BY SumsAreNat, PayoutAssumption DEF MoneyInv, MoneyTypeOK, MoneyStays
  <2>3. ASSUME NEW c \in Calls, pc'[c] = "insert", ~overtaken'[c], ~crowded'
        PROVE  bal'[c] + Sum(Waiting)' <= peak'
    <3>1. pc[c] = "insert" /\ bal'[c] = bal[c] /\ ~overtaken[c] /\ ~crowded
      BY <2>3 DEF MoneyStays
    <3>2. bal[c] + Sum(Waiting) <= peak /\ bal[c] \in Nat
      BY <3>1, PayoutAssumption DEF MoneyInv, RequestInv, MoneyTypeOK
    <3> QED BY <1>3, <2>2, <3>1, <3>2
  <2>4. PendingFitsUnlessCrowded'
    BY <1>3, <2>2
       DEF MoneyInv, RequestInv, PendingFitsUnlessCrowded, Waiting
  <2> QED BY <2>1, <2>3, <2>4 DEF RequestInv
<1> QED BY <1>1, <1>4, <1>5 DEF MoneyInv

(* A call that ends does nothing to the money: it is not at a step that    *)
(* pays any more, and the lock it gives up was its own.                    *)
LEMMA EndStays ==
    ASSUME Inv, MoneyInv, NEW c \in Calls, NEW others, EndOver(c, others)
    PROVE  /\ bal' \in [Calls -> 0..MaxSales]
           /\ \A d \in Calls :
                 pc'[d] \in {"balance", "insert", "sum", "settle"} =>
                    /\ d # c
                    /\ pc'[d] = pc[d]
                    /\ bal'[d] = bal[d]
                    /\ overtaken[d] \/ d \in others <=> overtaken'[d]
                    /\ eventLock = d => eventLock' = d
<1>1. 0 \in 0..MaxSales
  BY PayoutAssumption
<1> QED
  BY <1>1 DEF Inv, ReviewTypeOK, MoneyInv, MoneyTypeOK, EndOver, Go

(* A row that is inserted was no row before, and is one now, with the      *)
(* amount given; the other rows stay as they are.                          *)
LEMMA InsertedRow ==
    ASSUME Inv, MoneyInv, NEW p \in Payouts, NEW sum \in 0..MaxSales,
           NEW to \in {"pending", "processed", "failed"}, Insert(p, sum, to)
    PROVE  /\ p \notin Rows /\ Rows' = Rows \cup {p} /\ IsFiniteSet(Rows')
           /\ amount' \in [Payouts -> 0..MaxSales]
           /\ amount'[p] = sum
           /\ \A q \in Rows : amount'[q] = amount[q]
           /\ p \notin Waiting
           /\ Waiting' = IF to = "pending" THEN Waiting \cup {p} ELSE Waiting
<1> USE DEF Inv, ReviewTypeOK, MoneyInv, MoneyTypeOK, Insert
<1>1. p \notin Rows /\ Rows' = Rows \cup {p}
  BY DEF Rows
<1>2. IsFiniteSet(Rows')
  BY <1>1, FS_AddElement
<1>3. /\ amount' \in [Payouts -> 0..MaxSales]
      /\ amount'[p] = sum
      /\ \A q \in Rows : amount'[q] = amount[q]
  BY DEF Rows
<1>4. /\ p \notin Waiting
      /\ Waiting' = IF to = "pending" THEN Waiting \cup {p} ELSE Waiting
  BY DEF Rows, Waiting, With
<1> QED BY <1>1, <1>2, <1>3, <1>4

(* Sums after an insertion: those without the new row stay, and the new    *)
(* row adds its amount to a set it joins.                                  *)
LEMMA SumAfterInsert ==
    ASSUME Inv, MoneyInv, NEW p \in Payouts, NEW sum \in 0..MaxSales,
           NEW to \in {"pending", "processed", "failed"}, Insert(p, sum, to),
           NEW S \in SUBSET Rows
    PROVE  /\ Cardinality(Units(amount', S)) = Sum(S)
           /\ Cardinality(Units(amount', S \cup {p})) = Sum(S) + sum
<1>1. /\ p \notin Rows
      /\ amount' \in [Payouts -> 0..MaxSales]
      /\ amount'[p] = sum
      /\ \A q \in Rows : amount'[q] = amount[q]
  BY InsertedRow
<1>2. IsFiniteSet(S) /\ MaxSales \in Nat
  BY FS_Subset, PayoutAssumption DEF MoneyInv
<1>3. Units(amount', S) = Units(amount, S)
  BY <1>1, SumOfSame
<1>4. p \notin S /\ \A q \in S : amount'[q] \in 0..MaxSales
  BY <1>1 DEF Rows
<1>5. Cardinality(Units(amount', S \cup {p}))
         = Cardinality(Units(amount', S)) + amount'[p]
  BY <1>1, <1>2, <1>4, SumOfOneMore
<1> QED BY <1>1, <1>3, <1>5 DEF Sum

(* Orders are paid or their payment is undone; the peak only rises.        *)
LEMMA SalesChangeMoney ==
    ASSUME Inv, MoneyInv, SalesChange PROVE MoneyInv'
<1>1. /\ sales' \in 0..MaxSales /\ peak' \in 0..MaxSales
      /\ sales' <= peak' /\ peak <= peak'
  BY PayoutAssumption DEF MoneyInv, MoneyTypeOK, SalesChange
<1>2. UNCHANGED <<amount, status, bal, bySettle, crowded, eventLock, pc,
                  overtaken>>
  BY DEF SalesChange, ledger, locks, local
<1>3. Rows' = Rows /\ Waiting' = Waiting
  BY <1>2 DEF Rows, Waiting, With
<1>4. MoneyTypeOK' /\ IsFiniteSet(Rows)'
  BY <1>1, <1>2, <1>3 DEF MoneyInv, MoneyTypeOK
<1>5. Sum(bySettle)' = Sum(bySettle) /\ Sum(Waiting)' = Sum(Waiting)
  BY <1>2, <1>3 DEF Sum
<1>6. /\ Sum(bySettle) \in Nat /\ Sum(Waiting) \in Nat
      /\ peak \in Nat /\ peak' \in Nat /\ \A c \in Calls : bal[c] \in Nat
  BY <1>1, SumsAreNat, PayoutAssumption DEF MoneyInv, MoneyTypeOK
<1>7. SettleInv'
  BY <1>1, <1>2, <1>3, <1>5, <1>6 DEF MoneyInv, SettleInv, SettledOnce
<1>8. RequestInv'
  <2>1. \A c \in Calls : pc'[c] = "balance" => bal'[c] <= peak'
    BY <1>1, <1>2, <1>6 DEF MoneyInv, RequestInv
  <2>2. \A c \in Calls :
           pc'[c] = "insert" /\ ~overtaken'[c] /\ ~crowded' =>
               bal'[c] + Sum(Waiting)' <= peak'
    BY <1>1, <1>2, <1>5, <1>6 DEF MoneyInv, RequestInv
  <2>3. PendingFitsUnlessCrowded'
    BY <1>1, <1>2, <1>5, <1>6
       DEF MoneyInv, RequestInv, PendingFitsUnlessCrowded, Waiting
  <2> QED BY <2>1, <2>2, <2>3 DEF RequestInv
<1> QED BY <1>1, <1>4, <1>7, <1>8 DEF MoneyInv

(* The first read of a request sees no more than the peak.                 *)
LEMMA ReadSalesMoney ==
    ASSUME Inv, MoneyInv, NEW c \in Calls, ReadSales(c) PROVE MoneyInv'
<1>1. /\ UNCHANGED <<sales, amount, status, eventLock, overtaken, bySettle,
                     peak, crowded>>
      /\ bal' = [bal EXCEPT ![c] = sales]
      /\ pc' = [pc EXCEPT ![c] = "balance"]
  BY DEF ReadSales, Start, ledger, locks, history
<1>2. Rows' = Rows /\ Waiting' = Waiting
  BY <1>1 DEF Rows, Waiting, With
<1>3. MoneyTypeOK' /\ IsFiniteSet(Rows)' /\ (sales <= peak)'
  BY <1>1, <1>2 DEF MoneyInv, MoneyTypeOK
<1>4. Sum(bySettle)' = Sum(bySettle) /\ Sum(Waiting)' = Sum(Waiting)
  BY <1>1, <1>2 DEF Sum
<1>5. \A d \in Calls :
         /\ d # c => pc'[d] = pc[d] /\ bal'[d] = bal[d]
         /\ d = c => pc'[d] = "balance" /\ bal'[d] = sales
  BY <1>1 DEF Inv, ReviewTypeOK, MoneyInv, MoneyTypeOK
<1>6. SettleInv'
  BY <1>1, <1>2, <1>4, <1>5 DEF MoneyInv, SettleInv, SettledOnce
<1>7. RequestInv'
  <2>1. PendingFitsUnlessCrowded'
    BY <1>1, <1>4
       DEF MoneyInv, RequestInv, PendingFitsUnlessCrowded, Waiting
  <2> QED BY <2>1, <1>1, <1>4, <1>5 DEF MoneyInv, RequestInv
<1> QED BY <1>3, <1>6, <1>7 DEF MoneyInv

(* A request that passes the balance check fits next to those waiting.     *)
LEMMA ReadBalanceMoney ==
    ASSUME Inv, MoneyInv, NEW c \in Calls, NEW requested \in 1..MaxSales,
           ReadBalance(c, requested), ~End(c)
    PROVE  MoneyInv'
<1>1. /\ UNCHANGED <<sales, amount, status, eventLock, overtaken, bySettle,
                     peak, crowded>>
      /\ pc[c] = "balance"
      /\ ~(requested > bal[c] - Sum(With(countedPayouts)))
      /\ bal' = [bal EXCEPT ![c] = requested]
      /\ pc' = [pc EXCEPT ![c] = "insert"]
  BY DEF ReadBalance, Go, ledger, locks, history
<1>2. Rows' = Rows /\ Waiting' = Waiting
  BY <1>1 DEF Rows, Waiting, With
<1>3. MoneyTypeOK' /\ IsFiniteSet(Rows)' /\ (sales <= peak)'
  BY <1>1, <1>2, PayoutAssumption DEF MoneyInv, MoneyTypeOK
<1>4. Sum(bySettle)' = Sum(bySettle) /\ Sum(Waiting)' = Sum(Waiting)
  BY <1>1, <1>2 DEF Sum
<1>5. \A d \in Calls :
         /\ d # c => pc'[d] = pc[d] /\ bal'[d] = bal[d]
         /\ d = c => pc'[d] = "insert" /\ bal'[d] = requested
  BY <1>1 DEF Inv, ReviewTypeOK, MoneyInv, MoneyTypeOK
<1>6. requested + Sum(Waiting) <= peak
  <2>1. bal[c] \in Nat /\ bal[c] <= peak /\ peak \in Nat
    BY <1>1, PayoutAssumption DEF MoneyInv, MoneyTypeOK, RequestInv
  <2>2. /\ Sum(Waiting) \in Nat /\ Sum(With(countedPayouts)) \in Nat
        /\ Sum(Waiting) <= Sum(With(countedPayouts))
    BY SumsAreNat
  <2> QED BY <1>1, <2>1, <2>2
<1>7. SettleInv'
  BY <1>1, <1>2, <1>4, <1>5 DEF MoneyInv, SettleInv, SettledOnce
<1>8. RequestInv'
  <2>1. PendingFitsUnlessCrowded'
    BY <1>1, <1>4
       DEF MoneyInv, RequestInv, PendingFitsUnlessCrowded, Waiting
  <2>2. \A d \in Calls : pc'[d] = "balance" => bal'[d] <= peak'
    BY <1>1, <1>5 DEF MoneyInv, RequestInv
  <2>3. \A d \in Calls :
           pc'[d] = "insert" /\ ~overtaken'[d] /\ ~crowded' =>
               bal'[d] + Sum(Waiting)' <= peak'
    BY <1>1, <1>4, <1>5, <1>6 DEF MoneyInv, RequestInv
  <2> QED BY <2>1, <2>2, <2>3 DEF RequestInv
<1> QED BY <1>3, <1>7, <1>8 DEF MoneyInv

(* The row of a request fits, unless the request was overtaken, and        *)
(* overtakes every other that has been checked.                            *)
LEMMA InsertRequestMoney ==
    ASSUME Inv, MoneyInv, NEW c \in Calls, NEW p \in Payouts,
           InsertRequest(c, p)
    PROVE  MoneyInv'
<1>1. /\ UNCHANGED <<sales, bySettle, peak>>
      /\ pc[c] = "insert"
      /\ Insert(p, bal[c], "pending")
      /\ EndOver(c, At("insert"))
      /\ crowded' = (crowded \/ overtaken[c])
  BY DEF InsertRequest
<1>2. bal[c] \in 0..MaxSales /\ bal[c] \in Nat /\ peak \in Nat
  BY PayoutAssumption DEF MoneyInv, MoneyTypeOK
<1>3. /\ p \notin Rows /\ Rows' = Rows \cup {p} /\ IsFiniteSet(Rows')
      /\ amount' \in [Payouts -> 0..MaxSales]
      /\ Waiting' = Waiting \cup {p}
  BY <1>1, <1>2, InsertedRow
<1>4. /\ bal' \in [Calls -> 0..MaxSales]
      /\ \A d \in Calls : pc'[d] \in {"balance", "insert", "sum", "settle"} =>
            /\ pc'[d] = pc[d]
            /\ bal'[d] = bal[d]
            /\ overtaken[d] \/ d \in At("insert") <=> overtaken'[d]
            /\ eventLock = d => eventLock' = d
  BY <1>1, EndStays
<1>5. crowded' \in BOOLEAN
  BY <1>1 DEF MoneyInv, MoneyTypeOK, Inv, ReviewTypeOK
<1>6. MoneyTypeOK' /\ (sales <= peak)'
  BY <1>1, <1>3, <1>4, <1>5 DEF MoneyInv, MoneyTypeOK
<1>7. bySettle \in SUBSET Rows /\ Waiting \in SUBSET Rows
  BY DEF MoneyInv, SettleInv, Waiting, With, Rows
<1>8. Sum(bySettle)' = Sum(bySettle) /\ Sum(Waiting)' = Sum(Waiting) + bal[c]
  <2>1. Cardinality(Units(amount', bySettle)) = Sum(bySettle)
    BY <1>1, <1>2, <1>7, SumAfterInsert
  <2>2. Cardinality(Units(amount', Waiting \cup {p})) = Sum(Waiting) + bal[c]
    BY <1>1, <1>2, <1>7, SumAfterInsert
  <2> QED BY <1>1, <1>3, <2>1, <2>2 DEF Sum
<1>9. SettleInv'
  BY <1>1, <1>3, <1>4, <1>8 DEF MoneyInv, SettleInv, SettledOnce
<1>10. RequestInv'
  <2>1. \A d \in Calls : pc'[d] = "balance" => bal'[d] <= peak'
    BY <1>1, <1>4 DEF MoneyInv, RequestInv
  <2>2. \A d \in Calls : pc'[d] = "insert" => overtaken'[d]
    BY <1>4 DEF At
  <2>3. ~crowded' => Sum(Waiting)' <= peak'
    <3>1. SUFFICES ASSUME ~crowded' PROVE Sum(Waiting)' <= peak'
      OBVIOUS
    <3>2. ~crowded /\ ~overtaken[c]
      BY <1>1, <3>1
    <3>3. bal[c] + Sum(Waiting) <= peak
      BY <1>1, <3>2 DEF MoneyInv, RequestInv
    <3>4. Sum(Waiting) \in Nat
      BY SumsAreNat
    <3> QED BY <1>1, <1>2, <1>8, <3>3, <3>4
  <2> QED BY <2>1, <2>2, <2>3
          DEF RequestInv, PendingFitsUnlessCrowded, Waiting
<1> QED BY <1>3, <1>6, <1>9, <1>10 DEF MoneyInv

(* Whoever starts to settle gets the lock first, and nobody else has it.   *)
LEMMA LockEventMoney ==
    ASSUME Inv, MoneyInv, NEW c \in Calls, LockEvent(c) PROVE MoneyInv'
<1>1. /\ UNCHANGED <<sales, amount, status, bal, overtaken, bySettle, peak,
                     crowded>>
      /\ eventLock = None /\ eventLock' = c
      /\ pc' = [pc EXCEPT ![c] = "sum"]
  BY DEF LockEvent, Start, ledger, local, history
<1>2. Rows' = Rows /\ Waiting' = Waiting
  BY <1>1 DEF Rows, Waiting, With
<1>3. MoneyTypeOK' /\ IsFiniteSet(Rows)' /\ (sales <= peak)'
  BY <1>1, <1>2 DEF MoneyInv, MoneyTypeOK
<1>4. Sum(bySettle)' = Sum(bySettle) /\ Sum(Waiting)' = Sum(Waiting)
  BY <1>1, <1>2 DEF Sum
<1>5. \A d \in Calls :
         /\ d # c => pc'[d] = pc[d]
         /\ d = c => pc'[d] = "sum"
  BY <1>1 DEF Inv, ReviewTypeOK
<1>6. \A d \in Calls : pc[d] \notin {"sum", "settle"}
  BY <1>1, PayoutAssumption DEF MoneyInv, SettleInv
<1>7. SettleInv'
  BY <1>1, <1>2, <1>4, <1>5, <1>6 DEF MoneyInv, SettleInv, SettledOnce
<1>8. RequestInv'
  <2>1. PendingFitsUnlessCrowded'
    BY <1>1, <1>4
       DEF MoneyInv, RequestInv, PendingFitsUnlessCrowded, Waiting
  <2> QED BY <2>1, <1>1, <1>4, <1>5 DEF MoneyInv, RequestInv
<1> QED BY <1>3, <1>7, <1>8 DEF MoneyInv

(* What is outstanding fits next to what was settled: the sum over all     *)
(* rows counts every settled one.                                          *)
LEMMA SumOutstandingMoney ==
    ASSUME Inv, MoneyInv, NEW c \in Calls, SumOutstanding(c), ~End(c)
    PROVE  MoneyInv'
<1> DEFINE outstanding == sales - Sum(Rows)
<1>1. /\ UNCHANGED <<sales, amount, status, eventLock, overtaken, bySettle,
                     peak, crowded>>
      /\ pc[c] = "sum"
      /\ ~(outstanding <= 0)
      /\ bal' = [bal EXCEPT ![c] = outstanding]
      /\ pc' = [pc EXCEPT ![c] = "settle"]
  BY DEF SumOutstanding, Go, ledger, locks, history
<1>2. Rows' = Rows /\ Waiting' = Waiting
  BY <1>1 DEF Rows, Waiting, With
<1>3. /\ outstanding \in 0..MaxSales
      /\ Sum(bySettle) + outstanding <= peak
  <2>1. sales \in 0..MaxSales /\ peak \in Nat /\ sales <= peak /\ MaxSales \in Nat
    BY PayoutAssumption DEF MoneyInv, MoneyTypeOK
  <2>2. Sum(Rows) \in Nat /\ Sum(bySettle) \in Nat /\ Sum(bySettle) <= Sum(Rows)
    BY SumsAreNat
  <2> QED BY <1>1, <2>1, <2>2
<1> HIDE DEF outstanding
<1>4. MoneyTypeOK' /\ IsFiniteSet(Rows)' /\ (sales <= peak)'
  BY <1>1, <1>2, <1>3 DEF MoneyInv, MoneyTypeOK
<1>5. Sum(bySettle)' = Sum(bySettle) /\ Sum(Waiting)' = Sum(Waiting)
  BY <1>1, <1>2 DEF Sum
<1>6. \A d \in Calls :
         /\ d # c => pc'[d] = pc[d] /\ bal'[d] = bal[d]
         /\ d = c => pc'[d] = "settle" /\ bal'[d] = outstanding
  BY <1>1 DEF Inv, ReviewTypeOK, MoneyInv, MoneyTypeOK
<1>7. SettleInv'
  BY <1>1, <1>2, <1>3, <1>5, <1>6 DEF MoneyInv, SettleInv, SettledOnce
<1>8. RequestInv'
  <2>1. PendingFitsUnlessCrowded'
    BY <1>1, <1>5
       DEF MoneyInv, RequestInv, PendingFitsUnlessCrowded, Waiting
  <2> QED BY <2>1, <1>1, <1>5, <1>6 DEF MoneyInv, RequestInv
<1> QED BY <1>4, <1>7, <1>8 DEF MoneyInv

(* The settled row fits, and no other call is settling.                    *)
LEMMA InsertSettledMoney ==
    ASSUME Inv, MoneyInv, NEW c \in Calls, NEW p \in Payouts,
           NEW to \in decisions, InsertSettled(c, p, to)
    PROVE  MoneyInv'
<1>1. /\ UNCHANGED <<sales, peak, crowded>>
      /\ pc[c] = "settle"
      /\ Insert(p, bal[c], to)
      /\ EndOver(c, {})
      /\ bySettle' = bySettle \cup {p}
      /\ to \in {"pending", "processed", "failed"} /\ to # "pending"
  BY DEF InsertSettled, End, decisions
<1>2. bal[c] \in 0..MaxSales
  BY DEF MoneyInv, MoneyTypeOK
<1>3. /\ p \notin Rows /\ Rows' = Rows \cup {p} /\ IsFiniteSet(Rows')
      /\ amount' \in [Payouts -> 0..MaxSales]
      /\ Waiting' = Waiting
  BY <1>1, <1>2, InsertedRow
<1>4. /\ bal' \in [Calls -> 0..MaxSales]
      /\ \A d \in Calls : pc'[d] \in {"balance", "insert", "sum", "settle"} =>
            /\ d # c
            /\ pc'[d] = pc[d]
            /\ bal'[d] = bal[d]
            /\ overtaken[d] \/ d \in {} <=> overtaken'[d]
            /\ eventLock = d => eventLock' = d
  BY <1>1, EndStays
<1>5. MoneyTypeOK' /\ (sales <= peak)'
  BY <1>1, <1>3, <1>4 DEF MoneyInv, MoneyTypeOK
<1>6. bySettle \in SUBSET Rows /\ Waiting \in SUBSET Rows
  BY DEF MoneyInv, SettleInv, Waiting, With, Rows
<1>7. Sum(bySettle)' = Sum(bySettle) + bal[c] /\ Sum(Waiting)' = Sum(Waiting)
  <2>1. Cardinality(Units(amount', Waiting)) = Sum(Waiting)
    BY <1>1, <1>2, <1>6, SumAfterInsert
  <2>2. Cardinality(Units(amount', bySettle \cup {p})) = Sum(bySettle) + bal[c]
    BY <1>1, <1>2, <1>6, SumAfterInsert
  <2> QED BY <1>1, <1>3, <2>1, <2>2 DEF Sum
<1>8. \A d \in Calls : pc'[d] \notin {"sum", "settle"}
  BY <1>1, <1>4 DEF MoneyInv, SettleInv
<1>9. SettleInv'
  <2>1. Sum(bySettle)' <= peak'
    BY <1>1, <1>7 DEF MoneyInv, SettleInv
  <2> QED BY <1>1, <1>3, <1>6, <1>8, <2>1 DEF SettleInv, SettledOnce
<1>10. RequestInv'
  <2>1. PendingFitsUnlessCrowded'
    BY <1>1, <1>7
       DEF MoneyInv, RequestInv, PendingFitsUnlessCrowded, Waiting
  <2> QED BY <2>1, <1>1, <1>4, <1>7 DEF MoneyInv, RequestInv
<1> QED BY <1>3, <1>5, <1>9, <1>10 DEF MoneyInv

(* Every other step leaves the money alone: the organizer's events, what   *)
(* the auditor and the admin who retries do, the account, and failures.    *)
LEMMA OthersStay ==
    ASSUME Inv, CheckInv, MoneyInv,
           \/ EventsChange \/ AuditApplication
           \/ \E p \in Payouts, to \in Statuses : Retry(p, to) \/ Decide(p, to)
           \/ \E c \in Calls : \/ Audit(c) \/ EditDetails(c)
                              \/ EditApplication(c) \/ Fail(c)
           \/ UNCHANGED vars
    PROVE  MoneyStays
<1> USE DEF MoneyStays, Rows, Waiting, With, ledger, review, bank, locks,
            local, history
<1>1. CASE EventsChange \/ AuditApplication \/ UNCHANGED vars
  BY <1>1 DEF MoneyInv, MoneyTypeOK, EventsChange, AuditApplication, vars
<1>2. ASSUME NEW p \in Payouts, NEW to \in Statuses, Retry(p, to)
      PROVE  MoneyStays
  BY <1>2 DEF MoneyInv, MoneyTypeOK, Inv, ReviewTypeOK, Retry, SetStatus,
              decisions
<1>3. ASSUME NEW p \in Payouts, NEW to \in Statuses, Decide(p, to)
      PROVE  MoneyStays
  BY <1>3 DEF MoneyInv, MoneyTypeOK, Inv, ReviewTypeOK, Decide, SetStatus
<1>4. ASSUME NEW c \in Calls, NEW others, EndOver(c, others),
             UNCHANGED <<sales, amount, bySettle, peak, crowded>>,
             Rows' = Rows, Waiting' \subseteq Waiting
      PROVE  MoneyStays
  <2>1. /\ bal' \in [Calls -> 0..MaxSales]
        /\ \A d \in Calls :
              pc'[d] \in {"balance", "insert", "sum", "settle"} =>
                 /\ d # c
                 /\ pc'[d] = pc[d]
                 /\ bal'[d] = bal[d]
                 /\ overtaken[d] \/ d \in others <=> overtaken'[d]
                 /\ eventLock = d => eventLock' = d
    BY <1>4, EndStays
  <2> QED BY <1>4, <2>1 DEF MoneyStays
<1>5. ASSUME NEW c \in Calls, NEW p \in Payouts,
             LockForCheck(c, p) \/ ReadChecks(c, p)
      PROVE  MoneyStays
  BY <1>5 DEF MoneyInv, MoneyTypeOK, Inv, ReviewTypeOK, LockForCheck,
              ReadChecks, Start
<1>6. ASSUME NEW c \in Calls, NEW item \in Items, NEW checked \in BOOLEAN,
             UpdateCheck(c, item, checked)
      PROVE  MoneyStays
  BY <1>4, <1>6 DEF UpdateCheck
<1>7. ASSUME NEW c \in Calls, Approve(c) PROVE MoneyStays
  <2>1. pay[c] \in Payouts /\ status[pay[c]] # "none"
    BY <1>7 DEF Inv, ReviewTypeOK, CheckInv, Approve
  <2> QED BY <1>4, <1>7, <2>1 DEF Inv, ReviewTypeOK, Approve, SetStatus, End
<1>8. ASSUME NEW c \in Calls,
             ShowAccount(c) \/ ReadAccount(c) \/ ReadApplication(c)
      PROVE  MoneyStays
  BY <1>8 DEF MoneyInv, MoneyTypeOK, Inv, ReviewTypeOK, ShowAccount,
              ReadAccount, ReadApplication, Start
<1>9. ASSUME NEW c \in Calls, Compare(c) PROVE MoneyStays
  BY <1>4, <1>9 DEF MoneyInv, MoneyTypeOK, Inv, ReviewTypeOK, Compare, End, Go
<1>10. ASSUME NEW c \in Calls, Verify(c) PROVE MoneyStays
  BY <1>4, <1>10 DEF Verify, End
<1>11. ASSUME NEW c \in Calls, CountEvents(c) PROVE MoneyStays
  BY <1>4, <1>11
     DEF MoneyInv, MoneyTypeOK, Inv, ReviewTypeOK, CountEvents, End, Go
<1>12. ASSUME NEW c \in Calls, CountPayouts(c) PROVE MoneyStays
  BY <1>4, <1>12
     DEF MoneyInv, MoneyTypeOK, Inv, ReviewTypeOK, CountPayouts, End, Go
<1>13. ASSUME NEW c \in Calls, NEW number \in Accounts, Edit(c, number)
       PROVE  MoneyStays
  BY <1>4, <1>13 DEF Edit
<1>14. ASSUME NEW c \in Calls, Fail(c) PROVE MoneyStays
  BY <1>4, <1>14 DEF Fail, End
<1>15. ASSUME NEW c \in Calls, NEW number \in Accounts \cup {None},
              SaveApplication(c, number)
       PROVE  MoneyStays
  BY <1>4, <1>15 DEF SaveApplication
<1> QED
  BY <1>1, <1>2, <1>3, <1>5, <1>6, <1>7, <1>8, <1>9, <1>10, <1>11, <1>12,
     <1>13, <1>14, <1>15 DEF Audit, EditDetails, EditApplication

(* Every step preserves the invariant of the money.                        *)
LEMMA NextMoneyInv == Inv /\ CheckInv /\ MoneyInv /\ [Next]_vars => MoneyInv'
<1> SUFFICES ASSUME Inv, CheckInv, MoneyInv, [Next]_vars PROVE MoneyInv'
  OBVIOUS
<1>1. CASE SalesChange
  BY <1>1, SalesChangeMoney
<1>2. ASSUME NEW c \in Calls, Request(c) PROVE MoneyInv'
  <2>1. CASE ReadSales(c)
    BY <2>1, ReadSalesMoney
  <2>2. ASSUME NEW requested \in 1..MaxSales, ReadBalance(c, requested)
        PROVE  MoneyInv'
    <3>1. CASE End(c)
      <4>1. EndOver(c, {}) /\ UNCHANGED <<sales, ledger, review, history>>
        BY <2>2, <3>1 DEF ReadBalance, End
      <4>2. MoneyStays
        BY <4>1, EndStays
           DEF MoneyStays, Rows, Waiting, With, ledger, history
      <4> QED BY <4>2, MoneyStaysFine
    <3>2. CASE ~End(c)
      BY <2>2, <3>2, ReadBalanceMoney
    <3> QED BY <3>1, <3>2
  <2>3. ASSUME NEW p \in Payouts, InsertRequest(c, p) PROVE MoneyInv'
    BY <2>3, InsertRequestMoney
  <2> QED BY <1>2, <2>1, <2>2, <2>3 DEF Request
<1>3. ASSUME NEW c \in Calls, Settle(c) PROVE MoneyInv'
  <2>1. CASE LockEvent(c)
    BY <2>1, LockEventMoney
  <2>2. CASE SumOutstanding(c)
    <3>1. CASE End(c)
      <4>1. EndOver(c, {}) /\ UNCHANGED <<sales, ledger, review, history>>
        BY <2>2, <3>1 DEF SumOutstanding, End
      <4>2. MoneyStays
        BY <4>1, EndStays
           DEF MoneyStays, Rows, Waiting, With, ledger, history
      <4> QED BY <4>2, MoneyStaysFine
    <3>2. CASE ~End(c)
      BY <2>2, <3>2, SumOutstandingMoney
    <3> QED BY <3>1, <3>2
  <2>3. ASSUME NEW p \in Payouts, NEW to \in decisions, InsertSettled(c, p, to)
        PROVE  MoneyInv'
    BY <2>3, InsertSettledMoney
  <2> QED BY <1>3, <2>1, <2>2, <2>3 DEF Settle
<1>4. CASE \/ EventsChange \/ AuditApplication
           \/ \E p \in Payouts, to \in Statuses : Retry(p, to) \/ Decide(p, to)
           \/ \E c \in Calls : \/ Audit(c) \/ EditDetails(c)
                              \/ EditApplication(c) \/ Fail(c)
           \/ UNCHANGED vars
  <2>1. MoneyStays
    BY <1>4, OthersStay
  <2> QED BY <2>1, MoneyStaysFine
<1> QED BY <1>1, <1>2, <1>3, <1>4 DEF Next

(* The money is right in every reachable state.                            *)
LEMMA MoneyInvariant == Spec => [](Inv /\ MoneyInv)
<1>1. Spec => []MoneyInv
  BY AllInvariants, InitMoneyInv, NextMoneyInv, PTL DEF Spec
<1> QED BY <1>1, AllInvariants, PTL

(* However the admins' clicks interleave with each other, with requests,   *)
(* with late notifications and with failures, what was settled for an      *)
(* event never adds up to more than was sold, for any number of payouts,   *)
(* calls and sales.                                                        *)
THEOREM SettledAtMostOnce == Spec => []SettledOnce
<1>1. MoneyInv => SettledOnce
  BY DEF MoneyInv, SettleInv
<1> QED BY <1>1, MoneyInvariant, PTL

(* The requests waiting add up to more than was sold only if two of them   *)
(* were checked before either was inserted.                                *)
THEOREM PendingFits == Spec => []PendingFitsUnlessCrowded
<1>1. MoneyInv => PendingFitsUnlessCrowded
  BY DEF MoneyInv, RequestInv
<1> QED BY <1>1, MoneyInvariant, PTL

(* Every variable keeps its type, the money included: no amount that a     *)
(* call read or inserted is ever negative or above MaxSales.               *)
THEOREM TypeCorrect == Spec => []TypeOK
<1>1. Inv /\ MoneyInv => TypeOK
  BY DEF Inv, MoneyInv, TypeOK
<1> QED BY <1>1, MoneyInvariant, PTL
=============================================================================
