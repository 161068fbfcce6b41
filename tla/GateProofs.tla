----------------------------- MODULE GateProofs -----------------------------
(***************************************************************************)
(* Theorems about Gate, for any number of tickets, scans and devices and   *)
(* with every fault: used tickets are the recorded ones, every VALID       *)
(* answer has its record, and a second admission needs overlapping scans.  *)
(***************************************************************************)
EXTENDS Gate, TLAPS

(* Counting facts about the records of a ticket: the numbers, and that     *)
(* they agree with the tickets marked used and cover the VALID answers.    *)
RecordInv ==
    /\ used \subseteq Tickets
    /\ checkins \in [Tickets -> Nat]
    /\ admitted \in [Tickets -> Nat]
    /\ UsedIsRecorded
    /\ AdmissionsAreRecorded

(* The initial state has the types. *)
LEMMA InitTypeOK == Init => TypeOK
  BY GateAssumption DEF Init, TypeOK, Steps

(* No step leaves the types. *)
LEMMA NextTypeOK == TypeOK /\ [Next]_vars => TypeOK'
  <1> SUFFICES ASSUME TypeOK, [Next]_vars PROVE TypeOK'
    OBVIOUS
  <1> USE GateAssumption
      DEF TypeOK, Steps, Go, Fault, database, staff, scan, history
  <1>1. ASSUME NEW s \in Scans, NEW k \in Tickets, NEW d \in Devices \cup {None},
               NEW e \in {"app", "console"}, Present(s, k, d, e)
        PROVE  TypeOK'
    BY <1>1 DEF Present
  <1>2. ASSUME NEW s \in Scans, ReadTicket(s) PROVE TypeOK'
    BY <1>2 DEF ReadTicket
  <1>3. ASSUME NEW s \in Scans, MarkUsed(s) PROVE TypeOK'
    BY <1>3 DEF MarkUsed
  <1>4. ASSUME NEW s \in Scans, RecordCheckin(s) \/ CallFails(s) PROVE TypeOK'
    <2>1. \E x \in {"record", "commit", "refused"} :
             /\ pc' = [pc EXCEPT ![s] = x]
             /\ rowLock' = IF x = "refused" THEN Unlocked(s) ELSE rowLock
      BY <1>4 DEF RecordCheckin, CallFails, StatementFails, RolledBack
    <2>2. UNCHANGED <<used, checkins, devices, gated, via, tkt, dev, gate,
                     admitted, raced>>
      BY <1>4 DEF RecordCheckin, CallFails
    <2>3. pc[s] # "idle" /\ faults' \in Nat
      BY <1>4 DEF RecordCheckin, CallFails
    <2>4. aborted' \in [Scans -> BOOLEAN]
      BY <1>4 DEF RecordCheckin, CallFails, StatementFails, RolledBack
    <2>5. rowLock' \in [Tickets -> Scans \cup {None}]
      BY <2>1 DEF Unlocked
    <2>6. ASSUME NEW k \in Tickets, rowLock'[k] # None
          PROVE  tkt'[rowLock'[k]] = k /\ pc'[rowLock'[k]] \in {"record", "commit"}
      BY <2>1, <2>2, <2>6 DEF Unlocked
    <2>7. /\ pc' \in [Scans -> Steps]
          /\ \A r \in Scans : pc'[r] # "idle" => tkt'[r] \in Tickets
      BY <2>1, <2>2, <2>3
    <2> QED
      BY <2>2, <2>3, <2>4, <2>5, <2>6, <2>7
  <1>5. ASSUME NEW s \in Scans, Commit(s) PROVE TypeOK'
    BY <1>5 DEF Commit, Committed, Admits, Unlocked
  <1>6. ASSUME NEW s \in Scans, CommitReplyLost(s) PROVE TypeOK'
    BY <1>6 DEF CommitReplyLost, Committed, Unlocked
  <1>7. ASSUME NEW s \in Scans, Crash(s) PROVE TypeOK'
    BY <1>7 DEF Crash, Unlocked
  <1>8. ASSUME NEW d \in Devices, DeleteDevice(d) \/ DeleteGate(d) PROVE TypeOK'
    BY <1>8 DEF DeleteDevice, DeleteGate
  <1>9. CASE UNCHANGED vars
    BY <1>9 DEF vars
  <1> HIDE GateAssumption
      DEF TypeOK, Steps, Go, Fault, database, staff, scan, history
  <1> QED
    BY <1>1, <1>2, <1>3, <1>4, <1>5, <1>6, <1>7, <1>8, <1>9 DEF Next, Advance

(* Every variable of every behaviour stays in its type. *)
THEOREM TypeCorrect == Spec => []TypeOK
  BY InitTypeOK, NextTypeOK, PTL DEF Spec

----------------------------------------------------------------------------
(* A commit writes both the mark and the record, and only it answers VALID.*)
LEMMA CommitKeepsRecordInv ==
    ASSUME RecordInv, NEW s \in Scans, tkt[s] \in Tickets, Committed(s),
           \/ UNCHANGED admitted
           \/ ~aborted[s] /\ admitted' = [admitted EXCEPT ![tkt[s]] = @ + 1]
    PROVE  RecordInv'
  BY DEF Committed, RecordInv, UsedIsRecorded, AdmissionsAreRecorded

(* Every step keeps the records right. *)
LEMMA NextRecordInv == TypeOK /\ RecordInv /\ [Next]_vars => RecordInv'
  <1> SUFFICES ASSUME TypeOK, RecordInv, [Next]_vars PROVE RecordInv'
    OBVIOUS
  <1>1. ASSUME NEW s \in Scans, Commit(s) \/ CommitReplyLost(s) PROVE RecordInv'
    <2>1. tkt[s] \in Tickets /\ Committed(s)
      BY <1>1 DEF Commit, CommitReplyLost, TypeOK
    <2>2. \/ UNCHANGED admitted
          \/ ~aborted[s] /\ admitted' = [admitted EXCEPT ![tkt[s]] = @ + 1]
      BY <1>1 DEF Commit, CommitReplyLost, Admits, history
    <2> QED
      BY <2>1, <2>2, CommitKeepsRecordInv
  <1>2. CASE UNCHANGED <<used, checkins, admitted>>
    BY <1>2 DEF RecordInv, UsedIsRecorded, AdmissionsAreRecorded
  <1>3. \/ UNCHANGED <<used, checkins, admitted>>
        \/ \E s \in Scans : Commit(s) \/ CommitReplyLost(s)
    BY DEF Next, Advance, vars, database, history, Present, ReadTicket, MarkUsed,
         RecordCheckin, CallFails, Crash, DeleteDevice, DeleteGate
  <1> QED
    BY <1>1, <1>2, <1>3

(* The record of check-ins is right in every reachable state.            *)
LEMMA RecordInvariant == Spec => []RecordInv
  <1>1. Init => RecordInv
    BY DEF Init, RecordInv, UsedIsRecorded, AdmissionsAreRecorded
  <1> QED
    BY <1>1, NextRecordInv, TypeCorrect, PTL DEF Spec

(* A ticket is used exactly if a check-in of it is recorded. *)
THEOREM UsedRecorded == Spec => []UsedIsRecorded
  <1>1. RecordInv => UsedIsRecorded
    BY DEF RecordInv
  <1> QED
    BY <1>1, RecordInvariant, PTL

(* Every VALID answer has a check-in of its own. *)
THEOREM AdmissionsRecorded == Spec => []AdmissionsAreRecorded
  <1>1. RecordInv => AdmissionsAreRecorded
    BY DEF RecordInv
  <1> QED
    BY <1>1, RecordInvariant, PTL

----------------------------------------------------------------------------
(* The inductive invariant behind AdmitsOnceUnlessRaced: while no scans of *)
(* a ticket overlapped, at most one is past the check of its status, and   *)
(* then the ticket has no check-in yet.                                    *)
PassInv ==
    \A k \in Tickets \ raced :
        /\ checkins[k] <= 1
        /\ \A s \in Scans : Passing(s, k) => checkins[k] = 0
        /\ \A r, s \in Scans : Passing(r, k) /\ Passing(s, k) => r = s

(* Every step keeps the invariant. *)
LEMMA NextPassInv == TypeOK /\ RecordInv /\ PassInv /\ [Next]_vars => PassInv'
  <1> SUFFICES ASSUME TypeOK, RecordInv, PassInv, [Next]_vars PROVE PassInv'
    OBVIOUS
  <1>1. ASSUME NEW s \in Scans, ReadTicket(s) PROVE PassInv'
    <2>1. /\ tkt[s] \in Tickets /\ pc[s] = "read"
          /\ UNCHANGED <<checkins, tkt>>
          /\ \/ /\ tkt[s] \notin used
                /\ raced' = IF \E r \in Scans : Passing(r, tkt[s])
                              THEN raced \cup {tkt[s]} ELSE raced
                /\ pc' = [pc EXCEPT ![s] = "mark"]
             \/ raced' = raced /\ pc' = [pc EXCEPT ![s] = "refused"]
      BY <1>1 DEF ReadTicket, Allowed, Go, TypeOK, database, scan
    <2>2. tkt[s] \notin used => checkins[tkt[s]] = 0
      BY <2>1 DEF RecordInv, UsedIsRecorded
    <2> QED
      BY <2>1, <2>2 DEF PassInv, Passing, TypeOK
  <1>2. ASSUME NEW s \in Scans, Commit(s) \/ CommitReplyLost(s) PROVE PassInv'
    <2>1. /\ tkt[s] \in Tickets /\ Passing(s, tkt[s])
          /\ UNCHANGED <<raced, tkt>>
          /\ pc'[s] \in {"admitted", "refused"}
          /\ \A r \in Scans : r # s => pc'[r] = pc[r]
          /\ \/ checkins' = checkins
             \/ checkins' = [checkins EXCEPT ![tkt[s]] = @ + 1]
      BY <1>2 DEF Commit, CommitReplyLost, Committed, Passing, Go, TypeOK, scan, history
    <2>2. ASSUME NEW k \in Tickets, NEW r \in Scans, Passing(r, k)'
          PROVE  Passing(r, k) /\ r # s
      BY <2>1, <2>2 DEF Passing
    <2> QED
      BY <2>1, <2>2 DEF PassInv, TypeOK
  <1>3. ASSUME UNCHANGED <<raced, checkins>>,
               \A r \in Scans : pc'[r] \in {"mark", "record", "commit"} =>
                   pc[r] \in {"mark", "record", "commit"} /\ tkt'[r] = tkt[r]
        PROVE  PassInv'
    BY <1>3 DEF PassInv, Passing
  <1>4. ASSUME NEW s \in Scans,
               \/ \E k \in Tickets, d \in Devices \cup {None}, e \in {"app", "console"} :
                     Present(s, k, d, e)
               \/ MarkUsed(s) \/ RecordCheckin(s) \/ CallFails(s) \/ Crash(s)
        PROVE  PassInv'
    <2>1. /\ UNCHANGED <<raced, checkins>>
          /\ \A r \in Scans : r # s => pc'[r] = pc[r] /\ tkt'[r] = tkt[r]
          /\ pc'[s] \in {"mark", "record", "commit"} =>
                pc[s] \in {"mark", "record", "commit"} /\ tkt'[s] = tkt[s]
      BY <1>4 DEF Present, MarkUsed, RecordCheckin, CallFails, Crash, StatementFails,
           RolledBack, Go, TypeOK, database, scan, history
    <2> QED
      BY <1>3, <2>1
  <1>5. CASE UNCHANGED <<raced, checkins, pc, tkt>>
    BY <1>5 DEF PassInv, Passing
  <1>6. ASSUME NEW d \in Devices, DeleteDevice(d) \/ DeleteGate(d)
        PROVE  UNCHANGED <<raced, checkins, pc, tkt>>
    BY <1>6 DEF DeleteDevice, DeleteGate, database, scan, history
  <1>7. CASE UNCHANGED vars
    BY <1>5, <1>7 DEF vars, database, scan, history
  <1> QED
    BY <1>1, <1>2, <1>4, <1>5, <1>6, <1>7 DEF Next, Advance

(* Without overlapping scans no ticket admits twice. *)
THEOREM AdmitsOnce == Spec => []AdmitsOnceUnlessRaced
  <1>1. Init => PassInv
    BY DEF Init, PassInv, Passing
  <1>2. TypeOK /\ PassInv => AdmitsOnceUnlessRaced
    BY DEF PassInv, AdmitsOnceUnlessRaced, TypeOK
  <1> QED
    BY <1>1, <1>2, NextPassInv, TypeCorrect, RecordInvariant, PTL DEF Spec
=============================================================================
