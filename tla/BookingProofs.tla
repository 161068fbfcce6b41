--------------------------- MODULE BookingProofs ---------------------------
(***************************************************************************)
(* Theorems about Booking, for any number of holds, seats, tiers and       *)
(* releases.  First the types, then the lock invariant, which needs Redis  *)
(* to keep its keys, and what follows from it; then what a refused call    *)
(* leaves behind; last, the capacity counters of general admission, whose  *)
(* sums are counted as sets of tickets so that the theorems on finite sets *)
(* apply to them.                                                          *)
(***************************************************************************)
EXTENDS Booking, FiniteSetTheorems, TLAPS

(* Where a call is and what its body says go together with the types: the  *)
(* counter of a tier is read at req[h].tier, so that must be a tier, and a  *)
(* release gives back the quantity of a hold that exists.                  *)
TypeInv == TypeOK /\ CallsAreConsistent /\ ReleasesWorkOnHolds

(* The initial state has the types. *)
LEMMA InitTypeInv == Init => TypeInv
  <1> SUFFICES ASSUME Init PROVE TypeInv
    OBVIOUS
  <1> USE BookingAssumption DEF Init
  <1>1. TypeOK
    BY DEF TypeOK, Running, Finished, Request, NoRequest
  <1>2. CallsAreConsistent
    BY DEF CallsAreConsistent, Running
  <1>3. ReleasesWorkOnHolds
    BY DEF ReleasesWorkOnHolds
  <1> QED
    BY <1>1, <1>2, <1>3 DEF TypeInv

(* What an INCRBY changes keeps its type. *)
LEMMA ReturnTypes ==
  ASSUME TypeInv, NEW h \in Holds, req[h].tier \in Tiers, Return(h)
  PROVE  /\ counter' \in [Tiers -> Nat \cup {None}]
         /\ returned' \subseteq Holds
         /\ miscounted' \subseteq Tiers
  <1>1. req[h].qty \in Nat /\ counter \in [Tiers -> Nat \cup {None}]
    BY DEF TypeInv, TypeOK, Request
  <1>2. ASSUME NEW t \in Tiers PROVE counter'[t] \in Nat \cup {None}
    BY <1>1, <1>2 DEF Return, GivenBack
  <1>3. counter' = [t \in Tiers |-> counter'[t]]
    BY <1>1 DEF Return, GivenBack
  <1>4. counter' \in [Tiers -> Nat \cup {None}]
    BY <1>2, <1>3
  <1> QED
    BY <1>4 DEF Return, TypeInv, TypeOK

(* No step leaves the types: in particular no step of a buyer, a rollback  *)
(* or a release takes a capacity counter below zero.                       *)
LEMMA NextTypeInv == TypeInv /\ [Next]_vars => TypeInv'
  <1> SUFFICES ASSUME TypeInv, [Next]_vars PROVE TypeInv'
    OBVIOUS
  <1> USE BookingAssumption DEF TypeInv, TypeOK, CallsAreConsistent,
        ReleasesWorkOnHolds, Running, Finished, WellFormed, Seated, Go, InFlight, callVars,
        releaseVars, redisVars, eventVars, history
  <1>1. ASSUME NEW h \in Holds, NEW r \in Requests, CreateHold(h, r) PROVE TypeInv'
    <2>1. r \in Request
      OBVIOUS
    <2>2. CASE WellFormed(r) /\ OnThisEvent(r)
      <3>1. TiersOf(r) \subseteq Tiers
        BY <2>1, <2>2 DEF TiersOf, OnThisEvent, Request
      <3>2. TypeOK'
        BY <1>1, <2>1, <2>2, <3>1 DEF CreateHold
      <3>3. CallsAreConsistent' /\ ReleasesWorkOnHolds'
        BY <1>1, <2>2 DEF CreateHold
      <3> QED
        BY <3>2, <3>3
    <2>3. CASE ~(WellFormed(r) /\ OnThisEvent(r))
      <3>1. TypeOK'
        BY <1>1, <2>1, <2>3 DEF CreateHold
      <3>2. CallsAreConsistent' /\ ReleasesWorkOnHolds'
        BY <1>1, <2>3 DEF CreateHold
      <3> QED
        BY <3>1, <3>2
    <2> QED
      BY <2>2, <2>3
  <1>2. ASSUME NEW h \in Holds, NEW t \in Tiers, CheckTier(h, t) PROVE TypeInv'
    <2>1. TypeOK'
      BY <1>2 DEF CheckTier
    <2>2. CallsAreConsistent' /\ ReleasesWorkOnHolds'
      BY <1>2 DEF CheckTier
    <2> QED
      BY <2>1, <2>2
  <1>3. ASSUME NEW h \in Holds, CheckCap(h) PROVE TypeInv'
    <2>1. req[h].seats \subseteq Seats
      BY DEF Request
    <2>2. TypeOK'
      BY <1>3, <2>1 DEF CheckCap
    <2>3. CallsAreConsistent' /\ ReleasesWorkOnHolds'
      BY <1>3 DEF CheckCap
    <2> QED
      BY <2>2, <2>3
  <1>4. ASSUME NEW h \in Holds, NEW s \in Seats, LockSeat(h, s) PROVE TypeInv'
    <2>1. TypeOK'
      BY <1>4 DEF LockSeat
    <2>2. CallsAreConsistent' /\ ReleasesWorkOnHolds'
      BY <1>4 DEF LockSeat
    <2> QED
      BY <2>1, <2>2
  <1>5. ASSUME NEW h \in Holds, DelAcquired(h) PROVE TypeInv'
    BY <1>5 DEF DelAcquired, DelSeats, NoteStripped, Bystanders
  <1>6. ASSUME NEW h \in Holds, ProbeCounter(h) PROVE TypeInv'
    BY <1>6 DEF ProbeCounter
  <1>7. ASSUME NEW h \in Holds, ReadRemaining(h) PROVE TypeInv'
    BY <1>7 DEF ReadRemaining
  <1>8. ASSUME NEW h \in Holds, PlantSeed(h) PROVE TypeInv'
    BY <1>8 DEF PlantSeed, Planted
  <1>9. ASSUME NEW h \in Holds, TakeCapacity(h) PROVE TypeInv'
    <2>1. req[h].qty \in Nat
      BY DEF Request
    <2>2. counter' \in [Tiers -> Nat \cup {None}]
      BY <1>9, <2>1 DEF TakeCapacity, Enough
    <2>3. pc' \in [Holds -> {"idle"} \cup Running \cup Finished]
      BY <1>9 DEF TakeCapacity
    <2>4. CallsAreConsistent' /\ ReleasesWorkOnHolds'
      BY <1>9 DEF TakeCapacity
    <2> QED
      BY <1>9, <2>2, <2>3, <2>4 DEF TakeCapacity
  <1>10. ASSUME NEW h \in Holds, StoreHold(h) PROVE TypeInv'
    BY <1>10 DEF StoreHold
  <1>11. ASSUME NEW h \in Holds, NEW s \in Seats, UnwindSeat(h, s) PROVE TypeInv'
    BY <1>11 DEF UnwindSeat, ReleaseIfMatch
  <1>12. ASSUME NEW h \in Holds, UnwindCapacity(h) PROVE TypeInv'
    <2>1. req[h].tier \in Tiers
      BY <1>12 DEF UnwindCapacity
    <2>2. /\ counter' \in [Tiers -> Nat \cup {None}]
          /\ returned' \subseteq Holds /\ miscounted' \subseteq Tiers
      BY <1>12, <2>1, ReturnTypes DEF UnwindCapacity
    <2> QED
      BY <1>12, <2>2 DEF UnwindCapacity
  <1>13. ASSUME NEW r \in Releases, NEW h \in Holds, BeginRelease(r, h) PROVE TypeInv'
    <2>1. req[h].seats \subseteq Seats
      BY DEF Request
    <2> QED
      BY <1>13, <2>1 DEF BeginRelease, Live
  <1>14. ASSUME NEW r \in Releases, NEW s \in Seats, FreeSeat(r, s) PROVE TypeInv'
    BY <1>14 DEF FreeSeat, ReleaseIfMatch
  <1>15. ASSUME NEW r \in Releases, GiveBack(r) PROVE TypeInv'
    <2>1. PICK h \in Holds : relHold[r] = h /\ pc[h] = "held"
      BY <1>15 DEF GiveBack
    <2>2. ~Seated(h) /\ Return(h) /\ WellFormed(req[h])
      BY <1>15, <2>1 DEF GiveBack
    <2>3. req[h].tier \in Tiers
      BY <2>2
    <2>4. /\ counter' \in [Tiers -> Nat \cup {None}]
          /\ returned' \subseteq Holds /\ miscounted' \subseteq Tiers
      BY <2>2, <2>3, ReturnTypes
    <2>5. relPc' \in [Releases -> {"idle", "freeing", "forgetting"}]
      BY <1>15 DEF GiveBack
    <2> QED
      BY <1>15, <2>4, <2>5 DEF GiveBack
  <1>16. ASSUME NEW r \in Releases, ForgetHold(r) PROVE TypeInv'
    BY <1>16 DEF ForgetHold, RestSlot
  <1>17. ASSUME NEW s \in Seats, LockExpires(s) PROVE TypeInv'
    BY <1>17 DEF LockExpires
  <1>18. ASSUME NEW h \in Holds, MetaExpires(h) PROVE TypeInv'
    BY <1>18 DEF MetaExpires
  <1>19. ASSUME NEW t \in Tiers, ToggleSales(t) PROVE TypeInv'
    BY <1>19 DEF ToggleSales, Edit
  <1>20. ASSUME ChangeVenue PROVE TypeInv'
    BY <1>20 DEF ChangeVenue, Edit
  <1>21. ASSUME NEW p \in Paintings, PaintSeats(p) PROVE TypeInv'
    BY <1>21 DEF PaintSeats, Edit
  <1>22. ASSUME NEW t \in Tiers, NEW n \in Allocations, UpdateTicketTier(t, n) PROVE TypeInv'
    BY <1>22 DEF UpdateTicketTier, Edit
  <1>23. ASSUME NEW h \in Holds, CallFails(h) PROVE TypeInv'
    <2>1. req[h].seats \subseteq Seats
      BY DEF Request
    <2> QED
      BY <1>23, <2>1 DEF CallFails, OnError, Fault
  <1>24. ASSUME NEW h \in Holds, ReplyLost(h) PROVE TypeInv'
    <2>1. req[h].qty \in Nat /\ Sending(h) \subseteq Seats
      BY DEF Request, Sending
    <2>2. pc' \in [Holds -> {"idle"} \cup Running \cup Finished]
      BY <1>24 DEF ReplyLost
    <2>3. /\ lock' \in [Seats -> Holds \cup {None}]
          /\ stripped' \subseteq Holds
      BY <1>24, <2>1 DEF ReplyLost, ReleaseIfMatch, DelSeats, NoteStripped,
                         Bystanders, Return
    <2>4. /\ counter' \in [Tiers -> Nat \cup {None}]
          /\ returned' \subseteq Holds /\ miscounted' \subseteq Tiers
      <3>1. CASE pc[h] = "unwinding" /\ ~Seated(h) /\ Return(h)
        BY <3>1, ReturnTypes
      <3>2. CASE pc[h] = "planting"
        BY <1>24, <3>2 DEF ReplyLost, Planted
      <3>3. CASE pc[h] = "taking"
        <4>1. /\ counter[req[h].tier] \in Nat /\ counter[req[h].tier] >= req[h].qty
              /\ counter' = [counter EXCEPT ![req[h].tier] = @ - req[h].qty]
              /\ UNCHANGED <<returned, miscounted>>
          BY <1>24, <2>1, <3>3 DEF ReplyLost, Enough
        <4>2. counter[req[h].tier] - req[h].qty \in Nat
          BY <2>1, <4>1
        <4> QED
          BY <4>1, <4>2
      <3>4. CASE UNCHANGED <<counter, returned, miscounted>>
        BY <3>4
      <3> QED
        BY <1>24, <3>1, <3>2, <3>3, <3>4 DEF ReplyLost
    <2>5. meta' \in [Holds -> BOOLEAN]
      BY <1>24 DEF ReplyLost
    <2>6. CallsAreConsistent' /\ ReleasesWorkOnHolds'
      BY <1>24 DEF ReplyLost
    <2> QED
      BY <1>24, <2>2, <2>3, <2>4, <2>5, <2>6 DEF ReplyLost, Fault
  <1>25. ASSUME NEW h \in Holds, Crash(h) PROVE TypeInv'
    BY <1>25 DEF Crash, Fault
  <1>26. ASSUME NEW r \in Releases, ReleaseStops(r) PROVE TypeInv'
    BY <1>26 DEF ReleaseStops, RestSlot, Fault
  <1>27. ASSUME RedisRestart PROVE TypeInv'
    BY <1>27 DEF RedisRestart, Fault
  <1>28. ASSUME NEW r \in Releases, ReleaseReplyLost(r) PROVE TypeInv'
    <2>1. CASE relPc[r] = "freeing" /\ Seated(relHold[r])
      BY <1>28, <2>1 DEF ReleaseReplyLost, ReleaseIfMatch, Fault
    <2>2. CASE relPc[r] = "freeing" /\ ~Seated(relHold[r])
      <3>1. PICK h \in Holds : /\ relHold[r] = h /\ pc[h] = "held"
                               /\ req[h].tier \in Tiers
        BY <2>2
      <3>2. /\ counter' \in [Tiers -> Nat \cup {None}]
            /\ returned' \subseteq Holds /\ miscounted' \subseteq Tiers
        BY <1>28, <2>2, <3>1, ReturnTypes DEF ReleaseReplyLost
      <3> QED
        BY <1>28, <2>2, <3>1, <3>2 DEF ReleaseReplyLost, Fault, ReleaseIfMatch
    <2>3. CASE relPc[r] = "forgetting"
      <3>1. relHold[r] \in Holds /\ meta' = [meta EXCEPT ![relHold[r]] = FALSE]
        BY <1>28, <2>3 DEF ReleaseReplyLost
      <3> QED
        BY <1>28, <2>3, <3>1 DEF ReleaseReplyLost, Fault
    <2> QED
      BY <1>28, <2>1, <2>2, <2>3 DEF ReleaseReplyLost
  <1>29. CASE UNCHANGED vars
    BY <1>29 DEF vars
  <1> QED
    BY <1>1, <1>2, <1>3, <1>4, <1>5, <1>6, <1>7, <1>8, <1>9, <1>10, <1>11,
       <1>12, <1>13, <1>14, <1>15, <1>16, <1>17, <1>18, <1>19, <1>20, <1>21,
       <1>22, <1>23, <1>24, <1>25, <1>26, <1>27, <1>28, <1>29
    DEF Next, Advance, AdvanceRelease, Expiry, OrganizerEdit, Failure

(* Every reachable state has the types. *)
THEOREM TypeCorrect == Spec => []TypeOK
  <1>1. TypeInv => TypeOK
    BY DEF TypeInv
  <1> QED
    BY InitTypeInv, NextTypeInv, <1>1, PTL DEF Spec

(* Steps that no seat notices: releases of quantity holds, metadata, the   *)
(* organizer's edits.                                                      *)
QuietStep == UNCHANGED <<pc, req, todo, lock, stripped>>

(* Each of those steps is quiet: it leaves calls, their seats and locks alone. *)
LEMMA QuietSteps ==
  ASSUME \/ \E r \in Releases, h \in Holds : BeginRelease(r, h)
         \/ \E r \in Releases : GiveBack(r) \/ ForgetHold(r) \/ ReleaseStops(r)
         \/ \E h \in Holds : MetaExpires(h)
         \/ OrganizerEdit
         \/ UNCHANGED vars
  PROVE  QuietStep
  BY DEF QuietStep, BeginRelease, GiveBack, ForgetHold, ReleaseStops,
         MetaExpires, OrganizerEdit, ToggleSales, ChangeVenue, PaintSeats,
         UpdateTicketTier, vars, callVars, releaseVars, redisVars, eventVars,
         history

(* Without a restart of Redis, no step gives a seat to a call that did not *)
(* ask for it.                                                             *)
LEMMA NextLocksHaveACause ==
  ASSUME "restart" \notin FaultKinds, TypeInv, LockInv, [Next]_vars
  PROVE  LocksHaveACause'
  <1> USE BookingAssumption DEF TypeInv, TypeOK, LockInv, LocksHaveACause, ReleasesWorkOnHolds, Running, Go, redisVars
  <1>1. ASSUME NEW h \in Holds, NEW r \in Requests, CreateHold(h, r)
       PROVE  LocksHaveACause'
    BY <1>1 DEF CreateHold, Request, callVars
  <1>2. ASSUME NEW h \in Holds, NEW t \in Tiers, CheckTier(h, t)
       PROVE  LocksHaveACause'
    BY <1>2 DEF CheckTier, Request, callVars
  <1>3. ASSUME NEW h \in Holds, CheckCap(h)
       PROVE  LocksHaveACause'
    BY <1>3 DEF CheckCap, Request, callVars
  <1>4. ASSUME NEW h \in Holds, NEW s \in Seats, LockSeat(h, s)
       PROVE  LocksHaveACause'
    <2>1. CASE lock[s] = None
      <3>1. lock' = [lock EXCEPT ![s] = h] /\ req' = req
        BY <1>4, <2>1 DEF LockSeat
      <3>2. s \in req[h].seats
        BY <1>4 DEF LockSeat, Sending, CallsAreConsistent
      <3>3. pc'[h] # "idle" /\ \A g \in Holds \ {h} : pc'[g] = pc[g]
        BY <1>4 DEF LockSeat
      <3> QED
        BY <3>1, <3>2, <3>3
    <2>2. CASE lock[s] # None
      BY <1>4, <2>2 DEF LockSeat
    <2> QED
      BY <2>1, <2>2
  <1>5. ASSUME NEW h \in Holds, DelAcquired(h)
       PROVE  LocksHaveACause'
    BY <1>5 DEF DelAcquired, DelSeats, Request, callVars
  <1>6. ASSUME NEW h \in Holds, ProbeCounter(h)
       PROVE  LocksHaveACause'
    BY <1>6 DEF ProbeCounter, Request, callVars
  <1>7. ASSUME NEW h \in Holds, ReadRemaining(h)
       PROVE  LocksHaveACause'
    BY <1>7 DEF ReadRemaining, Request, callVars
  <1>8. ASSUME NEW h \in Holds, PlantSeed(h)
       PROVE  LocksHaveACause'
    BY <1>8 DEF PlantSeed, Request, callVars
  <1>9. ASSUME NEW h \in Holds, TakeCapacity(h)
       PROVE  LocksHaveACause'
    BY <1>9 DEF TakeCapacity, Seated, Request, callVars
  <1>10. ASSUME NEW h \in Holds, StoreHold(h)
       PROVE  LocksHaveACause'
    BY <1>10 DEF StoreHold, Request, callVars
  <1>11. ASSUME NEW h \in Holds, NEW s \in Seats, UnwindSeat(h, s)
       PROVE  LocksHaveACause'
    BY <1>11 DEF UnwindSeat, ReleaseIfMatch, Request, callVars
  <1>12. ASSUME NEW h \in Holds, UnwindCapacity(h)
       PROVE  LocksHaveACause'
    BY <1>12 DEF UnwindCapacity, Request, callVars
  <1>13. ASSUME NEW r \in Releases, NEW s \in Seats, FreeSeat(r, s)
       PROVE  LocksHaveACause'
    BY <1>13 DEF FreeSeat, ReleaseIfMatch, Request, callVars
  <1>14. ASSUME NEW s \in Seats, LockExpires(s)
       PROVE  LocksHaveACause'
    BY <1>14 DEF LockExpires, InFlight, Request, callVars
  <1>15. ASSUME NEW h \in Holds, CallFails(h)
       PROVE  LocksHaveACause'
    BY <1>15 DEF CallFails, OnError, Request, callVars
  <1>16. ASSUME NEW h \in Holds, ReplyLost(h)
       PROVE  LocksHaveACause'
    <2>1. /\ req' = req
          /\ pc' = pc \/ pc' = [pc EXCEPT ![h] = "redoing"]
      BY <1>16 DEF ReplyLost
    <2>2. CASE pc[h] = "locking"
      <3>1. PICK s \in Sending(h) : lock[s] = None /\ lock' = [lock EXCEPT ![s] = h]
        BY <1>16, <2>2 DEF ReplyLost
      <3>2. s \in Seats /\ s \in req[h].seats
        BY <2>2 DEF CallsAreConsistent, Sending
      <3> QED
        BY <2>1, <2>2, <3>1, <3>2
    <2>3. CASE pc[h] # "locking"
      <3>1. \A x \in Seats : lock'[x] \in {lock[x], None}
        BY <1>16, <2>3 DEF ReplyLost, ReleaseIfMatch, DelSeats
      <3> QED
        BY <2>1, <3>1
    <2> QED
      BY <2>2, <2>3
  <1>17. ASSUME NEW h \in Holds, Crash(h)
       PROVE  LocksHaveACause'
    BY <1>17 DEF Crash, Request, callVars
  <1>18. ASSUME QuietStep
       PROVE  LocksHaveACause'
    BY <1>18 DEF QuietStep, Request, callVars
  <1>19. ~RedisRestart
    BY DEF RedisRestart, Fault
  <1>20. ASSUME NEW r \in Releases, ReleaseReplyLost(r)
       PROVE  LocksHaveACause'
    BY <1>20 DEF ReleaseReplyLost, ReleaseIfMatch, callVars
  <1> QED
    BY <1>1, <1>2, <1>3, <1>4, <1>5, <1>6, <1>7, <1>8, <1>9, <1>10, <1>11, <1>12, <1>13, <1>14, <1>15, <1>16, <1>17, <1>18, <1>19, <1>20, QuietSteps
    DEF Next, Advance, AdvanceRelease, Expiry, Failure

(* A DEL of a rollback, the first or a repeated one, takes no lock from a  *)
(* running call that it does not note.                                     *)
LEMMA DelKeepsTheOthers ==
  ASSUME TypeInv, LockInv, NEW h \in Holds, pc[h] \in {"undoing", "redoing"},
         DelSeats(Acquired(h)), NoteStripped(h),
         NEW g \in Holds \ stripped', g # h, NEW x \in Believed(g), x \in Seats
  PROVE  lock'[x] = g
  <1>1. g \notin stripped /\ InFlight(g)
    BY DEF NoteStripped, Believed, InFlight, Running
  <1>2. lock[x] = g
    BY <1>1 DEF LockInv, RunningCallsKeepTheirLocks
  <1>3. x \notin Acquired(h)
    <2>1. CASE pc[h] = "redoing" \/ h \in stripped
      BY <1>1, <1>2, <2>1 DEF NoteStripped, Bystanders
    <2>2. CASE pc[h] = "undoing" /\ h \notin stripped
      BY <1>2, <2>2 DEF LockInv, RunningCallsKeepTheirLocks, Believed
    <2> QED
      BY <2>1, <2>2
  <1> QED
    BY <1>2, <1>3 DEF DelSeats

(* Without a restart of Redis, no step takes a lock away from a running    *)
(* call.                                                                   *)
LEMMA NextCallsKeepTheirLocks ==
  ASSUME "restart" \notin FaultKinds, TypeInv, LockInv, [Next]_vars
  PROVE  RunningCallsKeepTheirLocks'
  <1> USE BookingAssumption DEF TypeInv, TypeOK, LockInv, LocksHaveACause, ReleasesWorkOnHolds, RunningCallsKeepTheirLocks, CallsAreConsistent, Believed, Acquired, Running, Go, redisVars, history
  <1>1. ASSUME NEW h \in Holds, NEW r \in Requests, CreateHold(h, r)
       PROVE  RunningCallsKeepTheirLocks'
    BY <1>1 DEF CreateHold, callVars
  <1>2. ASSUME NEW h \in Holds, NEW t \in Tiers, CheckTier(h, t)
       PROVE  RunningCallsKeepTheirLocks'
    BY <1>2 DEF CheckTier, callVars
  <1>3. ASSUME NEW h \in Holds, CheckCap(h)
       PROVE  RunningCallsKeepTheirLocks'
    BY <1>3 DEF CheckCap, callVars
  <1>4. ASSUME NEW h \in Holds, NEW s \in Seats, LockSeat(h, s)
       PROVE  RunningCallsKeepTheirLocks'
    <2>1. CASE lock[s] = None
      <3>1. /\ lock' = [lock EXCEPT ![s] = h]
            /\ todo' = [todo EXCEPT ![h] = @ \ {s}]
            /\ req' = req /\ stripped' = stripped
            /\ pc' = [pc EXCEPT ![h] = IF todo[h] = {s} THEN "storing" ELSE "locking"]
        BY <1>4, <2>1 DEF LockSeat
      <3>2. pc[h] = "locking"
        BY <1>4 DEF LockSeat
      <3>3. ASSUME NEW g \in Holds \ stripped', NEW x \in Believed(g)'
            PROVE  lock'[x] = g
        <4>1. CASE g = h
          <5>1. x \in Acquired(h) \cup {s} /\ x \in Seats
            BY <3>1, <3>2, <3>3, <4>1 DEF Request
          <5> QED
            BY <3>1, <3>2, <4>1, <5>1
        <4>2. CASE g # h
          <5>1. x \in Believed(g)
            BY <3>1, <3>3, <4>2
          <5> QED
            BY <2>1, <3>1, <4>2, <5>1
        <4> QED
          BY <4>1, <4>2
      <3> QED
        BY <3>3
    <2>2. CASE lock[s] # None
      BY <1>4, <2>2 DEF LockSeat
    <2> QED
      BY <2>1, <2>2
  <1>5. ASSUME NEW h \in Holds, DelAcquired(h)
       PROVE  RunningCallsKeepTheirLocks'
    <2>1. /\ pc' = [pc EXCEPT ![h] = "refused"] /\ todo' = todo /\ req' = req
          /\ DelSeats(Acquired(h)) /\ NoteStripped(h)
          /\ pc[h] \in {"undoing", "redoing"}
      BY <1>5 DEF DelAcquired
    <2>2. ASSUME NEW g \in Holds \ stripped', NEW x \in Believed(g)'
          PROVE  lock'[x] = g
      <3>1. g # h /\ x \in Believed(g) /\ x \in Seats
        BY <2>1, <2>2 DEF Request
      <3>2. lock'[x] = g
        BY <2>1, <2>2, <3>1, DelKeepsTheOthers
      <3> QED
        BY <3>2
    <2> QED
      BY <2>2
  <1>6. ASSUME NEW h \in Holds, ProbeCounter(h)
       PROVE  RunningCallsKeepTheirLocks'
    BY <1>6 DEF ProbeCounter, callVars
  <1>7. ASSUME NEW h \in Holds, ReadRemaining(h)
       PROVE  RunningCallsKeepTheirLocks'
    BY <1>7 DEF ReadRemaining, callVars
  <1>8. ASSUME NEW h \in Holds, PlantSeed(h)
       PROVE  RunningCallsKeepTheirLocks'
    BY <1>8 DEF PlantSeed, callVars
  <1>9. ASSUME NEW h \in Holds, TakeCapacity(h)
       PROVE  RunningCallsKeepTheirLocks'
    BY <1>9 DEF TakeCapacity, Seated, callVars
  <1>10. ASSUME NEW h \in Holds, StoreHold(h)
       PROVE  RunningCallsKeepTheirLocks'
    BY <1>10 DEF StoreHold, callVars
  <1>11. ASSUME NEW h \in Holds, NEW s \in Seats, UnwindSeat(h, s)
       PROVE  RunningCallsKeepTheirLocks'
    BY <1>11 DEF UnwindSeat, ReleaseIfMatch, callVars
  <1>12. ASSUME NEW h \in Holds, UnwindCapacity(h)
       PROVE  RunningCallsKeepTheirLocks'
    BY <1>12 DEF UnwindCapacity, callVars
  <1>13. ASSUME NEW r \in Releases, NEW s \in Seats, FreeSeat(r, s)
       PROVE  RunningCallsKeepTheirLocks'
    BY <1>13 DEF FreeSeat, ReleaseIfMatch, callVars
  <1>14. ASSUME NEW s \in Seats, LockExpires(s)
       PROVE  RunningCallsKeepTheirLocks'
    BY <1>14 DEF LockExpires, InFlight, callVars
  <1>15. ASSUME NEW h \in Holds, CallFails(h)
       PROVE  RunningCallsKeepTheirLocks'
    BY <1>15 DEF CallFails, OnError, callVars
  <1>16. ASSUME NEW h \in Holds, ReplyLost(h)
       PROVE  RunningCallsKeepTheirLocks'
    <2>1. req' = req /\ todo' = todo
      BY <1>16 DEF ReplyLost
    <2>2. CASE pc[h] = "locking"
      <3>1. PICK s \in Sending(h) : lock[s] = None /\ lock' = [lock EXCEPT ![s] = h]
        BY <1>16, <2>2 DEF ReplyLost
      <3>2. pc' = pc /\ stripped' = stripped
        BY <1>16, <2>2 DEF ReplyLost
      <3> QED
        BY <2>1, <3>1, <3>2
    <2>3. CASE pc[h] = "unwinding"
      <3>1. pc' = pc /\ stripped' = stripped
        BY <1>16, <2>3 DEF ReplyLost, Return
      <3>2. \A x \in Seats : lock'[x] = lock[x] \/ lock[x] = h
        BY <1>16, <2>3 DEF ReplyLost, ReleaseIfMatch
      <3>3. ASSUME NEW g \in Holds \ stripped', NEW x \in Believed(g)'
            PROVE  lock'[x] = g
        <4>1. g # h /\ x \in Believed(g) /\ x \in Seats
          BY <2>1, <2>3, <3>1, <3>3 DEF Request
        <4> QED
          BY <3>1, <3>2, <3>3, <4>1
      <3> QED
        BY <3>3
    <2>4. CASE pc[h] \in {"undoing", "redoing"}
      <3>1. /\ pc' = [pc EXCEPT ![h] = "redoing"]
            /\ DelSeats(Acquired(h)) /\ NoteStripped(h)
        BY <1>16, <2>4 DEF ReplyLost
      <3>2. ASSUME NEW g \in Holds \ stripped', NEW x \in Believed(g)'
            PROVE  lock'[x] = g
        <4>1. g # h /\ x \in Believed(g) /\ x \in Seats
          BY <2>1, <3>1, <3>2 DEF Request
        <4>2. lock'[x] = g
          BY <2>4, <3>1, <3>2, <4>1, DelKeepsTheOthers
        <4> QED
          BY <4>2
      <3> QED
        BY <3>2
    <2>5. CASE pc[h] \in {"planting", "taking", "storing"}
      BY <1>16, <2>1, <2>5 DEF ReplyLost
    <2> QED
      BY <1>16, <2>2, <2>3, <2>4, <2>5 DEF ReplyLost
  <1>17. ASSUME NEW h \in Holds, Crash(h)
       PROVE  RunningCallsKeepTheirLocks'
    BY <1>17 DEF Crash, callVars
  <1>18. ASSUME QuietStep
       PROVE  RunningCallsKeepTheirLocks'
    BY <1>18 DEF QuietStep, callVars
  <1>19. ~RedisRestart
    BY DEF RedisRestart, Fault
  <1>20. ASSUME NEW r \in Releases, ReleaseReplyLost(r)
       PROVE  RunningCallsKeepTheirLocks'
    <2>1. UNCHANGED <<pc, req, todo, stripped>>
      BY <1>20 DEF ReleaseReplyLost, Return, callVars
    <2>2. \A x \in Seats : \/ lock'[x] = lock[x]
                          \/ pc[lock[x]] = "held"
      BY <1>20 DEF ReleaseReplyLost, ReleaseIfMatch
    <2>3. ASSUME NEW g \in Holds \ stripped', NEW x \in Believed(g)'
          PROVE  lock'[x] = g
      <3>1. x \in Seats /\ lock[x] = g /\ pc[g] # "held"
        BY <2>1, <2>3 DEF Request
      <3> QED
        BY <2>2, <3>1
    <2> QED
      BY <2>3
  <1> QED
    BY <1>1, <1>2, <1>3, <1>4, <1>5, <1>6, <1>7, <1>8, <1>9, <1>10, <1>11, <1>12, <1>13, <1>14, <1>15, <1>16, <1>17, <1>18, <1>19, <1>20, QuietSteps
    DEF Next, Advance, AdvanceRelease, Expiry, Failure

(* Without a restart of Redis, every lock a running call believes in is    *)
(* its own, whatever other calls, rollbacks, releases, expiries, faults    *)
(* and crashes do: the unmatched DEL of AcquireSeatHolds is safe unless it *)
(* is sent twice.                                                          *)
THEOREM LockInvariant ==
  ASSUME "restart" \notin FaultKinds
  PROVE  Spec => []LockInv
  <1>1. Init => LockInv
    <2> SUFFICES ASSUME Init PROVE LockInv
      OBVIOUS
    <2>1. CallsAreConsistent /\ ReleasesWorkOnHolds
      BY InitTypeInv DEF TypeInv
    <2>2. LocksHaveACause /\ RunningCallsKeepTheirLocks
      BY DEF Init, LocksHaveACause, RunningCallsKeepTheirLocks, Believed
    <2> QED
      BY <2>1, <2>2 DEF LockInv
  <1>2. TypeInv /\ LockInv /\ [Next]_vars => LockInv'
    BY NextTypeInv, NextLocksHaveACause, NextCallsKeepTheirLocks
    DEF TypeInv, LockInv
  <1> QED
    BY <1>1, <1>2, InitTypeInv, NextTypeInv, PTL DEF Spec

(* In particular no call loses a seat it has locked to another buyer, but  *)
(* to one whose rollback's DEL was sent twice.                             *)
THEOREM CallsKeepTheirLocks ==
  ASSUME "restart" \notin FaultKinds
  PROVE  Spec => []RunningCallsKeepTheirLocks
  <1>1. LockInv => RunningCallsKeepTheirLocks
    BY DEF LockInv
  <1> QED
    BY LockInvariant, <1>1, PTL

(* A step that frees a seat is a step of the hold that owns it, or the     *)
(* seat's expiry.                                                          *)
LEMMA NextUnlocksOnlyTheOwner ==
  ASSUME "restart" \notin FaultKinds, TypeInv, LockInv, [Next]_vars
  PROVE  UnlocksOnlyTheOwner
  <1> USE BookingAssumption DEF TypeInv, TypeOK, LockInv, ReleasesWorkOnHolds, UnlocksOnlyTheOwner, RunningCallsKeepTheirLocks, Believed, Acquired, Running, Go, redisVars
  <1>1. ASSUME NEW h \in Holds, NEW r \in Requests, CreateHold(h, r)
       PROVE  UnlocksOnlyTheOwner
    BY <1>1 DEF CreateHold, releaseVars
  <1>2. ASSUME NEW h \in Holds, NEW t \in Tiers, CheckTier(h, t)
       PROVE  UnlocksOnlyTheOwner
    BY <1>2 DEF CheckTier, releaseVars
  <1>3. ASSUME NEW h \in Holds, CheckCap(h)
       PROVE  UnlocksOnlyTheOwner
    BY <1>3 DEF CheckCap, releaseVars
  <1>4. ASSUME NEW h \in Holds, NEW s \in Seats, LockSeat(h, s)
       PROVE  UnlocksOnlyTheOwner
    BY <1>4 DEF LockSeat, releaseVars
  <1>5. ASSUME NEW h \in Holds, DelAcquired(h)
       PROVE  UnlocksOnlyTheOwner
    BY <1>5 DEF DelAcquired, DelSeats, releaseVars
  <1>6. ASSUME NEW h \in Holds, ProbeCounter(h)
       PROVE  UnlocksOnlyTheOwner
    BY <1>6 DEF ProbeCounter, releaseVars
  <1>7. ASSUME NEW h \in Holds, ReadRemaining(h)
       PROVE  UnlocksOnlyTheOwner
    BY <1>7 DEF ReadRemaining, releaseVars
  <1>8. ASSUME NEW h \in Holds, PlantSeed(h)
       PROVE  UnlocksOnlyTheOwner
    BY <1>8 DEF PlantSeed, releaseVars
  <1>9. ASSUME NEW h \in Holds, TakeCapacity(h)
       PROVE  UnlocksOnlyTheOwner
    BY <1>9 DEF TakeCapacity, Seated, releaseVars
  <1>10. ASSUME NEW h \in Holds, StoreHold(h)
       PROVE  UnlocksOnlyTheOwner
    BY <1>10 DEF StoreHold, releaseVars
  <1>11. ASSUME NEW h \in Holds, NEW s \in Seats, UnwindSeat(h, s)
       PROVE  UnlocksOnlyTheOwner
    BY <1>11 DEF UnwindSeat, ReleaseIfMatch, releaseVars
  <1>12. ASSUME NEW h \in Holds, UnwindCapacity(h)
       PROVE  UnlocksOnlyTheOwner
    BY <1>12 DEF UnwindCapacity, releaseVars
  <1>13. ASSUME NEW r \in Releases, NEW s \in Seats, FreeSeat(r, s)
       PROVE  UnlocksOnlyTheOwner
    BY <1>13 DEF FreeSeat, ReleaseIfMatch, callVars, releaseVars
  <1>14. ASSUME NEW s \in Seats, LockExpires(s)
       PROVE  UnlocksOnlyTheOwner
    BY <1>14 DEF LockExpires, callVars, releaseVars
  <1>15. ASSUME NEW h \in Holds, CallFails(h)
       PROVE  UnlocksOnlyTheOwner
    BY <1>15 DEF CallFails, OnError, releaseVars
  <1>16. ASSUME NEW h \in Holds, ReplyLost(h)
       PROVE  UnlocksOnlyTheOwner
    BY <1>16 DEF ReplyLost, ReleaseIfMatch, DelSeats, releaseVars
  <1>17. ASSUME NEW h \in Holds, Crash(h)
       PROVE  UnlocksOnlyTheOwner
    BY <1>17 DEF Crash, releaseVars
  <1>18. ASSUME QuietStep
       PROVE  UnlocksOnlyTheOwner
    BY <1>18 DEF QuietStep, releaseVars
  <1>19. ~RedisRestart
    BY DEF RedisRestart, Fault
  <1>20. ASSUME NEW r \in Releases, ReleaseReplyLost(r)
       PROVE  UnlocksOnlyTheOwner
    BY <1>20 DEF ReleaseReplyLost, ReleaseIfMatch, callVars, releaseVars
  <1> QED
    BY <1>1, <1>2, <1>3, <1>4, <1>5, <1>6, <1>7, <1>8, <1>9, <1>10, <1>11, <1>12, <1>13, <1>14, <1>15, <1>16, <1>17, <1>18, <1>19, <1>20, QuietSteps
    DEF Next, Advance, AdvanceRelease, Expiry, Failure

(* A rollback or release never frees a seat under another buyer, even one  *)
(* that resumes after its own lock has lapsed and been taken again, unless *)
(* its DEL was sent twice.                                                 *)
THEOREM OwnerUnlocks ==
  ASSUME "restart" \notin FaultKinds
  PROVE  Spec => OnlyTheOwnerUnlocks
  <1>1. TypeInv /\ LockInv /\ [Next]_vars => [UnlocksOnlyTheOwner]_vars
    BY NextUnlocksOnlyTheOwner
  <1>2. Spec => []TypeInv
    BY InitTypeInv, NextTypeInv, PTL DEF Spec
  <1> QED
    BY <1>1, <1>2, LockInvariant, PTL DEF Spec, OnlyTheOwnerUnlocks


(* Locks that only go away, while calls stay where they are, are seats     *)
(* that come back.                                                         *)
LEMMA FreedSeatsComeBack ==
  ASSUME TypeInv, UNCHANGED <<req, pc, stripped>>,
         \A x \in Seats : lock'[x] \in {lock[x], None}
  PROVE  [Abs!Next]_(Abs!vars)
  <1> DEFINE S == {x \in Seats : lock'[x] = None}
  <1>1. Granted' = Granted
    BY DEF Granted, Whole
  <1>2. Allocation' = [x \in Seats |-> IF x \in S THEN None ELSE Allocation[x]]
    BY DEF Allocation, Whole
  <1>3. S \in SUBSET Seats
    OBVIOUS
  <1>4. Abs!ComeBack(S)
    BY <1>1, <1>2 DEF Abs!ComeBack
  <1> HIDE DEF S
  <1> QED
    BY <1>3, <1>4 DEF Abs!Next

(* The same for the DEL of a rollback, which notes the calls that it       *)
(* strips: none of them was granted anything yet.                          *)
LEMMA DelFreesSeats ==
  ASSUME TypeInv, NEW h \in Holds, pc[h] \in {"undoing", "redoing"}, req' = req,
         NEW l \in {"refused", "redoing"}, pc' = [pc EXCEPT ![h] = l],
         DelSeats(Acquired(h)), NoteStripped(h)
  PROVE  [Abs!Next]_(Abs!vars)
  <1> DEFINE S == {x \in Seats : lock'[x] = None}
  <1>1. \A g \in Holds : Whole(g)' = Whole(g)
    BY DEF Whole, NoteStripped, Bystanders, InFlight, Running, TypeInv, TypeOK
  <1>2. Granted' = Granted
    BY <1>1 DEF Granted
  <1>3. Allocation' = [x \in Seats |-> IF x \in S THEN None ELSE Allocation[x]]
    BY <1>1, BookingAssumption DEF Allocation, DelSeats, TypeInv, TypeOK
  <1>4. S \in SUBSET Seats
    OBVIOUS
  <1>5. Abs!ComeBack(S)
    BY <1>2, <1>3 DEF Abs!ComeBack
  <1> HIDE DEF S
  <1> QED
    BY <1>4, <1>5 DEF Abs!Next

(* Every step grants a hold all its seats, frees seats, or changes         *)
(* nothing that AtomicHolds sees.                                          *)
LEMMA NextImplementsAtomicHolds ==
  ASSUME "restart" \notin FaultKinds, TypeInv, LockInv, [Next]_vars
  PROVE  [Abs!Next]_(Abs!vars)
  <1> USE BookingAssumption DEF TypeInv, TypeOK, LockInv, LocksHaveACause, Allocation, Granted, Whole, Abs!Next, Abs!vars, Abs!Grant, Abs!ComeBack, Running, Go, redisVars, history
  <1>1. ASSUME NEW h \in Holds, NEW r \in Requests, CreateHold(h, r)
       PROVE  [Abs!Next]_(Abs!vars)
    BY <1>1 DEF CreateHold
  <1>2. ASSUME NEW h \in Holds, NEW t \in Tiers, CheckTier(h, t)
       PROVE  [Abs!Next]_(Abs!vars)
    BY <1>2 DEF CheckTier
  <1>3. ASSUME NEW h \in Holds, CheckCap(h)
       PROVE  [Abs!Next]_(Abs!vars)
    BY <1>3 DEF CheckCap
  <1>4. ASSUME NEW h \in Holds, NEW s \in Seats, LockSeat(h, s)
       PROVE  [Abs!Next]_(Abs!vars)
    <2>1. req' = req /\ stripped' = stripped /\ pc[h] = "locking"
          /\ \E l \in {"locking", "storing", "undoing"} : pc' = [pc EXCEPT ![h] = l]
      BY <1>4 DEF LockSeat
    <2>2. Granted' = Granted
      BY <2>1
    <2>3. ASSUME lock[s] = None PROVE Allocation' = Allocation
      <3>1. lock' = [lock EXCEPT ![s] = h]
        BY <1>4, <2>3 DEF LockSeat
      <3> QED
        BY <2>1, <2>3, <3>1
    <2>4. ASSUME lock[s] # None PROVE Allocation' = Allocation
      <3>1. lock' = lock
        BY <1>4, <2>4 DEF LockSeat
      <3> QED
        BY <2>1, <3>1
    <2>5. Allocation' = Allocation
      BY <2>3, <2>4
    <2> QED
      BY <2>2, <2>5
  <1>5. ASSUME NEW h \in Holds, DelAcquired(h)
       PROVE  [Abs!Next]_(Abs!vars)
    BY <1>5, DelFreesSeats DEF DelAcquired
  <1>6. ASSUME NEW h \in Holds, ProbeCounter(h)
       PROVE  [Abs!Next]_(Abs!vars)
    BY <1>6 DEF ProbeCounter
  <1>7. ASSUME NEW h \in Holds, ReadRemaining(h)
       PROVE  [Abs!Next]_(Abs!vars)
    BY <1>7 DEF ReadRemaining
  <1>8. ASSUME NEW h \in Holds, PlantSeed(h)
       PROVE  [Abs!Next]_(Abs!vars)
    BY <1>8 DEF PlantSeed
  <1>9. ASSUME NEW h \in Holds, TakeCapacity(h)
       PROVE  [Abs!Next]_(Abs!vars)
    BY <1>9 DEF TakeCapacity, Seated
  <1>10. ASSUME NEW h \in Holds, StoreHold(h)
       PROVE  [Abs!Next]_(Abs!vars)
    <2>1. /\ pc[h] = "storing" /\ pc' = [pc EXCEPT ![h] = "held"]
          /\ req' = req /\ lock' = lock /\ stripped' = stripped
      BY <1>10 DEF StoreHold
    <2>2. CASE h \in stripped
      <3>1. Granted' = Granted /\ Allocation' = Allocation
        BY <2>1, <2>2
      <3> QED
        BY <3>1
    <2>3. CASE h \notin stripped
      <3>1. \A x \in req[h].seats : lock[x] = h
        BY <2>1, <2>3 DEF CallsAreConsistent, RunningCallsKeepTheirLocks,
                          Believed, Acquired
      <3>2. Granted' = [Granted EXCEPT ![h] = req[h].seats] /\ Granted[h] = {}
        <4>1. \A g \in Holds : Granted'[g] = IF g = h THEN req[h].seats ELSE Granted[g]
          BY <2>1, <2>3
        <4>2. /\ Granted = [g \in Holds |-> Granted[g]]
              /\ Granted' = [g \in Holds |-> Granted'[g]]
          BY Zenon
        <4>3. Granted[h] = {}
          BY <2>1
        <4> HIDE DEF Granted
        <4> QED
          BY <4>1, <4>2, <4>3
      <3>3. \A x \in req[h].seats : Allocation[x] = None
        BY <2>1, <3>1 DEF Request
      <3>4. Allocation' = [x \in Seats |-> IF x \in req[h].seats
                                             THEN h ELSE Allocation[x]]
        BY <2>1, <2>3, <3>1
      <3>5. req[h].seats \in SUBSET Seats
        BY DEF Request
      <3>6. Abs!Grant(h, req[h].seats)
        BY <3>2, <3>3, <3>4
      <3> QED
        BY <3>5, <3>6
    <2> QED
      BY <2>2, <2>3
  <1>11. ASSUME NEW h \in Holds, NEW s \in Seats, UnwindSeat(h, s)
       PROVE  [Abs!Next]_(Abs!vars)
    BY <1>11 DEF UnwindSeat, ReleaseIfMatch
  <1>12. ASSUME NEW h \in Holds, UnwindCapacity(h)
       PROVE  [Abs!Next]_(Abs!vars)
    BY <1>12 DEF UnwindCapacity
  <1>13. ASSUME NEW r \in Releases, NEW s \in Seats, FreeSeat(r, s)
       PROVE  [Abs!Next]_(Abs!vars)
    <2>1. /\ UNCHANGED <<pc, req, stripped>>
          /\ \A x \in Seats : lock'[x] \in {lock[x], None}
      BY <1>13 DEF FreeSeat, ReleaseIfMatch, callVars
    <2> QED
      BY <2>1, FreedSeatsComeBack
  <1>14. ASSUME NEW s \in Seats, LockExpires(s)
       PROVE  [Abs!Next]_(Abs!vars)
    <2>1. /\ UNCHANGED <<pc, req, stripped>>
          /\ \A x \in Seats : lock'[x] \in {lock[x], None}
      BY <1>14 DEF LockExpires, callVars
    <2> QED
      BY <2>1, FreedSeatsComeBack
  <1>15. ASSUME NEW h \in Holds, CallFails(h)
       PROVE  [Abs!Next]_(Abs!vars)
    BY <1>15 DEF CallFails, OnError, InFlight
  <1>16. ASSUME NEW h \in Holds, ReplyLost(h)
       PROVE  [Abs!Next]_(Abs!vars)
    <2>1. req' = req /\ pc[h] # "held"
      BY <1>16 DEF ReplyLost
    <2>2. CASE pc[h] = "locking"
      <3>1. PICK s \in Sending(h) : lock[s] = None /\ lock' = [lock EXCEPT ![s] = h]
        BY <1>16, <2>2 DEF ReplyLost
      <3>2. pc' = pc /\ stripped' = stripped /\ s \in Seats
        BY <1>16, <2>2 DEF ReplyLost, Sending
      <3>3. Granted' = Granted /\ Allocation' = Allocation
        BY <2>1, <3>1, <3>2
      <3> QED
        BY <3>3
    <2>3. CASE pc[h] \in {"undoing", "redoing"}
      <3>1. /\ pc' = [pc EXCEPT ![h] = "redoing"]
            /\ DelSeats(Acquired(h)) /\ NoteStripped(h)
        BY <1>16, <2>3 DEF ReplyLost
      <3> QED
        BY <2>1, <2>3, <3>1, DelFreesSeats
    <2>4. CASE pc[h] \in {"unwinding", "planting", "taking", "storing"}
      <3>1. /\ UNCHANGED <<pc, req, stripped>>
            /\ \A x \in Seats : lock'[x] \in {lock[x], None}
        BY <1>16, <2>1, <2>4 DEF ReplyLost, ReleaseIfMatch, Return
      <3> QED
        BY <3>1, FreedSeatsComeBack
    <2> QED
      BY <1>16, <2>2, <2>3, <2>4 DEF ReplyLost
  <1>17. ASSUME NEW h \in Holds, Crash(h)
       PROVE  [Abs!Next]_(Abs!vars)
    BY <1>17 DEF Crash, InFlight
  <1>18. ASSUME QuietStep
       PROVE  [Abs!Next]_(Abs!vars)
    BY <1>18 DEF QuietStep
  <1>19. ~RedisRestart
    BY DEF RedisRestart, Fault
  <1>20. ASSUME NEW r \in Releases, ReleaseReplyLost(r)
       PROVE  [Abs!Next]_(Abs!vars)
    <2>1. /\ UNCHANGED <<pc, req, stripped>>
          /\ \A x \in Seats : lock'[x] \in {lock[x], None}
      BY <1>20 DEF ReleaseReplyLost, ReleaseIfMatch, Return, callVars
    <2> QED
      BY <2>1, FreedSeatsComeBack
  <1>21. ASSUME NEW h \in Holds, Advance(h) PROVE [Abs!Next]_(Abs!vars)
    BY <1>2, <1>3, <1>4, <1>5, <1>6, <1>7, <1>8, <1>9, <1>10, <1>11, <1>12, <1>21,
       Zenon DEF Advance
  <1>22. ASSUME Failure PROVE [Abs!Next]_(Abs!vars)
    BY <1>15, <1>16, <1>17, <1>18, <1>19, <1>20, <1>22, QuietSteps, Zenon DEF Failure
  <1>23. ASSUME NEW r \in Releases, AdvanceRelease(r) PROVE [Abs!Next]_(Abs!vars)
    BY <1>13, <1>18, <1>23, QuietSteps, Zenon DEF AdvanceRelease
  <1> QED
    BY <1>1, <1>14, <1>18, <1>21, <1>22, <1>23, QuietSteps, Zenon DEF Next, Expiry

(* With Redis keeping its keys, the SETNX loop with its rollbacks, expiries *)
(* and faults reserves seats as one atomic step would, as long as no call  *)
(* was stripped of a lock it counts on.                                    *)
THEOREM ImplementsAtomic ==
  ASSUME "restart" \notin FaultKinds
  PROVE  Spec => ImplementsAtomicHolds
  <1>1. Init => Abs!Init
    BY DEF Init, Abs!Init, Allocation, Granted, Whole
  <1>2. TypeInv /\ LockInv /\ [Next]_vars => [Abs!Next]_(Abs!vars)
    BY NextImplementsAtomicHolds
  <1>3. Spec => []TypeInv
    BY InitTypeInv, NextTypeInv, PTL DEF Spec
  <1> QED
    BY <1>1, <1>2, <1>3, LockInvariant, PTL
    DEF Spec, ImplementsAtomicHolds, Abs!Spec

(* As long as nothing failed, locks belong to calls that are taking or     *)
(* have taken their seats, and a call that may still be refused owns no    *)
(* lock but those it knows of, so that its rollback misses none.           *)
LocksAreKnown ==
    faults = 0 =>
        /\ \A h \in Holds : pc[h] \notin {"unwinding", "redoing", "dead"}
        /\ \A s \in Seats : lock[s] # None =>
              /\ pc[lock[s]] \in {"locking", "undoing", "storing", "held"}
              /\ pc[lock[s]] \in {"locking", "undoing"} =>
                    s \in Acquired(lock[s])

(* A fault ends the promise, every other step keeps it.                    *)
LEMMA NextLocksAreKnown ==
  TypeInv /\ LocksAreKnown /\ [Next]_vars => LocksAreKnown'
  <1> SUFFICES ASSUME TypeInv, LocksAreKnown, [Next]_vars, faults' = 0
               PROVE  LocksAreKnown'
    BY DEF LocksAreKnown
  <1> USE BookingAssumption DEF TypeInv, TypeOK, LocksAreKnown, Acquired, Go, redisVars
  <1>1. ASSUME NEW h \in Holds, NEW r \in Requests, CreateHold(h, r)
       PROVE  LocksAreKnown'
    BY <1>1 DEF CreateHold, callVars
  <1>2. ASSUME NEW h \in Holds, NEW t \in Tiers, CheckTier(h, t)
       PROVE  LocksAreKnown'
    BY <1>2 DEF CheckTier, callVars
  <1>3. ASSUME NEW h \in Holds, CheckCap(h)
       PROVE  LocksAreKnown'
    BY <1>3 DEF CheckCap, callVars
  <1>4. ASSUME NEW h \in Holds, NEW s \in Seats, LockSeat(h, s)
       PROVE  LocksAreKnown'
    <2>1. CASE lock[s] = None
      <3>1. /\ lock' = [lock EXCEPT ![s] = h]
            /\ todo' = [todo EXCEPT ![h] = @ \ {s}]
            /\ req' = req /\ faults' = faults
            /\ pc' = [pc EXCEPT ![h] = IF todo[h] = {s} THEN "storing" ELSE "locking"]
        BY <1>4, <2>1 DEF LockSeat
      <3>2. s \in req[h].seats /\ pc[h] = "locking"
        BY <1>4 DEF LockSeat, Sending, CallsAreConsistent
      <3> QED
        BY <3>1, <3>2
    <2>2. CASE lock[s] # None
      BY <1>4, <2>2 DEF LockSeat
    <2> QED
      BY <2>1, <2>2
  <1>5. ASSUME NEW h \in Holds, DelAcquired(h)
       PROVE  LocksAreKnown'
    BY <1>5 DEF DelAcquired, DelSeats, callVars
  <1>6. ASSUME NEW h \in Holds, ProbeCounter(h)
       PROVE  LocksAreKnown'
    BY <1>6 DEF ProbeCounter, callVars
  <1>7. ASSUME NEW h \in Holds, ReadRemaining(h)
       PROVE  LocksAreKnown'
    BY <1>7 DEF ReadRemaining, callVars
  <1>8. ASSUME NEW h \in Holds, PlantSeed(h)
       PROVE  LocksAreKnown'
    BY <1>8 DEF PlantSeed, callVars
  <1>9. ASSUME NEW h \in Holds, TakeCapacity(h)
       PROVE  LocksAreKnown'
    BY <1>9 DEF TakeCapacity, callVars
  <1>10. ASSUME NEW h \in Holds, StoreHold(h)
       PROVE  LocksAreKnown'
    BY <1>10 DEF StoreHold, callVars
  <1>11. ASSUME NEW h \in Holds, NEW s \in Seats, UnwindSeat(h, s)
       PROVE  LocksAreKnown'
    BY <1>11 DEF UnwindSeat
  <1>12. ASSUME NEW h \in Holds, UnwindCapacity(h)
       PROVE  LocksAreKnown'
    BY <1>12 DEF UnwindCapacity
  <1>13. ASSUME NEW r \in Releases, NEW s \in Seats, FreeSeat(r, s)
       PROVE  LocksAreKnown'
    BY <1>13 DEF FreeSeat, ReleaseIfMatch, callVars
  <1>14. ASSUME NEW s \in Seats, LockExpires(s)
       PROVE  LocksAreKnown'
    BY <1>14 DEF LockExpires, callVars
  <1>15. ASSUME QuietStep, faults' = faults
       PROVE  LocksAreKnown'
    BY <1>15 DEF QuietStep
  <1>16. ~Failure
    <2>1. ASSUME NEW k, Fault(k) PROVE FALSE
      BY <2>1 DEF Fault
    <2>2. ASSUME NEW h \in Holds, CallFails(h) \/ ReplyLost(h) \/ Crash(h) PROVE FALSE
      BY <2>1, <2>2, Zenon DEF CallFails, ReplyLost, Crash
    <2>3. ASSUME NEW r \in Releases, ReleaseReplyLost(r) \/ ReleaseStops(r) PROVE FALSE
      BY <2>1, <2>3, Zenon DEF ReleaseReplyLost, ReleaseStops
    <2>4. ~RedisRestart
      BY <2>1 DEF RedisRestart
    <2> QED
      BY <2>2, <2>3, <2>4 DEF Failure
  <1>17. ASSUME \/ \E r \in Releases, h \in Holds : BeginRelease(r, h)
                \/ \E r \in Releases : GiveBack(r) \/ ForgetHold(r)
                \/ \E h \in Holds : MetaExpires(h)
                \/ OrganizerEdit
                \/ UNCHANGED vars
         PROVE  faults' = faults
    BY <1>17 DEF BeginRelease, GiveBack, ForgetHold, MetaExpires, OrganizerEdit,
       ToggleSales, ChangeVenue, PaintSeats, UpdateTicketTier, vars
  <1> QED
    BY <1>1, <1>2, <1>3, <1>4, <1>5, <1>6, <1>7, <1>8, <1>9, <1>10, <1>11, <1>12, <1>13, <1>14, <1>15, <1>16, <1>17, QuietSteps
    DEF Next, Advance, AdvanceRelease, Expiry

(* A refused call has left nothing locked unless a command failed, whatever *)
(* the other buyers, the releases and the organizer did meanwhile; a       *)
(* restart of Redis needs no exception here, since it is a failure.        *)
THEOREM RefusalsLeaveNothing == Spec => []AllOrNothing
  <1>1. Init => LocksAreKnown
    BY DEF Init, LocksAreKnown
  <1>2. LocksAreKnown /\ TypeInv => AllOrNothing
    BY BookingAssumption DEF LocksAreKnown, AllOrNothing, TypeInv, TypeOK
  <1> QED
    BY <1>1, <1>2, InitTypeInv, NextTypeInv, NextLocksAreKnown, PTL DEF Spec

----------------------------------------------------------------------------
(* General admission.  Sums first: a quantity is as many tickets as it     *)
(* says.                                                                   *)
LEMMA TicketsOfOne ==
  ASSUME NEW h, NEW n \in Nat
  PROVE  IsFiniteSet({h} \X (1..n)) /\ Cardinality({h} \X (1..n)) = n
  <1>1. 1 \in Int /\ n \in Int
    OBVIOUS
  <1>2. /\ IsFiniteSet(1..n)
        /\ Cardinality(1..n) = IF 1 > n THEN 0 ELSE n - 1 + 1
    BY <1>1, FS_Interval, Zenon
  <1>3. (IF 1 > n THEN 0 ELSE n - 1 + 1) = n
    OBVIOUS
  <1>4. IsFiniteSet({h}) /\ Cardinality({h}) = 1
    BY FS_Singleton
  <1> DEFINE N == 1..n
  <1>5. IsFiniteSet(N) /\ Cardinality(N) = n
    BY <1>2, <1>3
  <1> HIDE DEF N
  <1>6. /\ IsFiniteSet({h} \X N)
        /\ Cardinality({h} \X N) = Cardinality({h}) * Cardinality(N)
    BY <1>4, <1>5, FS_Product
  <1>7. Cardinality({h}) * Cardinality(N) = n
    BY <1>4, <1>5
  <1> QED
    BY <1>6, <1>7 DEF N

(* A hold that joins others adds its quantity to their tickets.            *)
LEMMA TicketsOfOneMore ==
  ASSUME NEW bodies, NEW H, IsFiniteSet(TicketsOf(bodies, H)),
         NEW h, h \notin H, bodies[h].qty \in Nat
  PROVE  /\ IsFiniteSet(TicketsOf(bodies, H \cup {h}))
         /\ Cardinality(TicketsOf(bodies, H)) \in Nat
         /\ Cardinality(TicketsOf(bodies, H \cup {h}))
               = Cardinality(TicketsOf(bodies, H)) + bodies[h].qty
  <1> DEFINE A == TicketsOf(bodies, H)
             B == {h} \X (1..bodies[h].qty)
  <1>1. IsFiniteSet(A) /\ Cardinality(A) \in Nat
    BY FS_CardinalityType
  <1>2. IsFiniteSet(B) /\ Cardinality(B) = bodies[h].qty
    BY TicketsOfOne
  <1>3. A \cap B = {}
    BY DEF TicketsOf
  <1>4. TicketsOf(bodies, H \cup {h}) = A \cup B
    BY DEF TicketsOf
  <1>5. Cardinality(A \cap B) = 0
    BY <1>3, FS_EmptySet
  <1> HIDE DEF A, B
  <1>6. /\ IsFiniteSet(A \cup B)
        /\ Cardinality(A \cup B)
              = Cardinality(A) + Cardinality(B) - Cardinality(A \cap B)
    BY <1>1, <1>2, FS_Union
  <1>7. Cardinality(A \cup B) = Cardinality(A) + bodies[h].qty
    BY <1>1, <1>2, <1>5, <1>6
  <1> QED
    BY <1>1, <1>4, <1>6, <1>7 DEF A

(* Fewer holds have no more tickets.                                       *)
LEMMA TicketsOfFewer ==
  ASSUME NEW bodies, NEW now, NEW H, IsFiniteSet(TicketsOf(bodies, H)),
         NEW G \in SUBSET H, \A h \in G : now[h] = bodies[h]
  PROVE  /\ IsFiniteSet(TicketsOf(now, G))
         /\ Cardinality(TicketsOf(now, G)) \in Nat
         /\ Cardinality(TicketsOf(bodies, H)) \in Nat
         /\ Cardinality(TicketsOf(now, G)) <= Cardinality(TicketsOf(bodies, H))
  <1>1. TicketsOf(now, G) \subseteq TicketsOf(bodies, H)
    BY DEF TicketsOf
  <1> QED
    BY <1>1, FS_Subset, FS_CardinalityType

(* The tickets of tier t that are out of its counter. *)
Taken(t) == TicketsOf(req, Charged(t))

(* The counter of a tier exists once tickets are out of it, and with them  *)
(* does not exceed the allocation.                                         *)
Fits(t) ==
    /\ IsFiniteSet(Taken(t))
    /\ counter[t] = None => Charged(t) = {}
    /\ counter[t] # None => counter[t] + Cardinality(Taken(t)) <= limit[t]

(* What a call is about to seed the counter with is not above the          *)
(* allocation.                                                             *)
SeedsFit ==
    \A h \in Holds : pc[h] = "planting" /\ req[h].tier \notin miscounted =>
        seed[h] \in Nat /\ seed[h] <= limit[req[h].tier]

(* Only a call that took tickets has given them back. *)
ReturnedWereTaken ==
    \A h \in returned : pc[h] \in {"unwinding", "held"} \cup Finished

CallsFit == SeedsFit /\ ReturnedWereTaken

CapacityInv == CallsFit /\ \A t \in Tiers \ miscounted : Fits(t)

(* A tier without a counter and without tickets out of it is in order.     *)
LEMMA FitsEmpty ==
  ASSUME NEW t \in Tiers, Charged(t) = {}, counter[t] = None
  PROVE  Fits(t)
  <1>1. Taken(t) = {}
    BY DEF Taken, TicketsOf
  <1> QED
    BY <1>1, FS_EmptySet DEF Fits

(* No counter exists at the start.                                         *)
LEMMA InitCapacityInv == Init => CapacityInv
  <1> SUFFICES ASSUME Init PROVE CapacityInv
    OBVIOUS
  <1>1. CallsFit
    BY DEF Init, CallsFit, SeedsFit, ReturnedWereTaken
  <1>2. ASSUME NEW t \in Tiers PROVE Fits(t)
    <2>1. Charged(t) = {} /\ counter[t] = None
      BY DEF Init, Charged, InTransit, Live, Freeing, GAHolds
    <2> QED
      BY <2>1, FitsEmpty
  <1> QED
    BY <1>1, <1>2 DEF CapacityInv

(* A step that charges nobody more, puts nothing into the counter and does *)
(* not lower the allocation.                                               *)
LEMMA FitsAfterLess ==
  ASSUME TypeInv, TypeInv', NEW t \in Tiers, Fits(t),
         limit[t] <= limit'[t],
         Charged(t)' \subseteq Charged(t),
         \A h \in Charged(t)' : req'[h] = req[h],
         \/ counter'[t] = counter[t]
         \/ counter[t] # None /\ counter'[t] # None /\ counter'[t] <= counter[t]
  PROVE  Fits(t)'
  <1>1. /\ IsFiniteSet(TicketsOf(req', Charged(t)'))
        /\ Cardinality(TicketsOf(req', Charged(t)')) \in Nat
        /\ Cardinality(TicketsOf(req, Charged(t))) \in Nat
        /\ Cardinality(TicketsOf(req', Charged(t)'))
              <= Cardinality(TicketsOf(req, Charged(t)))
    BY TicketsOfFewer DEF Fits, Taken
  <1>2. /\ Taken(t)' = TicketsOf(req', Charged(t)')
        /\ Taken(t) = TicketsOf(req, Charged(t))
    BY DEF Taken
  <1>3. /\ counter[t] \in Nat \cup {None} /\ counter'[t] \in Nat \cup {None}
        /\ limit[t] \in Nat /\ limit'[t] \in Nat
    BY DEF TypeInv, TypeOK
  <1>4. counter'[t] = None => Charged(t)' = {}
    BY DEF Fits
  <1>5. ASSUME counter'[t] # None
        PROVE  counter'[t] + Cardinality(Taken(t)') <= limit'[t]
    <2>1. /\ counter[t] # None /\ counter[t] \in Nat /\ counter'[t] \in Nat
          /\ counter'[t] <= counter[t]
      BY <1>3, <1>5
    <2>2. counter[t] + Cardinality(Taken(t)) <= limit[t]
      BY <2>1 DEF Fits
    <2> QED
      BY <1>1, <1>2, <1>3, <2>1, <2>2
  <1> QED
    BY <1>1, <1>2, <1>4, <1>5 DEF Fits

(* A call that takes tickets out of the counter is charged with them from  *)
(* then on.                                                                *)
LEMMA FitsAfterTake ==
  ASSUME TypeInv, TypeInv', NEW t \in Tiers, Fits(t),
         limit' = limit, NEW h \in Holds, h \notin Charged(t),
         Charged(t)' = Charged(t) \cup {h}, req' = req,
         counter[t] # None, req[h].qty <= counter[t],
         counter'[t] = counter[t] - req[h].qty
  PROVE  Fits(t)'
  <1>1. req[h].qty \in Nat /\ counter[t] \in Nat /\ limit[t] \in Nat
    BY DEF TypeInv, TypeOK, Request
  <1>2. /\ IsFiniteSet(TicketsOf(req, Charged(t) \cup {h}))
        /\ Cardinality(TicketsOf(req, Charged(t))) \in Nat
        /\ Cardinality(TicketsOf(req, Charged(t) \cup {h}))
              = Cardinality(TicketsOf(req, Charged(t))) + req[h].qty
    BY <1>1, TicketsOfOneMore DEF Fits, Taken
  <1>3. Taken(t)' = TicketsOf(req, Charged(t) \cup {h})
    BY DEF Taken
  <1>4. counter[t] + Cardinality(TicketsOf(req, Charged(t))) <= limit[t]
    BY DEF Fits, Taken
  <1>5. counter'[t] # None /\ counter'[t] \in Nat
    BY <1>1, BookingAssumption
  <1>6. counter'[t] + Cardinality(Taken(t)') <= limit'[t]
    BY <1>1, <1>2, <1>3, <1>4
  <1> QED
    BY <1>2, <1>3, <1>5, <1>6 DEF Fits

(* Tickets that were out of the counter come back to it.                   *)
LEMMA FitsAfterReturn ==
  ASSUME TypeInv, TypeInv', NEW t \in Tiers, Fits(t),
         limit' = limit, NEW h \in Charged(t),
         Charged(t)' \subseteq Charged(t) \ {h}, req' = req,
         counter[t] # None => counter'[t] = counter[t] + req[h].qty
  PROVE  Fits(t)'
  <1> DEFINE Others == Charged(t) \ {h}
  <1>1. h \in Holds
    BY DEF Charged, InTransit, GAHolds
  <1>2. req[h].qty \in Nat /\ limit[t] \in Nat
    BY <1>1 DEF TypeInv, TypeOK, Request
  <1>3. /\ counter[t] # None /\ counter[t] \in Nat
        /\ counter'[t] = counter[t] + req[h].qty
    BY DEF Fits, TypeInv, TypeOK
  <1>4. counter'[t] # None
    BY <1>2, <1>3, BookingAssumption
  <1>5. /\ IsFiniteSet(TicketsOf(req, Others))
        /\ Cardinality(TicketsOf(req, Others)) \in Nat
    BY TicketsOfFewer DEF Fits, Taken
  <1>6. Cardinality(TicketsOf(req, Charged(t)))
           = Cardinality(TicketsOf(req, Others)) + req[h].qty
    <2>1. Others \cup {h} = Charged(t) /\ h \notin Others
      OBVIOUS
    <2> HIDE DEF Others
    <2>2. Cardinality(TicketsOf(req, Others \cup {h}))
             = Cardinality(TicketsOf(req, Others)) + req[h].qty
      BY <1>2, <1>5, <2>1, TicketsOfOneMore
    <2> QED
      BY <2>1, <2>2
  <1>7. /\ IsFiniteSet(Taken(t)') /\ Cardinality(Taken(t)') \in Nat
        /\ Cardinality(Taken(t)') <= Cardinality(TicketsOf(req, Others))
    <2>1. Taken(t)' = TicketsOf(req, Charged(t)')
      BY DEF Taken
    <2> HIDE DEF Others
    <2>2. Charged(t)' \in SUBSET Others
      BY DEF Others
    <2> QED
      BY <1>5, <2>1, <2>2, TicketsOfFewer
  <1>8. counter[t] + Cardinality(TicketsOf(req, Charged(t))) <= limit[t]
    BY <1>3 DEF Fits, Taken
  <1> HIDE DEF Others
  <1>9. counter'[t] + Cardinality(Taken(t)') <= limit'[t]
    BY <1>2, <1>3, <1>5, <1>6, <1>7, <1>8
  <1> QED
    BY <1>4, <1>7, <1>9 DEF Fits

(* The first to plant a counter plants no more than the allocation.        *)
LEMMA FitsAfterPlant ==
  ASSUME TypeInv, NEW t \in Tiers, Fits(t), limit' = limit,
         Charged(t)' \subseteq Charged(t), req' = req,
         counter[t] = None, counter'[t] \in Nat, counter'[t] <= limit[t]
  PROVE  Fits(t)'
  <1>1. Charged(t)' = {} /\ limit[t] \in Nat
    BY DEF Fits, TypeInv, TypeOK
  <1>2. Taken(t)' = {}
    BY <1>1 DEF Taken, TicketsOf
  <1>3. IsFiniteSet(Taken(t)') /\ Cardinality(Taken(t)') = 0
    BY <1>2, FS_EmptySet
  <1>4. counter'[t] # None
    BY BookingAssumption
  <1> QED
    BY <1>1, <1>3, <1>4 DEF Fits

(* Steps that charge nobody, with the same bodies of requests.             *)
NoMoreCharged ==
    \A t \in Tiers : /\ Charged(t)' \subseteq Charged(t)
                     /\ \A h \in Charged(t)' : req'[h] = req[h]

(* And leave the counters and allocations alone. *)
Calm ==
    /\ counter' = counter /\ limit' = limit
    /\ miscounted \subseteq miscounted'
    /\ NoMoreCharged
    /\ CallsFit'

(* They preserve the invariant.                                            *)
LEMMA CalmFits ==
  ASSUME TypeInv, TypeInv', CapacityInv, Calm
  PROVE  CapacityInv'
  <1>1. ASSUME NEW t \in Tiers, t \notin miscounted' PROVE Fits(t)'
    <2>1. Fits(t) /\ limit[t] <= limit'[t]
      BY <1>1 DEF CapacityInv, Calm, TypeInv, TypeOK
    <2> QED
      BY <2>1, FitsAfterLess DEF Calm, NoMoreCharged
  <1> QED
    BY <1>1 DEF CapacityInv, Calm

(* Most steps are calm: the checks of a call, locks, metadata, expiries,   *)
(* edits of the seats, failures before a command takes effect.             *)
LEMMA CalmSteps ==
  ASSUME TypeInv, CapacityInv,
         \/ \E h \in Holds, r \in Requests : CreateHold(h, r)
         \/ \E h \in Holds, t \in Tiers : CheckTier(h, t)
         \/ \E h \in Holds : CheckCap(h)
         \/ \E h \in Holds, s \in Seats : LockSeat(h, s)
         \/ \E h \in Holds : DelAcquired(h)
         \/ \E h \in Holds : ProbeCounter(h)
         \/ \E h \in Holds : ReadRemaining(h)
         \/ \E h \in Holds : StoreHold(h)
         \/ \E h \in Holds, s \in Seats : UnwindSeat(h, s)
         \/ \E r \in Releases, h \in Holds : BeginRelease(r, h)
         \/ \E r \in Releases, s \in Seats : FreeSeat(r, s)
         \/ \E r \in Releases : ForgetHold(r)
         \/ \E s \in Seats : LockExpires(s)
         \/ \E h \in Holds : MetaExpires(h)
         \/ \E t \in Tiers : ToggleSales(t)
         \/ ChangeVenue
         \/ \E p \in Paintings : PaintSeats(p)
         \/ \E h \in Holds : CallFails(h)
         \/ \E h \in Holds : Crash(h)
         \/ \E r \in Releases : ReleaseStops(r)
         \/ UNCHANGED vars
  PROVE  Calm
  <1> USE BookingAssumption DEF TypeInv, TypeOK, CapacityInv, CallsFit,
        SeedsFit, ReturnedWereTaken, Calm, NoMoreCharged, Charged, InTransit,
        GAHolds, Seated, Live, Freeing, Go, callVars, releaseVars, redisVars,
        eventVars, history, Finished
  <1>1. ASSUME NEW h \in Holds, NEW r \in Requests, CreateHold(h, r)
        PROVE  Calm
    BY <1>1 DEF CreateHold, ReleasesWorkOnHolds
  <1>2. ASSUME NEW h \in Holds, NEW t \in Tiers, CheckTier(h, t)
        PROVE  Calm
    BY <1>2 DEF CheckTier
  <1>3. ASSUME NEW h \in Holds, CheckCap(h)
        PROVE  Calm
    BY <1>3 DEF CheckCap
  <1>4. ASSUME NEW h \in Holds, NEW s \in Seats, LockSeat(h, s)
        PROVE  Calm
    <2>1. Seated(h)
      BY <1>4 DEF LockSeat, Sending, CallsAreConsistent
    <2> QED
      BY <1>4, <2>1 DEF LockSeat
  <1>5. ASSUME NEW h \in Holds, DelAcquired(h)
        PROVE  Calm
    BY <1>5 DEF DelAcquired
  <1>6. ASSUME NEW h \in Holds, ProbeCounter(h)
        PROVE  Calm
    BY <1>6 DEF ProbeCounter
  <1>7. ASSUME NEW h \in Holds, ReadRemaining(h)
        PROVE  Calm
    <2>1. pc[h] = "seeding" /\ req[h].tier \in Tiers
      BY <1>7 DEF ReadRemaining, CallsAreConsistent, Running, WellFormed
    <2>2. limit[req[h].tier] \in Nat
      BY <2>1
    <2>3. CallsFit'
      BY <1>7, <2>1, <2>2 DEF ReadRemaining
    <2>4. NoMoreCharged
      BY <1>7 DEF ReadRemaining
    <2> QED
      BY <1>7, <2>3, <2>4 DEF ReadRemaining
  <1>8. ASSUME NEW h \in Holds, StoreHold(h)
        PROVE  Calm
    <2>1. /\ pc[h] = "storing" /\ pc' = [pc EXCEPT ![h] = "held"]
          /\ meta' = [meta EXCEPT ![h] = TRUE]
          /\ UNCHANGED <<counter, req, seed, relPc, relHold, limit, history>>
      BY <1>8 DEF StoreHold
    <2>2. CallsFit'
      BY <2>1
    <2>3. NoMoreCharged
      BY <2>1
    <2> QED
      BY <2>1, <2>2, <2>3
  <1>9. ASSUME NEW h \in Holds, NEW s \in Seats, UnwindSeat(h, s)
        PROVE  Calm
    BY <1>9 DEF UnwindSeat
  <1>10. ASSUME NEW r \in Releases, NEW h \in Holds, BeginRelease(r, h)
        PROVE  Calm
    BY <1>10 DEF BeginRelease
  <1>11. ASSUME NEW r \in Releases, NEW s \in Seats, FreeSeat(r, s)
        PROVE  Calm
    BY <1>11 DEF FreeSeat
  <1>12. ASSUME NEW r \in Releases, ForgetHold(r)
        PROVE  Calm
    BY <1>12 DEF ForgetHold, RestSlot, ReleasesWorkOnHolds
  <1>13. ASSUME NEW s \in Seats, LockExpires(s)
        PROVE  Calm
    BY <1>13 DEF LockExpires
  <1>14. ASSUME NEW h \in Holds, MetaExpires(h)
        PROVE  Calm
    BY <1>14 DEF MetaExpires
  <1>15. ASSUME \/ \E t \in Tiers : ToggleSales(t)
                \/ ChangeVenue
                \/ \E p \in Paintings : PaintSeats(p)
        PROVE  Calm
    BY <1>15 DEF ToggleSales, ChangeVenue, PaintSeats
  <1>16. ASSUME NEW h \in Holds, CallFails(h)
        PROVE  Calm
    BY <1>16 DEF CallFails, OnError, InFlight
  <1>17. ASSUME NEW h \in Holds, Crash(h)
        PROVE  Calm
    BY <1>17 DEF Crash, InFlight
  <1>18. ASSUME NEW r \in Releases, ReleaseStops(r)
        PROVE  Calm
    BY <1>18 DEF ReleaseStops, RestSlot, ReleasesWorkOnHolds
  <1>19. ASSUME UNCHANGED vars
        PROVE  Calm
    BY <1>19 DEF vars
  <1> QED
    BY <1>1, <1>2, <1>3, <1>4, <1>5, <1>6, <1>7, <1>8, <1>9, <1>10, <1>11,
       <1>12, <1>13, <1>14, <1>15, <1>16, <1>17, <1>18, <1>19, Zenon

(* The SETNX of a seeder, whether its reply arrives or not. *)
LEMMA PlantFits ==
  ASSUME TypeInv, TypeInv', CapacityInv, CallsFit', NoMoreCharged,
         UNCHANGED <<req, limit, miscounted>>,
         NEW h \in Holds, pc[h] = "planting", counter' = Planted(h)
  PROVE  CapacityInv'
  <1> DEFINE u == req[h].tier
  <1>1. ASSUME NEW t \in Tiers, t \notin miscounted' PROVE Fits(t)'
    <2>1. Fits(t) /\ limit[t] <= limit'[t]
      BY <1>1 DEF CapacityInv, TypeInv, TypeOK
    <2>2. CASE counter'[t] = counter[t]
      BY <2>1, <2>2, FitsAfterLess DEF NoMoreCharged
    <2>3. CASE counter'[t] # counter[t]
      <3>1. u = t /\ counter[t] = None /\ counter'[t] = seed[h]
        BY <2>3 DEF Planted, TypeInv, TypeOK
      <3>2. seed[h] \in Nat /\ seed[h] <= limit[t]
        BY <1>1, <3>1 DEF CapacityInv, CallsFit, SeedsFit
      <3> QED
        BY <2>1, <3>1, <3>2, FitsAfterPlant DEF NoMoreCharged
    <2> QED
      BY <2>2, <2>3
  <1> QED
    BY <1>1 DEF CapacityInv

(* The script takes no more than there is.                                 *)
LEMMA TakeCapacityFits ==
  ASSUME TypeInv, TypeInv', CapacityInv, NEW h \in Holds, TakeCapacity(h)
  PROVE  CapacityInv'
  <1> DEFINE u == req[h].tier
             q == req[h].qty
  <1>1. /\ pc[h] = "taking"
        /\ UNCHANGED <<req, seed, meta, relPc, relHold, limit, returned,
                       miscounted>>
    BY DEF TakeCapacity, releaseVars, eventVars, history
  <1>2. ~Seated(h) /\ u \in Tiers /\ q \in Nat /\ q > 0
    BY <1>1 DEF TypeInv, TypeOK, CallsAreConsistent, WellFormed, Seated,
                Running, Request
  <1>3. h \notin returned
    BY <1>1 DEF CapacityInv, CallsFit, ReturnedWereTaken, Finished
  <1>4. CASE ~Enough(u, q)
    <2>1. counter' = counter /\ pc' = [pc EXCEPT ![h] = "refused"]
      BY <1>4 DEF TakeCapacity, Go
    <2>2. CallsFit'
      BY <1>1, <2>1 DEF CapacityInv, CallsFit, SeedsFit, ReturnedWereTaken,
                        TypeInv, TypeOK, Finished
    <2>3. NoMoreCharged
      BY <1>1, <2>1 DEF NoMoreCharged, TypeInv, TypeOK, Charged, InTransit,
                        GAHolds, Seated, Live, Freeing
    <2> QED
      BY <1>1, <2>1, <2>2, <2>3, CalmFits DEF Calm
  <1>5. CASE Enough(u, q)
    <2>1. /\ counter' = [counter EXCEPT ![u] = @ - q]
          /\ pc' = [pc EXCEPT ![h] = "storing"]
      BY <1>5 DEF TakeCapacity, Go
    <2>2. CallsFit'
      BY <1>1, <1>3, <2>1 DEF CapacityInv, CallsFit, SeedsFit, TypeInv, TypeOK,
                              ReturnedWereTaken
    <2>3. h \notin Charged(u) /\ Charged(u)' = Charged(u) \cup {h}
      <3>1. ~Freeing(h)
        BY <1>1 DEF TypeInv, ReleasesWorkOnHolds, TypeOK, Freeing
      <3> QED
        BY <1>1, <1>2, <1>3, <2>1, <3>1
           DEF TypeInv, TypeOK, Charged, InTransit, GAHolds, Seated, Live,
               Freeing
    <2>4. ASSUME NEW t \in Tiers, t # u PROVE Charged(t)' \subseteq Charged(t)
      BY <1>1, <2>1, <2>4 DEF TypeInv, TypeOK, Charged, InTransit, GAHolds,
                              Seated, Live, Freeing
    <2>5. ASSUME NEW t \in Tiers, t \notin miscounted' PROVE Fits(t)'
      <3> Fits(t) /\ limit[t] <= limit'[t]
        BY <1>1, <2>5 DEF CapacityInv, TypeInv, TypeOK
      <3>1. CASE t = u
        <4>1. /\ counter[u] # None /\ q <= counter[u]
              /\ counter'[u] = counter[u] - q
          BY <1>2, <1>5, <2>1 DEF Enough, TypeInv, TypeOK
        <4> QED
          BY <1>1, <1>2, <2>3, <3>1, <4>1, FitsAfterTake
      <3>2. CASE t # u
        <4>1. counter'[t] = counter[t]
          BY <1>2, <2>1, <3>2 DEF TypeInv, TypeOK
        <4> QED
          BY <1>1, <2>4, <3>2, <4>1, FitsAfterLess
      <3> QED
        BY <3>1, <3>2
    <2> QED
      BY <2>2, <2>5 DEF CapacityInv
  <1> QED
    BY <1>4, <1>5

(* An INCRBY for a hold that is charged makes up for its tickets; one for  *)
(* a hold that is charged no more is noted.                                *)
LEMMA ReturnFits ==
  ASSUME TypeInv, TypeInv', CapacityInv, CallsFit', NoMoreCharged,
         UNCHANGED <<req, limit>>,
         NEW h \in Holds, Return(h), req[h].tier \in Tiers,
         h \in returned \/ h \in Charged(req[h].tier)
  PROVE  CapacityInv'
  <1> DEFINE u == req[h].tier
  <1>1. counter' = GivenBack(h) /\ returned' = returned \cup {h}
    BY DEF Return
  <1>2. ASSUME NEW t \in Tiers, t \notin miscounted' PROVE Fits(t)'
    <2>1. Fits(t) /\ limit[t] <= limit'[t]
      BY <1>2 DEF CapacityInv, TypeInv, TypeOK, Return
    <2>2. CASE t = u
      <3>1. h \notin returned
        BY <1>2, <2>2 DEF Return
      <3>2. counter[u] # None => counter'[u] = counter[u] + req[h].qty
        BY <1>1 DEF GivenBack, TypeInv, TypeOK
      <3>3. Charged(u)' \subseteq Charged(u) \ {h}
        BY <1>1 DEF NoMoreCharged, Charged, InTransit
      <3> QED
        BY <2>1, <2>2, <3>1, <3>2, <3>3, FitsAfterReturn
    <2>3. CASE t # u
      <3>1. counter'[t] = counter[t]
        BY <1>1, <2>3 DEF GivenBack, TypeInv, TypeOK
      <3> QED
        BY <2>1, <3>1, FitsAfterLess DEF NoMoreCharged
    <2> QED
      BY <2>2, <2>3
  <1> QED
    BY <1>2 DEF CapacityInv

(* The rollback of a call whose metadata could not be stored.              *)
LEMMA UnwindCapacityFits ==
  ASSUME TypeInv, TypeInv', CapacityInv, NEW h \in Holds,
         pc[h] = "unwinding", ~Seated(h), Return(h),
         pc' = pc \/ pc' = [pc EXCEPT ![h] = "refused"],
         UNCHANGED <<req, seed, meta, relPc, relHold, limit>>
  PROVE  CapacityInv'
  <1>1. WellFormed(req[h])
    BY DEF TypeInv, CallsAreConsistent, Running
  <1>2. CallsFit'
    BY DEF CapacityInv, CallsFit, SeedsFit, ReturnedWereTaken, Return, TypeInv,
           TypeOK, Finished
  <1>3. req[h].tier \in Tiers /\ (h \in returned \/ h \in Charged(req[h].tier))
    BY <1>1 DEF Charged, InTransit, GAHolds, WellFormed, Seated
  <1>4. NoMoreCharged
    BY DEF NoMoreCharged, Return, TypeInv, TypeOK, Charged, InTransit, GAHolds,
           Seated, Live, Freeing
  <1> QED
    BY <1>2, <1>3, <1>4, ReturnFits

(* The release of a hold. *)
LEMMA GiveBackFits ==
  ASSUME TypeInv, TypeInv', CapacityInv, NEW r \in Releases,
         relPc[r] = "freeing", ~Seated(relHold[r]), Return(relHold[r]),
         relPc' = relPc \/ relPc' = [relPc EXCEPT ![r] = "forgetting"],
         UNCHANGED <<pc, req, seed, meta, relHold, limit>>
  PROVE  CapacityInv'
  <1>1. PICK h \in Holds : h = relHold[r] /\ pc[h] = "held" /\ WellFormed(req[h])
    BY DEF TypeInv, ReleasesWorkOnHolds, CallsAreConsistent
  <1>2. CallsFit'
    BY <1>1 DEF CapacityInv, CallsFit, SeedsFit, ReturnedWereTaken, Return
  <1>3. req[h].tier \in Tiers /\ (h \in returned \/ h \in Charged(req[h].tier))
    BY <1>1 DEF Charged, InTransit, GAHolds, WellFormed, Seated, Freeing
  <1>4. NoMoreCharged
    BY <1>1 DEF NoMoreCharged, Return, TypeInv, TypeOK, Charged, InTransit,
                GAHolds, Seated, Live, Freeing
  <1> QED
    BY <1>1, <1>2, <1>3, <1>4, ReturnFits

(* A write of a call that takes effect and is sent again: a lock or a      *)
(* metadata key changes no count, a counter is planted as ever, tickets    *)
(* taken twice are lost to the counter and sold to nobody, and tickets     *)
(* given back twice are noted.                                             *)
LEMMA ReplyLostFits ==
  ASSUME TypeInv, TypeInv', CapacityInv, NEW h \in Holds, ReplyLost(h)
  PROVE  CapacityInv'
  <1>1. UNCHANGED <<req, todo, seed, relPc, relHold, limit>>
    BY DEF ReplyLost, releaseVars, eventVars
  <1>2. CASE /\ pc[h] = "unwinding" /\ ~Seated(h) /\ Return(h)
             /\ UNCHANGED <<pc, meta>>
    BY <1>1, <1>2, UnwindCapacityFits
  <1>3. CASE /\ UNCHANGED <<returned, miscounted>>
             /\ ~(pc[h] = "unwinding" /\ ~Seated(h) /\ Return(h))
    <2>1. \/ pc' = pc
          \/ pc[h] \in {"undoing", "redoing"} /\ pc' = [pc EXCEPT ![h] = "redoing"]
      BY <1>3 DEF ReplyLost, Go
    <2>2. CallsFit'
      BY <1>1, <1>3, <2>1 DEF CapacityInv, CallsFit, SeedsFit, Finished,
           ReturnedWereTaken, TypeInv, TypeOK
    <2>3. \A g \in Holds : \/ meta'[g] = meta[g]
                           \/ g = h /\ pc[h] = "storing"
      BY <1>3 DEF ReplyLost, TypeInv, TypeOK
    <2>4. NoMoreCharged
      BY <1>1, <1>3, <2>1, <2>3 DEF NoMoreCharged, TypeInv, TypeOK, Charged,
           InTransit, GAHolds, Seated, Live, Freeing
    <2>5. CASE counter' = counter
      BY <1>1, <1>3, <2>2, <2>4, <2>5, CalmFits DEF Calm
    <2>6. CASE pc[h] = "planting" /\ counter' # counter
      <3>1. counter' = Planted(h)
        BY <2>6 DEF ReplyLost
      <3> QED
        BY <1>1, <1>3, <2>2, <2>4, <2>6, <3>1, PlantFits
    <2>7. CASE pc[h] = "taking"
      <3> DEFINE u == req[h].tier
                 q == req[h].qty
      <3>1. /\ Enough(u, q) /\ counter' = [counter EXCEPT ![u] = @ - q]
            /\ u \in Tiers /\ q \in Nat
        BY <2>7 DEF ReplyLost, TypeInv, TypeOK, CallsAreConsistent, WellFormed,
                    Seated, Running, Request
      <3>2. ASSUME NEW t \in Tiers, t \notin miscounted' PROVE Fits(t)'
        <4>1. Fits(t) /\ limit[t] <= limit'[t]
          BY <1>1, <1>3, <3>2 DEF CapacityInv, TypeInv, TypeOK
        <4>2. CASE t = u
          <5>1. /\ counter[t] # None /\ counter[t] \in Nat /\ q <= counter[t]
                /\ counter'[t] = counter[t] - q
            BY <3>1, <4>2 DEF Enough, TypeInv, TypeOK
          <5>2. counter'[t] \in Nat /\ counter'[t] <= counter[t]
            BY <3>1, <5>1
          <5>3. counter'[t] # None
            BY <5>2, BookingAssumption
          <5> QED
            BY <2>4, <4>1, <5>1, <5>2, <5>3, FitsAfterLess DEF NoMoreCharged
        <4>3. CASE t # u
          <5>1. counter'[t] = counter[t]
            BY <3>1, <4>3 DEF TypeInv, TypeOK
          <5> QED
            BY <2>4, <4>1, <5>1, FitsAfterLess DEF NoMoreCharged
        <4> QED
          BY <4>2, <4>3
      <3> QED
        BY <2>2, <3>2 DEF CapacityInv
    <2>8. pc[h] \notin {"planting", "taking"} => counter' = counter
      BY <1>3 DEF ReplyLost
    <2> QED
      BY <2>5, <2>6, <2>7, <2>8
  <1> QED
    BY <1>2, <1>3 DEF ReplyLost, history

(* The same of a release. *)
LEMMA ReleaseReplyLostFits ==
  ASSUME TypeInv, TypeInv', CapacityInv, NEW r \in Releases, ReleaseReplyLost(r)
  PROVE  CapacityInv'
  <1>1. UNCHANGED <<pc, req, seed, relPc, relHold, limit>>
    BY DEF ReleaseReplyLost, callVars, releaseVars, eventVars
  <1>2. CASE /\ relPc[r] = "freeing" /\ ~Seated(relHold[r])
             /\ Return(relHold[r]) /\ meta' = meta
    BY <1>1, <1>2, GiveBackFits
  <1>3. CASE /\ UNCHANGED <<counter, returned, miscounted>>
             /\ \A h \in Holds : meta'[h] => meta[h]
    <2>1. CallsFit'
      BY <1>1, <1>3 DEF CapacityInv, CallsFit, SeedsFit, ReturnedWereTaken
    <2>2. NoMoreCharged
      BY <1>1, <1>3 DEF NoMoreCharged, TypeInv, TypeOK, Charged, InTransit,
           GAHolds, Seated, Live, Freeing
    <2> QED
      BY <1>1, <1>3, <2>1, <2>2, CalmFits DEF Calm
  <1> QED
    BY <1>2, <1>3 DEF ReleaseReplyLost, history, TypeInv, TypeOK

(* A new allocation: a higher one leaves room, a lower one is noted or     *)
(* comes before there is a counter.                                        *)
LEMMA UpdateTicketTierFits ==
  ASSUME TypeInv, TypeInv', CapacityInv, NEW u \in Tiers, NEW n \in Allocations,
         UpdateTicketTier(u, n)
  PROVE  CapacityInv'
  <1>1. /\ UNCHANGED <<pc, req, seed, meta, relPc, relHold, counter, returned>>
        /\ limit' = [limit EXCEPT ![u] = n] /\ n \in Nat
        /\ miscounted \subseteq miscounted'
    BY BookingAssumption DEF UpdateTicketTier, callVars, releaseVars, redisVars
  <1>2. NoMoreCharged
    BY <1>1 DEF NoMoreCharged, Charged, InTransit, GAHolds, Seated, Live, Freeing
  <1>3. u \notin miscounted' =>
           \/ limit[u] <= n
           \/ counter[u] = None /\ \A h \in Holds :
                 pc[h] = "planting" => req[h].tier # u
    BY <1>1 DEF UpdateTicketTier, TypeInv, TypeOK
  <1>4. CallsFit'
    <2>1. ASSUME NEW h \in Holds, pc[h] = "planting", req[h].tier \notin miscounted'
          PROVE  seed[h] \in Nat /\ seed[h] <= limit'[req[h].tier]
      <3>1. /\ seed[h] \in Nat /\ seed[h] <= limit[req[h].tier]
            /\ req[h].tier \in Tiers
        BY <1>1, <2>1 DEF CapacityInv, CallsFit, SeedsFit, TypeInv,
             CallsAreConsistent, Running, WellFormed, Seated
      <3>2. limit[req[h].tier] \in Nat
        BY <3>1 DEF TypeInv, TypeOK
      <3>3. CASE req[h].tier = u
        BY <1>1, <1>3, <2>1, <3>1, <3>2, <3>3 DEF TypeInv, TypeOK
      <3>4. CASE req[h].tier # u
        BY <1>1, <3>1, <3>4 DEF TypeInv, TypeOK
      <3> QED
        BY <3>3, <3>4
    <2>2. SeedsFit'
      BY <1>1, <2>1 DEF SeedsFit
    <2>3. ReturnedWereTaken'
      BY <1>1 DEF CapacityInv, CallsFit, ReturnedWereTaken
    <2> QED
      BY <2>2, <2>3 DEF CallsFit
  <1>5. ASSUME NEW t \in Tiers, t \notin miscounted' PROVE Fits(t)'
    <2>1. Fits(t)
      BY <1>1, <1>5 DEF CapacityInv
    <2>2. CASE limit[t] <= limit'[t]
      BY <1>1, <1>2, <2>1, <2>2, FitsAfterLess DEF NoMoreCharged
    <2>3. CASE ~(limit[t] <= limit'[t])
      <3>1. t = u
        BY <1>1, <2>3 DEF TypeInv, TypeOK
      <3>2. counter[t] = None
        BY <1>1, <1>3, <1>5, <2>3, <3>1 DEF TypeInv, TypeOK
      <3>3. Charged(t)' = {} /\ counter'[t] = None
        BY <1>1, <1>2, <2>1, <3>2 DEF Fits, NoMoreCharged
      <3>4. Taken(t)' = {}
        BY <3>3 DEF Taken, TicketsOf
      <3> QED
        BY <3>3, <3>4, FS_EmptySet DEF Fits
    <2> QED
      BY <2>2, <2>3
  <1> QED
    BY <1>4, <1>5 DEF CapacityInv

(* Redis starts again: no counter is left, and the tiers whose tickets are *)
(* in somebody's hands are noted.                                          *)
LEMMA RedisRestartFits ==
  ASSUME TypeInv, TypeInv', CapacityInv, RedisRestart
  PROVE  CapacityInv'
  <1>1. /\ UNCHANGED <<pc, req, seed, relPc, relHold, limit, returned>>
        /\ meta' = [h \in Holds |-> FALSE]
        /\ counter' = [t \in Tiers |-> None]
        /\ miscounted' = miscounted \cup {t \in Tiers : InTransit(t) # {}}
    BY DEF RedisRestart, callVars, releaseVars, eventVars
  <1>2. CallsFit'
    BY <1>1 DEF CapacityInv, CallsFit, SeedsFit, ReturnedWereTaken
  <1>3. ASSUME NEW t \in Tiers, t \notin miscounted' PROVE Fits(t)'
    <2>1. InTransit(t) = {} /\ InTransit(t)' = InTransit(t)
      BY <1>1, <1>3 DEF InTransit, GAHolds, Seated, Freeing
    <2>2. Charged(t)' = {} /\ counter'[t] = None
      BY <1>1, <2>1 DEF Charged, GAHolds, Live
    <2>3. Taken(t)' = {}
      BY <2>2 DEF Taken, TicketsOf
    <2> QED
      BY <2>2, <2>3, FS_EmptySet DEF Fits
  <1> QED
    BY <1>2, <1>3 DEF CapacityInv

(* Every step preserves the invariant. *)
LEMMA NextCapacityInv ==
  ASSUME TypeInv, CapacityInv, [Next]_vars
  PROVE  CapacityInv'
  <1>1. TypeInv'
    BY NextTypeInv
  <1>2. ASSUME NEW h \in Holds, PlantSeed(h) PROVE CapacityInv'
    <2>1. /\ pc[h] = "planting" /\ counter' = Planted(h)
          /\ pc' = [pc EXCEPT ![h] = "taking"]
          /\ UNCHANGED <<req, seed, meta, relPc, relHold, limit, returned,
                         miscounted>>
      BY <1>2 DEF PlantSeed, Go, releaseVars, eventVars, history
    <2>2. CallsFit'
      BY <2>1 DEF CapacityInv, CallsFit, SeedsFit, ReturnedWereTaken, TypeInv,
                  TypeOK, Finished
    <2>3. NoMoreCharged
      BY <2>1 DEF NoMoreCharged, TypeInv, TypeOK, Charged, InTransit, GAHolds,
                  Seated, Live, Freeing
    <2> QED
      BY <1>1, <2>1, <2>2, <2>3, PlantFits
  <1>3. ASSUME NEW h \in Holds, TakeCapacity(h) PROVE CapacityInv'
    BY <1>1, <1>3, TakeCapacityFits
  <1>4. ASSUME NEW h \in Holds, UnwindCapacity(h) PROVE CapacityInv'
    BY <1>1, <1>4, UnwindCapacityFits
       DEF UnwindCapacity, Go, releaseVars, eventVars
  <1>5. ASSUME NEW r \in Releases, GiveBack(r) PROVE CapacityInv'
    BY <1>1, <1>5, GiveBackFits DEF GiveBack, callVars, eventVars
  <1>6. ASSUME NEW h \in Holds, ReplyLost(h) PROVE CapacityInv'
    BY <1>1, <1>6, ReplyLostFits
  <1>7. ASSUME NEW r \in Releases, ReleaseReplyLost(r) PROVE CapacityInv'
    BY <1>1, <1>7, ReleaseReplyLostFits
  <1>8. ASSUME NEW t \in Tiers, NEW n \in Allocations, UpdateTicketTier(t, n)
        PROVE  CapacityInv'
    BY <1>1, <1>8, UpdateTicketTierFits
  <1>9. ASSUME RedisRestart PROVE CapacityInv'
    BY <1>1, <1>9, RedisRestartFits
  <1>10. ASSUME Calm PROVE CapacityInv'
    BY <1>1, <1>10, CalmFits
  <1> QED
    BY <1>2, <1>3, <1>4, <1>5, <1>6, <1>7, <1>8, <1>9, <1>10, CalmSteps
    DEF Next, Advance, AdvanceRelease, Expiry, OrganizerEdit, Failure

(* A live hold whose tickets are back on sale is being released, or its    *)
(* tier is noted.                                                          *)
KeptInv == \A t \in Tiers \ miscounted : Kept(t) = {}

(* A step that gives nothing back, makes no hold live and ends no release. *)
LEMMA KeptQuietly ==
  ASSUME KeptInv, returned' = returned, miscounted \subseteq miscounted',
         \A h \in Holds : Live(h)' => Live(h) /\ req'[h] = req[h],
         \A h \in Holds : Releasing(h) => Releasing(h)'
  PROVE  KeptInv'
  BY DEF KeptInv, Kept, GAHolds, Seated

(* Every step preserves it: a release that gave tickets back goes on to    *)
(* delete the metadata, or stops and has its tier noted.                   *)
LEMMA NextKeptInv ==
  ASSUME TypeInv, CapacityInv, KeptInv, [Next]_vars
  PROVE  KeptInv'
  <1> USE DEF TypeInv, TypeOK, Live, Releasing, Go
  <1>1. ASSUME NEW r \in Releases, GiveBack(r) PROVE KeptInv'
    <2>1. Releasing(relHold[r])' /\ \A h \in Holds : Releasing(h) => Releasing(h)'
      BY <1>1 DEF GiveBack
    <2> QED
      BY <1>1, <2>1 DEF GiveBack, Return, callVars, KeptInv, Kept, GAHolds, Seated
  <1>2. ASSUME NEW r \in Releases, ReleaseReplyLost(r) PROVE KeptInv'
    <2>1. Releasing(relHold[r])' /\ \A h \in Holds : Releasing(h) => Releasing(h)'
      BY <1>2 DEF ReleaseReplyLost, releaseVars
    <2>2. CASE Return(relHold[r]) /\ UNCHANGED meta
      BY <1>2, <2>1, <2>2 DEF ReleaseReplyLost, Return, callVars, KeptInv, Kept,
                              GAHolds, Seated
    <2>3. CASE UNCHANGED history
      BY <1>2, <2>1, <2>3, KeptQuietly DEF ReleaseReplyLost, callVars, history
    <2> QED
      BY <1>2, <2>2, <2>3 DEF ReleaseReplyLost
  <1>3. ASSUME NEW h \in Holds, UnwindCapacity(h) PROVE KeptInv'
    BY <1>3 DEF UnwindCapacity, Return, releaseVars, KeptInv, Kept, GAHolds, Seated
  <1>4. ASSUME NEW h \in Holds, ReplyLost(h) PROVE KeptInv'
    <2>1. CASE Return(h) /\ pc[h] = "unwinding" /\ UNCHANGED <<pc, meta>>
      BY <1>4, <2>1 DEF ReplyLost, Return, releaseVars, KeptInv, Kept, GAHolds,
                        Seated
    <2>2. CASE returned' = returned /\ miscounted' = miscounted
      <3>1. \A g \in Holds : Live(g)' => Live(g) /\ req'[g] = req[g]
        BY <1>4 DEF ReplyLost
      <3> QED
        BY <1>4, <2>2, <3>1, KeptQuietly DEF ReplyLost, releaseVars
    <2> QED
      BY <1>4, <2>1, <2>2 DEF ReplyLost, history
  <1>5. ASSUME NEW r \in Releases, ReleaseStops(r) PROVE KeptInv'
    BY <1>5 DEF ReleaseStops, RestSlot, callVars, redisVars, KeptInv, Kept, GAHolds,
                Seated
  <1>6. ASSUME NEW r \in Releases, ForgetHold(r) PROVE KeptInv'
    BY <1>6 DEF ForgetHold, RestSlot, callVars, history, KeptInv, Kept, GAHolds,
                Seated, ReleasesWorkOnHolds
  <1>7. ASSUME NEW h \in Holds, StoreHold(h) PROVE KeptInv'
    <2>1. h \notin returned
      BY <1>7 DEF StoreHold, CapacityInv, CallsFit, ReturnedWereTaken, Finished
    <2> QED
      BY <1>7, <2>1 DEF StoreHold, releaseVars, history, KeptInv, Kept, GAHolds,
                        Seated
  <1>8. ASSUME NEW h \in Holds,
               \/ \E r \in Requests : CreateHold(h, r)
               \/ Advance(h) /\ ~StoreHold(h) /\ ~UnwindCapacity(h)
               \/ CallFails(h) \/ Crash(h)
        PROVE  KeptInv'
    <2>1. returned' = returned /\ miscounted' = miscounted /\ UNCHANGED releaseVars
      BY <1>8 DEF CreateHold, Advance, CheckTier, CheckCap, LockSeat, DelAcquired,
                  NoteStripped, ProbeCounter, ReadRemaining, PlantSeed,
                  TakeCapacity, UnwindSeat, CallFails, Crash, history
    <2>2. \A g \in Holds : Live(g)' => Live(g) /\ req'[g] = req[g]
      BY <1>8 DEF CreateHold, Advance, CheckTier, CheckCap, LockSeat, DelAcquired,
                  ProbeCounter, ReadRemaining, PlantSeed, TakeCapacity, UnwindSeat,
                  CallFails, OnError, Crash, redisVars
    <2> QED
      BY <2>1, <2>2, KeptQuietly DEF releaseVars
  <1>9. ASSUME \/ \E r \in Releases, h \in Holds : BeginRelease(r, h)
               \/ \E r \in Releases, s \in Seats : FreeSeat(r, s)
        PROVE  KeptInv'
    BY <1>9, KeptQuietly DEF BeginRelease, FreeSeat, callVars, redisVars, history
  <1>10. ASSUME Expiry \/ OrganizerEdit \/ RedisRestart \/ UNCHANGED vars
         PROVE  KeptInv'
    BY <1>10, KeptQuietly DEF Expiry, LockExpires, MetaExpires, OrganizerEdit,
       ToggleSales, ChangeVenue, PaintSeats, UpdateTicketTier, RedisRestart,
       callVars, releaseVars, redisVars, eventVars, history, vars
  <1> QED
    BY <1>1, <1>2, <1>3, <1>4, <1>5, <1>6, <1>7, <1>8, <1>9, <1>10
    DEF Next, Advance, AdvanceRelease, Failure

(* Concurrent buyers, late seeders, rollbacks, repeated commands, crashes, *)
(* releases and restarts never sell more general-admission tickets of a    *)
(* tier than were allocated, for any number of each and with every fault,  *)
(* unless the tier is one of those whose counter went wrong in one of the  *)
(* four ways that miscounted names.                                        *)
THEOREM NeverOversold == Spec => []NoOversell
  <1>1. Init => KeptInv
    BY DEF Init, KeptInv, Kept, GAHolds
  <1>2. TypeInv /\ CapacityInv /\ KeptInv => NoOversell
    <2> SUFFICES ASSUME TypeInv, CapacityInv, KeptInv,
                        NEW t \in Tiers \ miscounted, counter[t] # None
                 PROVE  counter[t] + Tickets(Charged(t) \cup Kept(t)) <= limit[t]
      BY DEF NoOversell
    <2>1. Charged(t) \cup Kept(t) = Charged(t)
      BY DEF KeptInv
    <2> QED
      BY <2>1 DEF CapacityInv, Fits, Taken, Tickets
  <1> QED
    BY <1>1, <1>2, InitTypeInv, NextTypeInv, InitCapacityInv, NextCapacityInv,
       NextKeptInv, PTL DEF Spec
=============================================================================
