------------------------------ MODULE Booking ------------------------------
(***************************************************************************)
(* The inventory a buyer locks before paying: backend/internal/booking.    *)
(*                                                                         *)
(* A call of CreateHold is a goroutine that checks the request against     *)
(* Postgres, then takes inventory in Redis one command at a time: a SETNX  *)
(* lock per assigned seat, or a decrement of a per-tier capacity counter   *)
(* for general admission.  Only then does it store the metadata that makes *)
(* the hold known to GetHold and ReleaseHold.  Calls, releases, key        *)
(* expiries and the organizer's edits of the event interleave between any  *)
(* two commands.                                                           *)
(*                                                                         *)
(* One value of Holds stands for one call of CreateHold and for the fresh  *)
(* random token it draws.  current_state of a seat is always 'available'   *)
(* and tickets_sold always 0: no statement of the program writes another   *)
(* value, so neither is a variable.                                        *)
(*                                                                         *)
(* The Redis client is made with its default retries: a command whose      *)
(* reply is lost is sent again, so its effect may happen twice, with steps *)
(* of others in between.  The call only sees an error once the client      *)
(* gives up.                                                               *)
(***************************************************************************)
EXTENDS Naturals, FiniteSets

CONSTANTS
    Holds,        \* calls of CreateHold, each with its token
    Seats,        \* seats of the event's bound layout
    Tiers,        \* ticket tiers of the event
    Requests,     \* bodies of POST /api/booking/holds that buyers send
    Paintings,    \* payloads of the organizer's seating save, seat -> tier
    Allocations,  \* values an allocation_limit may have
    MaxPerOrder,  \* events.max_tickets_per_order; 0 means uncapped
    Releases,     \* DELETE handlers that may run at the same time
    FaultKinds,   \* which of AllFaults the environment produces
    MaxFaults,    \* bound: faults in one behaviour
    MaxEdits,     \* bound: organizer edits in one behaviour
    None          \* no lock, no key, no tier

AllFaults == {"call", "reply", "crash", "release", "restart"}

Request == [seats : SUBSET Seats, tier : Tiers \cup {None}, qty : Nat]
NoRequest == [seats |-> {}, tier |-> None, qty |-> 0]

ASSUME BookingAssumption ==
    /\ None \notin Holds \cup Tiers \cup Nat
    /\ Requests \subseteq Request
    /\ Paintings \subseteq [Seats -> Tiers \cup {None}]
    /\ Allocations \subseteq Nat
    /\ MaxPerOrder \in Nat
    /\ MaxFaults \in Nat
    /\ MaxEdits \in Nat
    /\ FaultKinds \subseteq AllFaults

VARIABLES
    pc,         \* where each call of CreateHold is
    req,        \* its request body
    unchecked,  \* tiers of the request not yet found bookable
    todo,       \* seats it has still to lock, or to release when unwinding
    seed,       \* capacity it read from Postgres to seed the counter with
    relPc,      \* where each DELETE handler is
    relHold,    \* the hold it releases
    relTodo,    \* seats it has still to release
    lock,       \* Redis lock:event:<e>:seat:<s> -> token
    meta,       \* Redis hold:<token> exists
    counter,    \* Redis event:ticket_tier:<t>:capacity
    matrix,     \* Postgres event_seats_matrix: tier of each painted seat
    limit,      \* Postgres ticket_tiers.allocation_limit
    bookable,   \* what IsTierBookable answers for each tier
    stripped,   \* running calls another call's DEL took a lock from (history)
    returned,   \* holds whose tickets an INCRBY gave back (history)
    miscounted, \* tiers whose counter went wrong, for a named cause (history)
    faults,     \* faults so far
    edits       \* organizer edits so far

callVars    == <<pc, req, unchecked, todo, seed>>
releaseVars == <<relPc, relHold, relTodo>>
redisVars   == <<lock, meta, counter>>
eventVars   == <<matrix, limit, bookable, edits>>
history     == <<stripped, returned, miscounted>>
vars        == <<callVars, releaseVars, redisVars, eventVars, history, faults>>

Running  == {"checking", "capping", "locking", "undoing", "redoing", "probing",
             "seeding", "planting", "taking", "storing", "unwinding"}
Finished == {"held", "refused", "dead"}
InFlight(h) == pc[h] \in Running

Seated(h) == req[h].seats # {}

(* The number of tickets of a request, over all its tiers. *)
Size(r) == IF r.seats # {} THEN Cardinality(r.seats) ELSE r.qty

(* A hold is known to GetHold and ReleaseHold while its metadata lives. *)
Live(h) == pc[h] = "held" /\ meta[h]

(* General admission.  The holds whose tickets of tier t are out of its    *)
(* counter: those a call or a release has in its hands, and live ones.     *)
GAHolds(t) == {h \in Holds : req[h].tier = t /\ req[h].qty > 0 /\ ~Seated(h)}
Freeing(h) == \E r \in Releases : relHold[r] = h /\ relPc[r] = "freeing"
InTransit(t) == {h \in GAHolds(t) \ returned :
                    pc[h] \in {"storing", "unwinding"} \/ Freeing(h)}
Charged(t) == InTransit(t) \cup {h \in GAHolds(t) \ returned : Live(h)}

(* Those the buyer can still pay for although their tickets are back on    *)
(* sale, since nothing is about to delete their metadata.                  *)
Releasing(h) == \E r \in Releases : relPc[r] # "idle" /\ relHold[r] = h
Kept(t) == {h \in GAHolds(t) \cap returned : Live(h) /\ ~Releasing(h)}

TicketsOf(bodies, H) == UNION {{h} \X (1..bodies[h].qty) : h \in H}
Tickets(H) == Cardinality(TicketsOf(req, H))

Go(h, label) == pc' = [pc EXCEPT ![h] = label]

Fault(kind) ==
    /\ kind \in FaultKinds
    /\ faults < MaxFaults
    /\ faults' = faults + 1

----------------------------------------------------------------------------
(* Checks of CreateHold, in Postgres: nothing is acquired yet. *)

WellFormed(r) ==
    \/ r.seats # {} /\ r.qty = 0
    \/ r.seats = {} /\ r.tier \in Tiers /\ r.qty > 0

(* ResolveSeatTiers finds every seat; a general-admission tier has none. *)
OnThisEvent(r) ==
    IF r.seats # {}
      THEN \A s \in r.seats : matrix[s] # None
      ELSE \A s \in Seats : matrix[s] # r.tier

TiersOf(r) == IF r.seats # {} THEN {matrix[s] : s \in r.seats} ELSE {r.tier}

CreateHold(h, r) ==
    /\ pc[h] = "idle"
    /\ req' = [req EXCEPT ![h] = r]
    /\ \/ /\ WellFormed(r) /\ OnThisEvent(r)
          /\ unchecked' = [unchecked EXCEPT ![h] = TiersOf(r)]
          /\ Go(h, "checking")
       \/ /\ ~(WellFormed(r) /\ OnThisEvent(r))
          /\ Go(h, "refused")
          /\ UNCHANGED unchecked
    /\ UNCHANGED <<todo, seed, releaseVars, redisVars, eventVars, faults,
                   history>>

(* The tiers are visited in map order, that is, in any order. *)
CheckTier(h, t) ==
    /\ pc[h] = "checking"
    /\ t \in unchecked[h]
    /\ \/ /\ bookable[t]
          /\ unchecked' = [unchecked EXCEPT ![h] = @ \ {t}]
          /\ Go(h, IF unchecked[h] = {t} THEN "capping" ELSE "checking")
       \/ /\ ~bookable[t]
          /\ Go(h, "refused")
          /\ UNCHANGED unchecked
    /\ UNCHANGED <<req, todo, seed, releaseVars, redisVars, eventVars, faults,
                   history>>

CheckCap(h) ==
    /\ pc[h] = "capping"
    /\ \/ /\ MaxPerOrder = 0 \/ Size(req[h]) <= MaxPerOrder
          /\ todo' = [todo EXCEPT ![h] = req[h].seats]
          /\ Go(h, IF Seated(h) THEN "locking" ELSE "probing")
       \/ /\ MaxPerOrder # 0 /\ Size(req[h]) > MaxPerOrder
          /\ Go(h, "refused")
          /\ UNCHANGED todo
    /\ UNCHANGED <<req, unchecked, seed, releaseVars, redisVars, eventVars,
                   faults, history>>

----------------------------------------------------------------------------
(* AcquireSeatHolds: one SETNX per seat, in the order the buyer sent them; *)
(* the first refusal deletes what was acquired with one unmatched DEL.     *)

Acquired(h) == req[h].seats \ todo[h]

(* A SETNX that is sent again comes before those of the other seats; it    *)
(* finds the seat taken, by the lock it wrote itself.                      *)
Sending(h) ==
    LET unheard == {s \in todo[h] : lock[s] = h}
    IN  IF unheard # {} THEN unheard ELSE todo[h]

LockSeat(h, s) ==
    /\ pc[h] = "locking"
    /\ s \in Sending(h)
    /\ \/ /\ lock[s] = None
          /\ lock' = [lock EXCEPT ![s] = h]
          /\ todo' = [todo EXCEPT ![h] = @ \ {s}]
          /\ Go(h, IF todo[h] = {s} THEN "storing" ELSE "locking")
       \/ /\ lock[s] # None
          /\ Go(h, "undoing")
          /\ UNCHANGED <<lock, todo>>
    /\ UNCHANGED <<req, unchecked, seed, releaseVars, meta, counter, eventVars,
                   faults, history>>

(* Running calls that a DEL by h takes a lock from. *)
Bystanders(h) ==
    {g \in Holds \ {h} : InFlight(g) /\ \E s \in Acquired(h) : lock[s] = g}

(* A DEL that is sent again finds seats that others may have locked since, *)
(* and the rollback of a call stripped in this way may do the same.        *)
NoteStripped(h) ==
    stripped' = IF pc[h] = "redoing" \/ h \in stripped
                  THEN stripped \cup Bystanders(h) ELSE stripped

DelSeats(S) == lock' = [s \in Seats |-> IF s \in S THEN None ELSE lock[s]]

\* Mistake: the rollback deletes the locks of every seat asked for.
DelRequested(h) ==
    /\ pc[h] \in {"undoing", "redoing"}
    /\ DelSeats(req[h].seats)
    /\ NoteStripped(h)
    /\ Go(h, "refused")
    /\ UNCHANGED <<req, unchecked, todo, seed, releaseVars, meta, counter,
                   eventVars, faults, returned, miscounted>>

\* Mistake: a refusal returns without a rollback.
DelNothing(h) ==
    /\ pc[h] \in {"undoing", "redoing"}
    /\ Go(h, "refused")
    /\ UNCHANGED <<req, unchecked, todo, seed, releaseVars, redisVars,
                   eventVars, faults, history>>

DelAcquired(h) ==
    /\ pc[h] \in {"undoing", "redoing"}
    /\ DelSeats(Acquired(h))
    /\ NoteStripped(h)
    /\ Go(h, "refused")
    /\ UNCHANGED <<req, unchecked, todo, seed, releaseVars, meta, counter,
                   eventVars, faults, returned, miscounted>>

----------------------------------------------------------------------------
(* AcquireGAHold: EXISTS, SELECT, SETNX, then one atomic script. *)

ProbeCounter(h) ==
    /\ pc[h] = "probing"
    /\ Go(h, IF counter[req[h].tier] = None THEN "seeding" ELSE "taking")
    /\ UNCHANGED <<req, unchecked, todo, seed, releaseVars, redisVars,
                   eventVars, faults, history>>

(* allocation_limit - tickets_sold, and nothing writes tickets_sold. *)
ReadRemaining(h) ==
    /\ pc[h] = "seeding"
    /\ seed' = [seed EXCEPT ![h] = limit[req[h].tier]]
    /\ Go(h, "planting")
    /\ UNCHANGED <<req, unchecked, todo, releaseVars, redisVars, eventVars,
                   faults, history>>

\* Mistake: SET in place of SETNX, a late seeder overwrites the counter.
PlantedOver(h) == [counter EXCEPT ![req[h].tier] = seed[h]]

Planted(h) ==
    LET t == req[h].tier
    IN  IF counter[t] = None THEN [counter EXCEPT ![t] = seed[h]] ELSE counter

PlantSeed(h) ==
    /\ pc[h] = "planting"
    /\ counter' = Planted(h)
    /\ Go(h, "taking")
    /\ UNCHANGED <<req, unchecked, todo, seed, releaseVars, lock, meta,
                   eventVars, faults, history>>

(* decrementIfEnoughScript.  On a missing key the comparison is an error,  *)
(* which refuses the request like a lack of capacity does.                 *)
Enough(t, q) == counter[t] # None /\ counter[t] >= q

TakeCapacity(h) ==
    /\ pc[h] = "taking"
    /\ LET t == req[h].tier
           q == req[h].qty
       IN  \/ /\ Enough(t, q)
              /\ counter' = [counter EXCEPT ![t] = @ - q]
              /\ Go(h, "storing")
           \/ /\ ~Enough(t, q)
              /\ Go(h, "refused")
              /\ UNCHANGED counter
    /\ UNCHANGED <<req, unchecked, todo, seed, releaseVars, lock, meta,
                   eventVars, faults, history>>

(* INCRBY: it creates a missing key. *)
GivenBack(h) ==
    LET t == req[h].tier
        q == req[h].qty
    IN  [counter EXCEPT ![t] = IF @ = None THEN q ELSE @ + q]

(* The tickets of one hold that go back twice are a named cause. *)
Return(h) ==
    /\ counter' = GivenBack(h)
    /\ returned' = returned \cup {h}
    /\ miscounted' = IF h \in returned THEN miscounted \cup {req[h].tier}
                                      ELSE miscounted

----------------------------------------------------------------------------
(* StoreHoldMetadata, and the best-effort rollback when it fails. *)

StoreHold(h) ==
    /\ pc[h] = "storing"
    /\ meta' = [meta EXCEPT ![h] = TRUE]
    /\ Go(h, "held")
    /\ UNCHANGED <<req, unchecked, todo, seed, releaseVars, lock, counter,
                   eventVars, faults, history>>

(* releaseIfMatchScript: a lock that is not h's stays. *)
\* Mistake: a plain DEL.
ReleaseAnyway(h, s) == [lock EXCEPT ![s] = None]

ReleaseIfMatch(h, s) == [lock EXCEPT ![s] = IF @ = h THEN None ELSE @]

UnwindSeat(h, s) ==
    /\ pc[h] = "unwinding"
    /\ s \in todo[h]
    /\ lock' = ReleaseIfMatch(h, s)
    /\ todo' = [todo EXCEPT ![h] = @ \ {s}]
    /\ Go(h, IF todo[h] = {s} THEN "refused" ELSE "unwinding")
    /\ UNCHANGED <<req, unchecked, seed, releaseVars, meta, counter, eventVars,
                   faults, history>>

UnwindCapacity(h) ==
    /\ pc[h] = "unwinding"
    /\ ~Seated(h)
    /\ Return(h)
    /\ Go(h, "refused")
    /\ UNCHANGED <<req, unchecked, todo, seed, releaseVars, lock, meta,
                   eventVars, faults, stripped>>

----------------------------------------------------------------------------
(* ReleaseHold, by DELETE handler r: read the metadata, hand the inventory *)
(* back, delete the metadata.                                              *)

BeginRelease(r, h) ==
    /\ relPc[r] = "idle"
    /\ Live(h)
    /\ relPc' = [relPc EXCEPT ![r] = "freeing"]
    /\ relHold' = [relHold EXCEPT ![r] = h]
    /\ relTodo' = [relTodo EXCEPT ![r] = req[h].seats]
    /\ UNCHANGED <<callVars, redisVars, eventVars, faults, history>>

FreeSeat(r, s) ==
    /\ relPc[r] = "freeing"
    /\ s \in relTodo[r]
    /\ lock' = ReleaseIfMatch(relHold[r], s)
    /\ relTodo' = [relTodo EXCEPT ![r] = @ \ {s}]
    /\ relPc' = [relPc EXCEPT ![r] =
                   IF relTodo[r] = {s} THEN "forgetting" ELSE "freeing"]
    /\ UNCHANGED <<callVars, relHold, meta, counter, eventVars, faults,
                   history>>

GiveBack(r) ==
    /\ relPc[r] = "freeing"
    /\ ~Seated(relHold[r])
    /\ Return(relHold[r])
    /\ relPc' = [relPc EXCEPT ![r] = "forgetting"]
    /\ UNCHANGED <<callVars, relHold, relTodo, lock, meta, eventVars, faults,
                   stripped>>

RestSlot(r) ==
    /\ relPc' = [relPc EXCEPT ![r] = "idle"]
    /\ relHold' = [relHold EXCEPT ![r] = None]
    /\ relTodo' = [relTodo EXCEPT ![r] = {}]

ForgetHold(r) ==
    /\ relPc[r] = "forgetting"
    /\ meta' = [meta EXCEPT ![relHold[r]] = FALSE]
    /\ RestSlot(r)
    /\ UNCHANGED <<callVars, lock, counter, eventVars, faults, history>>

----------------------------------------------------------------------------
(* Expiry.  Locks and metadata get the same TTL of 10 minutes; the locks   *)
(* got theirs first, so they lapse first.  A call of CreateHold finishes   *)
(* well within the TTL.                                                    *)

\* Mistake: the lock is written without a TTL, and goes when the metadata has.
LockExpiresWithHold(s) ==
    /\ lock[s] # None
    /\ pc[lock[s]] = "held" /\ ~meta[lock[s]]
    /\ lock' = [lock EXCEPT ![s] = None]
    /\ UNCHANGED <<callVars, releaseVars, meta, counter, eventVars, faults,
                   history>>

LockExpires(s) ==
    /\ lock[s] # None
    /\ ~InFlight(lock[s])
    /\ lock' = [lock EXCEPT ![s] = None]
    /\ UNCHANGED <<callVars, releaseVars, meta, counter, eventVars, faults,
                   history>>

MetaExpires(h) ==
    /\ meta[h]
    /\ ~InFlight(h)
    /\ \A s \in Seats : lock[s] # h
    /\ meta' = [meta EXCEPT ![h] = FALSE]
    /\ UNCHANGED <<callVars, releaseVars, lock, counter, eventVars, faults,
                   history>>

----------------------------------------------------------------------------
(* The organizer edits the event while buyers hold. *)

Edit == edits < MaxEdits /\ edits' = edits + 1

(* A withdrawn or archived event, a hidden tier, a sales window's edge. *)
ToggleSales(t) ==
    /\ Edit
    /\ bookable' = [bookable EXCEPT ![t] = ~@]
    /\ UNCHANGED <<callVars, releaseVars, redisVars, matrix, limit, faults,
                   history>>

(* SetEventVenue with another venue: it refuses when some current_state is *)
(* not 'available', which never happens, and asks Redis nothing.           *)
ChangeVenue ==
    /\ Edit
    /\ matrix' = [s \in Seats |-> None]
    /\ UNCHANGED <<callVars, releaseVars, redisVars, limit, bookable, faults,
                   history>>

(* SeedEventSeating: insert the missing seats, re-tier the others; a seat  *)
(* the payload leaves out keeps its row.                                   *)
PaintSeats(p) ==
    /\ Edit
    /\ matrix' = [s \in Seats |-> IF p[s] = None THEN matrix[s] ELSE p[s]]
    /\ UNCHANGED <<callVars, releaseVars, redisVars, limit, bookable, faults,
                   history>>

(* UpdateTicketTier: Postgres only; the Redis counter is not told, nor is  *)
(* a call about to seed it.                                                *)
UpdateTicketTier(t, n) ==
    /\ Edit
    /\ limit' = [limit EXCEPT ![t] = n]
    /\ miscounted' =
          IF /\ n < limit[t]
             /\ \/ counter[t] # None
                \/ \E h \in Holds : pc[h] = "planting" /\ req[h].tier = t
            THEN miscounted \cup {t} ELSE miscounted
    /\ UNCHANGED <<callVars, releaseVars, redisVars, matrix, bookable, faults,
                   stripped, returned>>

----------------------------------------------------------------------------
(* Faults. *)

(* What a call does with an error: a failed SETNX is undone, a failed SET  *)
(* of the metadata is unwound, any other error is answered at once (the    *)
(* rollbacks ignore their own errors).                                     *)
\* Mistake: the error of a SETNX is ignored.
OnErrorIgnored(h) ==
    CASE pc[h] = "locking" -> "storing"
      [] pc[h] = "storing" -> "unwinding"
      [] OTHER -> "refused"

OnError(h) ==
    CASE pc[h] = "locking" -> "undoing"
      [] pc[h] = "storing" -> "unwinding"
      [] OTHER -> "refused"

(* A database or Redis call fails before it takes effect. *)
CallFails(h) ==
    /\ Fault("call")
    /\ InFlight(h)
    /\ todo' = [todo EXCEPT ![h] = IF pc[h] = "storing" THEN req[h].seats ELSE @]
    /\ Go(h, OnError(h))
    /\ UNCHANGED <<req, unchecked, seed, releaseVars, redisVars, eventVars,
                   history>>

(* A Redis write takes effect, its reply is lost and the client sends it   *)
(* again.  (When it gives up, the case above follows.)                     *)
ReplyLost(h) ==
    /\ Fault("reply")
    /\ \/ /\ pc[h] = "locking"
          /\ \E s \in Sending(h) :
                /\ lock[s] = None
                /\ lock' = [lock EXCEPT ![s] = h]
          /\ UNCHANGED <<pc, meta, counter, history>>
       \/ /\ pc[h] \in {"undoing", "redoing"}
          /\ DelSeats(Acquired(h))
          /\ NoteStripped(h)
          /\ Go(h, "redoing")
          /\ UNCHANGED <<meta, counter, returned, miscounted>>
       \/ /\ pc[h] = "planting"
          /\ counter' = Planted(h)
          /\ UNCHANGED <<pc, lock, meta, history>>
       \/ /\ pc[h] = "taking"
          /\ Enough(req[h].tier, req[h].qty)
          /\ counter' = [counter EXCEPT ![req[h].tier] = @ - req[h].qty]
          /\ UNCHANGED <<pc, lock, meta, history>>
       \/ /\ pc[h] = "storing"
          /\ meta' = [meta EXCEPT ![h] = TRUE]
          /\ UNCHANGED <<pc, lock, counter, history>>
       \/ /\ pc[h] = "unwinding"
          /\ \E s \in todo[h] : lock' = ReleaseIfMatch(h, s)
          /\ UNCHANGED <<pc, meta, counter, history>>
       \/ /\ pc[h] = "unwinding"
          /\ ~Seated(h)
          /\ Return(h)
          /\ UNCHANGED <<pc, lock, meta, stripped>>
    /\ UNCHANGED <<req, unchecked, todo, seed, releaseVars, eventVars>>

(* The same in a release. *)
ReleaseReplyLost(r) ==
    /\ Fault("reply")
    /\ \/ /\ relPc[r] = "freeing"
          /\ \E s \in relTodo[r] : lock' = ReleaseIfMatch(relHold[r], s)
          /\ UNCHANGED <<meta, counter, history>>
       \/ /\ relPc[r] = "freeing"
          /\ ~Seated(relHold[r])
          /\ Return(relHold[r])
          /\ UNCHANGED <<lock, meta, stripped>>
       \/ /\ relPc[r] = "forgetting"
          /\ meta' = [meta EXCEPT ![relHold[r]] = FALSE]
          /\ UNCHANGED <<lock, counter, history>>
    /\ UNCHANGED <<callVars, releaseVars, eventVars>>

(* The server process dies with the call. *)
Crash(h) ==
    /\ Fault("crash")
    /\ InFlight(h)
    /\ Go(h, "dead")
    /\ UNCHANGED <<req, unchecked, todo, seed, releaseVars, redisVars,
                   eventVars, history>>

(* A release stops at a failed call or with its server; the metadata, if   *)
(* it is still there, lets the buyer try again, or pay for tickets that    *)
(* are on sale again.                                                      *)
ReleaseStops(r) ==
    /\ Fault("release")
    /\ relPc[r] # "idle"
    /\ RestSlot(r)
    /\ miscounted' = miscounted \cup
          {t \in Tiers : \E h \in GAHolds(t) \cap returned :
                            relHold[r] = h /\ Live(h)}
    /\ UNCHANGED <<callVars, redisVars, eventVars, stripped, returned>>

(* Redis has no volume: a restart forgets every key.  The next seeder does *)
(* not know of the tickets that a call or a release has in its hands.      *)
RedisRestart ==
    /\ Fault("restart")
    /\ lock' = [s \in Seats |-> None]
    /\ meta' = [h \in Holds |-> FALSE]
    /\ counter' = [t \in Tiers |-> None]
    /\ miscounted' = miscounted \cup {t \in Tiers : InTransit(t) # {}}
    /\ UNCHANGED <<callVars, releaseVars, eventVars, stripped, returned>>

----------------------------------------------------------------------------
Init ==
    /\ pc = [h \in Holds |-> "idle"]
    /\ req = [h \in Holds |-> NoRequest]
    /\ unchecked = [h \in Holds |-> {}]
    /\ todo = [h \in Holds |-> {}]
    /\ seed = [h \in Holds |-> None]
    /\ relPc = [r \in Releases |-> "idle"]
    /\ relHold = [r \in Releases |-> None]
    /\ relTodo = [r \in Releases |-> {}]
    /\ lock = [s \in Seats |-> None]
    /\ meta = [h \in Holds |-> FALSE]
    /\ counter = [t \in Tiers |-> None]
    /\ matrix \in Paintings
    /\ limit \in [Tiers -> Allocations]
    /\ bookable = [t \in Tiers |-> TRUE]
    /\ stripped = {}
    /\ returned = {}
    /\ miscounted = {}
    /\ faults = 0
    /\ edits = 0

(* What a call does next when nothing fails. *)
Advance(h) ==
    \/ \E t \in Tiers : CheckTier(h, t)
    \/ CheckCap(h)
    \/ \E s \in Seats : LockSeat(h, s)
    \/ DelAcquired(h)
    \/ ProbeCounter(h)
    \/ ReadRemaining(h)
    \/ PlantSeed(h)
    \/ TakeCapacity(h)
    \/ StoreHold(h)
    \/ \E s \in Seats : UnwindSeat(h, s)
    \/ UnwindCapacity(h)

AdvanceRelease(r) ==
    \/ \E s \in Seats : FreeSeat(r, s)
    \/ GiveBack(r)
    \/ ForgetHold(r)

Expiry ==
    \/ \E s \in Seats : LockExpires(s)
    \/ \E h \in Holds : MetaExpires(h)

OrganizerEdit ==
    \/ \E t \in Tiers : ToggleSales(t)
    \/ ChangeVenue
    \/ \E p \in Paintings : PaintSeats(p)
    \/ \E t \in Tiers, n \in Allocations : UpdateTicketTier(t, n)

Failure ==
    \/ \E h \in Holds : CallFails(h) \/ ReplyLost(h) \/ Crash(h)
    \/ \E r \in Releases : ReleaseReplyLost(r) \/ ReleaseStops(r)
    \/ RedisRestart

Next ==
    \/ \E h \in Holds, r \in Requests : CreateHold(h, r)
    \/ \E h \in Holds : Advance(h)
    \/ \E r \in Releases, h \in Holds : BeginRelease(r, h)
    \/ \E r \in Releases : AdvanceRelease(r)
    \/ Expiry
    \/ OrganizerEdit
    \/ Failure

Spec == Init /\ [][Next]_vars

(* A goroutine that has work goes on, and Redis removes what has expired.  *)
Fairness ==
    /\ \A h \in Holds : WF_vars(Advance(h))
    /\ \A r \in Releases : WF_vars(AdvanceRelease(r))
    /\ \A s \in Seats : WF_vars(LockExpires(s))
    /\ \A h \in Holds : WF_vars(MetaExpires(h))

FairSpec == Spec /\ Fairness

----------------------------------------------------------------------------
(* Properties. *)

(* Every variable stays in its type; above all a capacity counter never    *)
(* goes below zero.                                                        *)
TypeOK ==
    /\ pc \in [Holds -> {"idle"} \cup Running \cup Finished]
    /\ req \in [Holds -> Request]
    /\ unchecked \in [Holds -> SUBSET Tiers]
    /\ todo \in [Holds -> SUBSET Seats]
    /\ seed \in [Holds -> Nat \cup {None}]
    /\ relPc \in [Releases -> {"idle", "freeing", "forgetting"}]
    /\ relHold \in [Releases -> Holds \cup {None}]
    /\ relTodo \in [Releases -> SUBSET Seats]
    /\ lock \in [Seats -> Holds \cup {None}]
    /\ meta \in [Holds -> BOOLEAN]
    /\ counter \in [Tiers -> Nat \cup {None}]
    /\ matrix \in [Seats -> Tiers \cup {None}]
    /\ limit \in [Tiers -> Nat]
    /\ bookable \in [Tiers -> BOOLEAN]
    /\ stripped \subseteq Holds
    /\ returned \subseteq Holds
    /\ miscounted \subseteq Tiers
    /\ faults \in Nat
    /\ edits \in Nat

(* The seats a running call of CreateHold believes to be locked for it;    *)
(* when it unwinds, its matched script asks for no such belief.            *)
Believed(h) ==
    IF pc[h] \in {"locking", "undoing", "storing"} THEN Acquired(h) ELSE {}

(* While a call runs, every seat it has locked is still its own: no        *)
(* rollback, release or expiry of another hold has taken one away, so the  *)
(* unmatched DEL of AcquireSeatHolds deletes only its caller's locks,      *)
(* unless such a DEL was sent a second time.                               *)
RunningCallsKeepTheirLocks ==
    \A h \in Holds \ stripped : \A s \in Believed(h) : lock[s] = h

(* The inductive form of the above, short of a Redis restart: the body of  *)
(* a call that runs or was granted passed the shape checks and matches its *)
(* branch, a lock belongs to a call that asked for the seat, and releases  *)
(* work only on holds that were granted.                                   *)
CallsAreConsistent ==
    \A h \in Holds :
        /\ pc[h] \in Running \cup {"held"} => WellFormed(req[h])
        /\ pc[h] \in {"probing", "seeding", "planting", "taking"}
              => ~Seated(h) /\ todo[h] = {}
        /\ pc[h] = "storing" => todo[h] = {}
        /\ pc[h] = "locking" => todo[h] \subseteq req[h].seats

LocksHaveACause ==
    \A s \in Seats : lock[s] # None =>
        pc[lock[s]] # "idle" /\ s \in req[lock[s]].seats

ReleasesWorkOnHolds ==
    \A r \in Releases : relPc[r] # "idle" =>
        relHold[r] \in Holds /\ pc[relHold[r]] = "held"

LockInv ==
    /\ CallsAreConsistent
    /\ LocksHaveACause
    /\ ReleasesWorkOnHolds
    /\ RunningCallsKeepTheirLocks

(* As long as no command failed, a refused request leaves nothing locked:  *)
(* the seats acquired before the one that was taken are all given back     *)
(* (entity.go: "All-or-nothing").  A rollback whose DEL fails leaves locks *)
(* until they lapse, see EveryLockLapses.                                  *)
AllOrNothing ==
    faults = 0 =>
        \A h \in Holds : pc[h] = "refused" => \A s \in Seats : lock[s] # h

(* A lock never passes from one hold to another in one step, and it goes   *)
(* away only by the rollback or the release of the hold that owns it, or   *)
(* by its expiry: not by a step of another call or another hold's release, *)
(* even of a release that resumes after the lock lapsed and was retaken.   *)
(* The exception is a rollback's DEL that is sent twice.                   *)
UnlocksOnlyTheOwner ==
    \A s \in Seats : lock[s] # None /\ lock'[s] # lock[s] =>
        /\ lock'[s] = None
        /\ \A h \in Holds : pc'[h] # pc[h] \/ todo'[h] # todo[h] =>
              h = lock[s] \/ pc[h] = "redoing" \/ h \in stripped
        /\ \A r \in Releases :
              relPc'[r] # relPc[r] \/ relTodo'[r] # relTodo[r]
                 => relHold[r] = lock[s]

OnlyTheOwnerUnlocks == [][UnlocksOnlyTheOwner]_vars

(* CreateHold with its SETNX loop, rollbacks and expiries does what one    *)
(* atomic grant of all the seats would do: from outside, no buyer sees a   *)
(* hold that got some of its seats.  A call that was stripped of a lock    *)
(* may be granted a seat that another has: it is left out.                 *)
Whole(h) == pc[h] = "held" /\ h \notin stripped
Granted == [h \in Holds |-> IF Whole(h) THEN req[h].seats ELSE {}]
Allocation ==
    [s \in Seats |-> IF lock[s] # None /\ Whole(lock[s]) THEN lock[s] ELSE None]
Abs == INSTANCE AtomicHolds WITH alloc <- Allocation, granted <- Granted
ImplementsAtomicHolds == Abs!Spec

(* The counter and the tickets out of it never exceed the allocation, so   *)
(* concurrent buyers, seeders, rollbacks, releases and repeated commands   *)
(* never sell more general admission than there is, unless the tickets of  *)
(* one hold were given back twice or given back under a hold that stays    *)
(* live, Redis lost its keys while some were in a call's hands, or the     *)
(* organizer lowered the allocation of a tier already seeded.              *)
NoOversell ==
    \A t \in Tiers \ miscounted : counter[t] # None =>
        counter[t] + Tickets(Charged(t) \cup Kept(t)) <= limit[t]

(* Once every hold on a tier has ended, its tickets are all on sale again. *)
EndedHoldsGiveBack ==
    \A t \in Tiers :
        counter[t] # None /\ (\A h \in GAHolds(t) : pc[h] \in Finished /\ ~meta[h])
            => counter[t] = limit[t]

(* No seat stays locked for ever: not by a refused call whose rollback     *)
(* failed, nor by a call that died, nor by a hold that was never paid.     *)
EveryLockLapses == \A s \in Seats, h \in Holds : lock[s] = h ~> lock[s] # h
=============================================================================
