# CrowdFlow: specifications, model checking and proofs

TLA+ modules for the parts of CrowdFlow in which several people or several late
replies act on the same state: reserving inventory, paying and issuing tickets,
admitting at the gate, refresh-token sessions, paying organizers, reviewing an
event, granting rights over it, and the two pages of the web frontend that keep a protocol of their own, the
buyer's path to the payment and the venue designer. Each module is translated
from the Go code under `src/backend/internal` and the TypeScript code under
`src/frontend/src`. TLC checks each on small instances; TLAPS proves the central
invariants for every value of the constants.

`PROJECT.json` is the index: it ties every definition to its source lines, every
run to its properties, and every hazard to the line where it bites.

    tlc -config booking.cfg MCBooking     # a run
    tlapm BookingProofs.tla               # a module of proofs

## 1. The system

CrowdFlow sells tickets to events. A Go server (one `http.ServeMux`, one
goroutine per request) keeps its rows in Postgres at READ COMMITTED and its
short-lived keys in a Redis without persistence; a Next.js frontend calls it.
Four roles act on it: buyers, organizers (with scanners and delegates), auditors
and administrators. There are no background workers: whatever has to happen
later happens because a key expires, because Midtrans (the payment gateway)
repeats a notification, or because somebody clicks.

| Component | State | Operations | Hard behaviour | Module |
|---|---|---|---|---|
| Inventory holds (`booking`) | Redis `lock:event:*:seat:*`, `hold:<token>`, `event:ticket_tier:*:capacity`; reads `event_seats_matrix`, `ticket_tiers` | CreateHold, GetHold, ReleaseHold | SETNX per seat, unmatched rollback, expiry, commands the client sends twice, a counter seeded by racing readers, the organizer's edits underneath | `Booking`, `AtomicHolds` |
| Sessions (`auth`) | Redis `session:<f>`, `user_sessions:<u>`; the `refresh_token` cookie | login, refresh with rotation, logout, logout everywhere | concurrent rotations, reuse alarm, lost replies, repeated commands, an index that is not written with the sessions | `Session` |
| Payment and issuance (`payment`, `ticket`) | `orders`, `tickets`; notifications in flight | create payment, webhook, CompletePayment, RequestTicketOTP, admin override | repeated and reordered notifications, three issuers with different locks, dropped errors | `Orders` |
| Gate (`scanner`, organizer console) | `tickets.ticket_status`, `ticket_checkins`, `scanner_devices`, `gates` | scan, console check-in, delete a device or gate | read without a lock before an unconditional UPDATE, aborted transactions, lost COMMIT replies | `Gate` |
| Payouts (`organizer`, `admin`, `auditor`) | `payouts`, `payout_review_checks`, the activity log, the organizer's application with its bank account | request, settle, retry, tick, decide, approve, verify, edit the account, edit the application | one balance computed by three handlers of which one takes an advisory lock; stale reads before updates; two writers of the account, of which one resets its verification | `Payouts` |
| Event lifecycle and review (`organizer`, `auditor`, `admin`) | `events.status`, `published_at`, `archived_at`, `auditor_revisions`, `auditor_event_reviews` | submit, withdraw, raise a point, answer, judge or mark it, approve, request changes, list, archive, override | a point and the event are written in statements of their own; counts and statuses are read before the writes they decide | `Review` |
| Venue designer (`venue-editor`, `venueLayout`, `venuelayout`) | the editor's store with its undo history, `venue_layouts`, `seats` | edit, drag, undo, redo, import, export, load, save | optimistic versions, late and lost replies, two saves under way, gestures interrupted by keys | `VenueEditor` |
| Buyer's pages (seat map, checkout) | the page, the hold token in session storage, requests under way | choose, proceed, pay, navigate, reload | a hold replaced in three calls, replies to a page that was left, a deadline that passes anywhere | `BuyerPage` |
| Roles and delegation (`admin`, `delegation`) | `user_roles`, `organizer_delegations` with their events, `events.organizer_id` | grant, revoke, invite, request, approve, decline, edit a scope | a conflict rule checked in one statement and applied in another, or not again at all; administrators counted, of whatever scope, before one is deleted | `Access` |
| Resale (`resale`) | `resale_listings` | list, approve, cancel | none yet: no statement transfers a ticket | not modelled |
| Wallet, documents and applications, migrations, other pages | see `PROJECT.json` | | | partly |
| Catalogue, reporting, buyer bank accounts, middleware, storage, mail, start-up | none that a second step depends on | reads, single inserts, input and output | none | not modelled |

Interactions. `Booking` reads the seats, tiers and allocations that organizers
edit; nothing tells Redis of an edit. Payment does **not** consume a hold: orders
name tiers, not hold tokens, so holds and orders share no state in this commit.
`Orders` creates the tickets that `Gate` uses up. `Payouts` sums the net amounts
of the paid orders, and reads the review status of events to decide whether a bank
account may change; `Review` is what moves that status. `BuyerPage` calls the
handlers of `Booking` and sees their holds from outside: granted as a whole, ended
by release or deadline, which is what `Booking` is shown to promise. `VenueEditor`
writes the seats that events are later painted on. `Session` shares nothing with the others: suspending a user
or changing a password does not reach it.

## 2. The modules and how they correspond to the code

A program counter stands for the position of a handler between two calls of
Postgres or Redis; one action is one call together with the Go code up to the next
one. A Postgres transaction whose intermediate effects nobody can see is one
action at its commit; when it holds a row or advisory lock others wait for, the
lock is a variable. History variables (marked so) record causes, such as "two
issuers of this order overlapped", so that a property can name the only
exception. Operators marked `Mistake` are plausible bugs and are used only to
show that a property can fail.

**Booking** (`booking/service.go`, `booking/repository.go`, the seat editor of
`organizer`). `Holds` are calls of CreateHold, each with the random token it
draws. `checking`/`capping` are the Postgres checks, `locking`/`undoing` the SETNX
loop and its DEL, `probing`/`seeding`/`planting`/`taking` the counter script,
`storing`/`unwinding` the metadata and its rollback. `BeginRelease`, `FreeSeat`,
`GiveBack`, `ForgetHold` are ReleaseHold, command by command. Locks and metadata
have the same TTL and the locks were set first, so `LockExpires` comes before
`MetaExpires`. A call finishes within the 10 minutes of a lock (stated in the
module, and the only timing assumption). `ToggleSales`, `ChangeVenue`,
`PaintSeats`, `UpdateTicketTier` are organizers. `CallFails`, `ReplyLost`,
`ReleaseReplyLost`, `Crash`, `ReleaseStops`, `RedisRestart` are faults. The Redis client
is made with its default retries, so a command whose reply is lost is sent again:
`ReplyLost` and `ReleaseReplyLost` are the effect of the first sending, after which the
call stays where it is and its own step is the second (`redoing` is a rollback whose DEL
has already run once; `Sending` lets the seat whose SETNX was lost go first); `CallFails` afterwards is a
client that gave up. The histories name what comes of it: `stripped`
(running calls from which another's repeated DEL took a lock), `returned` (holds whose
tickets were given back) and `miscounted` (tiers whose counter went wrong, with the
cause at each place where it is set). No statement of the program writes
`tickets_sold` or a `current_state` other than `available`, so they are constants
here.

**AtomicHolds** is what reservation promises: a hold is granted all of its seats
in one step, or nothing. `Booking` implements it under the mapping
`alloc <- Allocation, granted <- Granted`, in which a seat counts as allocated only
once CreateHold has returned.

**Session** (`auth/session.go`, `auth/service.go`, `utils/api.ts`). One user. The
n-th secret of a family is the number n. `Rotate` is the Lua script (swap or, on a
stale secret, delete); `DropIndexEntry` the command after it; `LookUpUser` the
database lookup, after which the new cookie may still be lost (`LoseReply`).
`RotateUnheard` is a script whose reply the Redis client did not get and which it will send
again.
`ListSessions` and `EndAllSessions` are the two halves of RevokeAllForUser. A tab
has one request in flight; tabs of one browser share the cookie.

**Orders** (`payment/*`, `ticket/repository.go`, `admin` override). `gateway` and
`inbox` model Midtrans as the handlers rely on it (external): notifications
repeat until answered 200, in any order. `UpdateOrderStatus`, `TakeSnapshot`,
`InsertTicket`, `Answer` are the webhook, whose `INSERT ... WHERE NOT EXISTS` reads
an older snapshot than it writes to; `LockOrder`, `CountTickets`, `CommitTicket` are
CompletePayment under `FOR UPDATE`; `LookForTicket`, `LookupFails`, `MintTicket` are the
ticket that RequestTicketOTP issues, which takes any error of its lookup for "no
ticket" and then inserts without a further test.

**Gate** (`scanner/*`, `organizer` CheckInAttendee). `ReadTicket`, `MarkUsed`,
`RecordCheckin`, `Commit`. Failed statements abort the transaction; the app ignores
them and learns of it at COMMIT, the console returns at once. Deleting a device
or gate between its lookup and the record breaks the foreign key.

**Payouts** (`organizer` CreatePayoutRequest, UpdatePayoutDetails and UpdateApplication, `admin`
settlePayout, `auditor` payout review). One event. Requests read sales, read the
balance, insert; settlement takes the advisory lock of the event; an auditor's
tick holds the payout's row; approving reads the checklist and then updates;
verifying compares the account and then updates; editing reads three tables and
then updates. `ReadApplication` and `SaveApplication` are the other writer of the
account: the form of the organizer's application, which carries the account number
too and may be edited while the application is neither approved nor in review (`open`,
which `AuditApplication` moves, also back after an approval).

**VenueEditor** (`components/venue-editor`, `lib/store/venueEditorStore.ts`,
`lib/venueLayout`, `venuelayout/repository.go`). One browser tab with the store that
outlives its pages. A plan is a function from seat ids to database rows (`db_id`, or
none) and a look, which stands for everything else that is drawn. The operations of
the store (`Added`, `Deleted`, `Resized`, `Filled`, `RowDuplicated`, `Restyled`) give
the plans each may lead to; one action per place in the interface (`CanvasPointer`,
`KeyDown`, `SeatMenu`, `DragShape`, `MoveGroup`, `ArrangePanel`, `SeatPanel`, ...) says
whether a history entry is written, before or after the change or not at all.
`SaveHistory`, `Undo`, `Redo` are the store's, with its cap. A load reads the layout and its
seats in two statements (`ReadOrder`, `GetLayout`); a save is `ClickSave`, `Commit`
(the transaction with the version test, the foreign-seat test and the rewriting of
rows), `ReRead` (which is again two statements) and `ApplySave`, which may find
another plan or layout in the store. `SaveElsewhere` is another browser, `Assign` an
event that starts to use the layout's rows, `Fail` an error or a lost reply.

**BuyerPage** (`app/events/[event_id]/seats/page.tsx`, the checkout page,
`useSeatSelection`, `useHoldCountdown`, `holdStorage`). `Mount` is what a page
starts when it opens; `ClickProceed`, `Release`, `ReleaseReply`, `Create`, `CreateReply`
are the awaits of Proceed, `Confirm`, `CreateOrder`, `OrderReply`, `WindowEnds` those of
Pay, and each goes on after its page was left, as the code does. `HoldRead` and
`RestoreReply` restore the stored hold; `SeatPageExpiry` and `CheckoutExpiry` are the
countdown. The history variables record which hold the tab lost by a failed call, a
reload or overlapping runs, and which page released a hold.

**Review** (`organizer` RespondToEventRevision, PublishOrganizerEvent,
WithdrawEventFromReview, SetEventListed, SetEventArchived; `auditor`
AddEventRevision, UpdateRevisionStatus and the three buttons on the event; `admin`
settleEvent and SetEventStatus). One event. `ReadPoint`, `WriteAnswer`, `CountOpen`,
`Queue` are an answer, statement by statement; `AddRevision` and `SendBack` a new point;
`WriteVerdict`, `CountUnresolved` (or `CountFails`, whose error the code drops),
`Approve`, `SendBack`, `Reject` a verdict that moves the event. The server takes nine
statuses (`validRevisionStatuses`); the five that move nothing (Viewed, In Progress,
Resubmitted, Verified, Expired) are `MarkPoint`, and `aside` remembers that one was
written since the event last moved. Handlers that lock the row of the event are one
step (`Withdraw`, `ApproveEvent`, `RejectEvent`, `RequestChanges`, `SettleEvent`,
`SetEventStatus`); those that only read its status first are two (`ReadStatus` and
`Submit`, `ReadForList` and `List`, `ReadForArchive` and `Archive`). `CallStops` is a refusal
of a submission gate, a failed statement or a crash between two statements. A
request whose reading or pending write was overtaken by a later write carries
`late`; `excused` and `carried` say whether the status and the flags were last decided
by such a request, or over the heads of the points.

**Access** (`admin` GrantUserRole and RevokeUserRole, `delegation/*`,
`middleware/auth.go`, the creation and deletion of events). `Manages` is what the
middleware lets a user manage: their own events, those a role names and those an
active delegation reaches. `CheckAuditor` and `CheckManager` are the reads of
GrantUserRole up to the conflict rule, `InsertRole` its INSERT; `CheckNew` (Invite and
RequestAccess) and `CheckScope` (EditScope) the validation of a scope and checkSoD,
`LookForRow` the lookup of the pair, `WriteRow` the transaction that writes row and
events; `Decide` and `WriteStatus` the two halves of Approve, Decline, Revoke and
AdminRevoke; `CountAdmins` and `DeleteAdmin` those of revoking a Super Admin. The grant
takes Super Admin with an event too (`GrantEventAdmin`): such a row puts nothing into a
token, which carries platform-wide roles only, but `EnoughAdmins` counts it, as the
code does, and it goes with its event.
`ApproveApplication` is the auditor's approval of an organizer application, which
deletes every platform-wide role of the applicant. Schema constraints (foreign
keys, one row per user, event and role) decide which writes fail. No page offers the
role of Event Organizer for one event, but the endpoint takes it. `CallStops` is a
refusal for what is not modelled, or a failed statement. A request whose check was
followed by another write for the same user carries `late`.

MC modules (`MCAccess`, `MCBooking`, `MCSession`, `MCGate`, `MCPayouts`, `MCVenueEditor`,
`MCBuyerPage`, `MCReview`) hold the requests, cookie jars, paintings, first rows,
constraints and symmetry sets of the runs. `Orders` needs none.

## 3. What is checked

| Run | Instance | What it shows |
|---|---|---|
| `booking` | 3 holds, 2 seats and a general-admission tier with an allocation of 2, any request, 1 release at a time, 2 faults (failed call, lost reply and repeated command, crash, release that stops half-way) | running calls own the locks they believe in and only a hold's own steps or its expiry unlock, but for a rollback's DEL that was sent twice; refused calls leave nothing; CreateHold implements `AtomicHolds`; the counter never goes below zero and never promises more than the allocation, unless one hold's tickets were given back twice or under a hold that stays live |
| `booking_live` | 2 holds, 2 seats, 2 tiers, mixed and malformed requests, an order cap, 1 edit, 1 fault (a Redis restart included) | every lock lapses |
| `booking_expired_ga` (violation) | 1 hold, no faults | tickets of an expired general-admission hold never return |
| `sessions` | 3 tabs in 2 browsers, 2 families, 3 secrets each, 1 loss | one winner per token, nothing revived, alarms have a cause, sessions stay indexed, a repeated rotation included |
| `orders` | 1 order, 2 requests at a time, every operation, 2 faults | second tickets need overlapping issuers or a failed lookup; the webhook issues only for captured payments; statuses are not lost; who paid gets a ticket |
| `gate` | 3 scans, 2 tickets, 1 device, app and console, 2 faults | used and recorded agree; each admission has a record; double entry needs overlapping scans |
| `payouts` | 2 calls; either 3 payouts with sales up to 2, or 1 payout with 1 checklist item and 2 accounts, or 1 payout, 2 accounts and the organizer's application | settlements never exceed sales; waiting requests fit unless two were checked at once; the checklist of a decided payout is frozen; approvals log what was ticked, unless overtaken; verified accounts were the ones shown, unless overtaken or rewritten by the application |
| `venue_editor` | 2 layouts, 2 requests under way, 2 looks, a history of 2, 3 rows, 1 new seat, 5 acts of the owner or of others | no update is lost unless a late or overtaken answer misled the tab; one row per seat; rows keep their seats, but for undo across a save or an answer both late and overtaken; what the tab holds can be saved; undo takes back a whole gesture; the history keeps its length |
| `buyer_page` | 1 seat and general admission, 2 holds, 2 runs at a time, 4 acts, 1 failed call | no live hold is forgotten without a cause; the page shows only the buyer's hold; its button comes back; a dead token is forgotten |
| `review` | 2 points, 3 requests at a time, 5 statuses an auditor may give a point, every decision, failures anywhere | an event that waits or is approved has no point sent back or rejected, waits only fully answered and is approved only fully accepted unless a point was only marked since; sent back, it has a point to answer unless the last verdict took it away; a last acceptance approves; listing and archive fit the status; each but for overlapping decisions |
| `access` | 1 owner with 2 events, 1 other user, both Super Admins, 2 requests at a time, 5 writes | nobody audits an event they manage, but for overtaken checks and approvals; somebody is Super Admin of the platform, but for overtaken revocations, an admin's own application, and the Super Admin of an event in the count; roles and scopes name only events that exist |
| `access_approval` (violation) | the same with 1 event and 1 request at a time | a request for access is approved although the delegate has become auditor of the event |

Why the bounds are enough. Every handler looks only at its own keys or rows, so
what can go wrong between calls needs two of them and a third that profits (three
holds, three scans, three tabs). Two seats give a partial lock, a rollback and a
seat order; two faults give a failure and a failure of its clean-up. An allocation
of two puts a request below, at and above the limit. In `sessions`, three
secrets allow a token that is two rotations old. One order is enough in
`orders` because no statement relates two of them. In `payouts`, the money
is small numbers and the three ids let two payouts exhaust the sales before a
third is inserted; a constraint keeps the review of a checklist or of an account to
the states with a single payout, because a review reads and writes no other payout and
the account is one row; for the same reason the organizer's application changes only in
states with a single payout and no checklist. `NoOversell` leaves out tiers whose counter
went wrong for a named cause (`miscounted`): one hold's tickets given back twice (by a
release repeated, two releases, or an INCRBY sent twice), given back by a release that then
stops with the hold still live, a Redis restart while tickets were in a call's hands, and
an allocation lowered under a seeded counter. `booking` reaches the first two; restarts and edits are
in `booking_live`, and for `NoOversell` in the proof, which needs no hypothesis. In
`venue_editor`, five acts allow: open a layout, edit, save, edit or undo, save again, with the
first reply late or lost or a save from elsewhere in between (an answer both late and
overtaken that matters takes seven, and is left to the proof of `RowsKept`); a history of two is exceeded by
three edits. In `buyer_page`, four acts allow proceed, back, proceed again and one
more page change or reload. In `review`, three requests are two whose writes cross and one
that overtakes them, and two points are a last one and one more. Of the nine statuses of a
point, five stand for all: Draft is treated like Sent; In Progress and Expired, like
Viewed, leave the point to answer; Resubmitted, like Verified, counts as answered. The
proof takes any subset of the nine. A constraint keeps statuses that leave the event alone
apart from listing and archive, which read no point.

In `access`, two requests are two that cross, one of which may be late; five writes allow
two events, a grant, a delegation and its approval or a change of its scope, or an event,
its Super Admin, and the revocations of both administrators. One
user owns the events and the other is the delegate; either may be auditor, organizer by
role or administrator.

Deadlock is checked in `orders`, `review` and `payouts`: no cycle of row and
advisory locks stops them. It is off in the booking, session and gate runs, whose
finite set of holds, families or scans is used up, and in `venue_editor`,
`buyer_page` and the access runs, whose acts or writes are: the instance then stops,
which the program does not.

Symmetry. Holds, seats, scans, tickets, calls, payouts, accounts, looks, points, events and
the two tabs of one browser are interchangeable in the runs that say so; the liveness runs use
none.

Fairness. `booking_live`: a goroutine that can go on does (weak fairness of each
call and release), and Redis removes what has expired (weak fairness of each
expiry). New calls, releases and edits are not fair. `orders`: the same for
running requests; Midtrans repeats a notification until it is answered 200, so
delivery is strongly fair: the bound on requests at a time may keep a delivery
out for a while, but not the real server. `buyer_page`: the request that restores a
hold is answered or fails, the countdown's timer fires, and `router.push` opens its
page; clicks and runs of Proceed and Pay are not fair. The number of faults is bounded, so faults
eventually stop; that is also what "Midtrans retries until acknowledged" needs.

Mutants. Each property has one mutated definition (a dropped guard, a plain `DEL`,
`SET` for `SETNX`, a missing rollback, a lock not taken, a swapped order, ...) under
which TLC finds it violated.

## 4. What is proved

Proofs hold for any number of holds, seats, tiers, sessions, tabs, orders,
requests, tickets, scans, devices, payouts, calls, layouts, rows, runs, page changes,
points, users, events and roles, and for any bounds on faults, writes and acts.
They rest on the named ASSUMEs of the modules (shapes of the constants) and
nothing else, except where stated.

- `BookingProofs`. `TypeCorrect`: types, with the capacity counter a natural number;
  needs that a running call's branch matches its request and that releases work on
  granted holds (`TypeInv`). `LockInvariant`, `CallsKeepTheirLocks`: `LockInv` is
  inductive provided `"restart" \notin FaultKinds`; with a Redis restart in the middle
  of a call it is false, since the locks are gone. Its core,
  `RunningCallsKeepTheirLocks`, needs `LocksHaveACause` (a lock names a call that asked
  for the seat), without which a finished hold's release might own a seat a running call
  believes in, and leaves out the calls in `stripped`. `OwnerUnlocks` and
  `ImplementsAtomic` follow from it, under the same hypothesis: the refinement maps
  `StoreHold` to the grant, every unlocking of granted holds (by a DEL sent twice also
  of several at once) to `ComeBack`, and everything else to a stutter.
  `RefusalsLeaveNothing` needs no assumption on faults: by `LocksAreKnown`, while
  nothing failed a call that may still be refused owns only the locks it knows of, which
  are those its rollback gives back. `NeverOversold` has no hypothesis, and follows by
  `CapacityInv`: for every tier that is not in `miscounted`, what the counter holds and
  the tickets out of it (those of live holds, and of calls, rollbacks and releases that
  have not given them back yet) fit into the allocation, no counter is missing while
  tickets are out of it, what a call is about to seed is at most the allocation, and
  only calls that took tickets have given some back. A tier enters `miscounted` for four
  causes, each set in the action that is the cause: the tickets of one hold are given
  back a second time; a release stops after it gave them back and leaves the hold live;
  Redis restarts while a call or a release has tickets in its hands; the allocation is
  lowered under an existing counter, or under a call about to plant one. None can be
  dropped: for each, TLC violates `NoOversell` without it. The second needs `KeptInv` as
  well: a live hold whose tickets are back on sale is being released, or its tier is
  noted.
- `AccountProofs` about `Session`. `ExchangedStale` by `StaleInv` (an exchanged token is
  older than its family's secret, and undrawn families have no exchanged token);
  `WinOnce` and `EndedStayEnded` are the action properties that follow;
  `SessionsIndexed` by `IndexInv`, which adds what a logout has listed and what a
  dropped entry implies. `CookieCurrent` and `AlarmCaused` by `JarInv`: no two browsers
  have tokens of one family, and while nothing was lost the only tab of a browser has,
  in its cookie or in the request it waits for, the current token of its session if that
  is alive.
- `OrdersProofs`. `OneTicket` by `TicketInv`: an order whose issuers never overlapped,
  and none of whose lookups failed (`blind`), has at most one ticket and at most one
  request on its way to insert, and none of the latter once it has a ticket.
  `OnlyPaidIssued` and `StatusFollows` by `PaymentInv`: notices in flight or being
  handled are true of the gateway, and a closing one is removed from the inbox only
  after it was applied.
- `GateProofs`. `UsedRecorded` and `AdmissionsRecorded` by `RecordInv`; `AdmitsOnce` by
  `PassInv`: while no scans of a ticket overlapped, at most one is past the check of its
  status, and then the ticket has no check-in yet.
- `PayoutsProofs`. `ReviewTypeCorrect` (types and "a payouts row is held exactly by the
  call ticking it"), `ChecklistFrozen`, `ApprovalRecorded` by `CheckInv`,
  `VerifiedShown` by `BankInv`: a tick works on a payout that is still open, and what a
  running approval or verification has read is current or marked overtaken, and a
  verified account is the one its auditor was shown unless it was overtaken or the
  application has rewritten it since. `SettledAtMostOnce`, `PendingFits` and
  `TypeCorrect` by `MoneyInv`: a settlement that has summed the balance holds the
  event's lock, so what it will settle still fits into the sales, which only grow; a
  request holds no lock, so the amount it is about to insert fits only until another
  request, inserted since, overtakes it.
- `AccountProofs` about `Access`. `AccessTypeCorrect` by `AccessInv`: a request names
  events of the owner it is about, or deleted ones, and none that is yet to be created;
  so a role or a scope never names an event that is gone. `SeparationHolds` by `SepInv`:
  what a request has checked (no conflict with the roles, the events and the delegations
  of its user) still holds when it writes, unless it is late. Any write of that user's
  rights makes it late, deletions and revocations only take rights away, and a new event
  is audited by nobody and named by no request. `AdminStays` by `AdmInv`: a revocation
  that is not late has counted two rows of Super Admin and there are two still, and if
  one of them is an event's it has set `padded`; the removal of any such row, and of an
  event that has one, makes every revocation under way late. It assumes a Super Admin at
  the start (`Founders # {}`).
- `VenueEditorProofs`. `TypeCorrect` (the undo and redo stacks together never exceed the
  cap, although redo has none) by `TypeInv`, which adds that a request under way has a
  layout and a plan of the right kind. `NoUpdateLost` by `VersionInv`: the version a
  store or a request carries is the one its plan descends from, unless it took it from a
  late or overtaken answer. `UndoRestores` by `GestureInv`: the newest snapshot is the
  plan before the last gesture, while a group is dragged just as after it. `RowPerSeat`
  by `SeatInv`: no plan, in the tab, its history, the file or a request, shows a stored
  row and, as still new, the seat this row was inserted for. `CurrentIsSavable` by
  `SavableInv`: no token is ahead of its layout's version, a load that carries the
  current version shows only its rows, and while the plan is not in doubt at most one
  save under way has gone through, and the tokens of the others are older. `RowsKept` by
  `IdentityInv`: while the tab has the current version its plan shows no stored row as
  new, and no later answer can give it that version without giving it the rows too,
  because a save that went through leaves only older versions under way and any other
  save of the layout marks its answer overtaken. The proof is what showed the last
  exception of `RowsKeepIdentity`: an answer both late and overtaken. TLC reaches that
  case with seven acts, two more than the run allows.
- `BuyerPageProofs`. `ButtonBack` by `TypeInv` alone, with the numbering of mounts.
  `ShownIsHeld` by `TokensInv` (every token in the tab was granted) and `HoldInv` (runs
  and releases belong to mounts so far, and the page still has a hold it released only
  while the release is being answered). `ForgottenHasACause` by `RunsInv`: a run that
  got past its release has ended the old hold or is excused for it, and carries a new
  one only until it has stored it.
- `ReviewProofs`, for any subset of the nine statuses of a point. `StatusFits` by
  `StatusInv`: an event whose status does not fit its points is about to be moved,
  unless a point was only marked since (those sent back or rejected count even then),
  and what a request has counted holds until it is overtaken. `Answerable` by
  `AnswerInv`: after a verdict that does not count as an answer there is a point to
  respond to; after an answer every move under way is overtaken, and an event to revise
  without such a point is about to be queued. `AcceptedApproved` by `AcceptInv` (after
  an acceptance every other pending move was overtaken, and one of the acceptances still
  counts or approves), `FlagsFit` by `FlagInv` (what an unlocked read saw still holds
  unless it was overtaken). Each needs `TypeCorrect`.

The type invariants of `Session`, `Orders`, `Gate`, `Review` and `Payouts` are proved and
not listed in a run.

Sums. A theorem about a fold over a set needs induction over that set, which the prover
cannot do. `Booking` and `Payouts` therefore count: a hold of n tickets is the n pairs
of it with 1 to n, a payout of n the same, and the sum is the number of pairs
(`Tickets`, `Sum`). What the proofs need of sums (one row more, one row less, a
subset) are then facts about the cardinality of unions and of intervals, which the
library proves.

Only model-checked: liveness (`EveryLockLapses`, `PaidGetsTicket`,
`DeadTokenIsForgotten`), which is beyond the prover.

## 5. Divergences shown by a run

1. `booking_expired_ga`: a general-admission hold that expires takes its tickets out of
   sale for as long as Redis runs. Handler comment `booking/handler.go:109-110` says of expiry
   that "the seats are already back on the map".
2. `access_approval`: Approve does not check for separation of duties, and the check of
   an Auditor grant looks at active delegations only. A user who asks for access, is
   made auditor while the request waits, and is then approved manages an event they
   audit (against `delegation/service.go:297-299` and section 8 of
   `docs/co-organizer-delegation-design.md`). No two requests overlap.

## 6. Divergences seen while modelling, without a run of their own

Behaviour the models contain, or that is plain from the code, that no document
contradicts sharply enough, or where there is nothing to interleave.

- Booking: the Redis client resends a command whose reply it lost
  (`redisclient/redis.go:14-17` leaves its retries at the default of three), and none of
  the commands of a hold says whose it is. A rollback's unmatched DEL sent twice may
  delete the lock another buyer took in between, and then two buyers hold one seat. A
  SETNX sent twice finds its own lock: the buyer is refused, and since the loop does not
  count that seat as locked the lock stays until it lapses. A decrement sent twice loses
  tickets, an INCRBY sent twice sells some twice. Further: two concurrent releases of
  one general-admission hold both return its tickets; a lowered allocation does not
  reach a seeded counter; moving an event to another venue, or painting its seats,
  leaves holds on seats that are gone or re-tiered; a tier can be held both by seat and
  by quantity when it is painted between the check and the hold; a rollback whose DEL
  fails leaves locks until they lapse; locks lapse slightly before the metadata, so a
  hold may be shown whose seats another buyer has. A tier's counter, once Redis
  restarts, is seeded from a `tickets_sold` that nothing writes.
- Sessions: two tabs of one browser that refresh the same cookie trip the replay alarm,
  which ends the session (against `auth/session.go:117-118`; the in-flight refresh of
  `utils/api.ts` is per tab), as `AlarmHasACause` allows; a login during "logout
  everywhere" may survive it without an index entry; a password reset or a suspension
  ends no session although `RevokeAllForUser` is documented for it; a reset token read
  twice before it is deleted works twice. A rotation whose script is resent presents a
  token it has itself made stale, and trips the replay alarm.
- Orders: RequestTicketOTP takes any error of its lookup for "no ticket" and inserts one
  without a further test (`ticket/repository.go:361-376`), so a request that fails to
  read gives an order a second ticket although nothing else runs; a late `pending`
  notification overwrites `paid`; the error of the webhook's INSERT is dropped and
  answered 200; CompletePayment and RequestTicketOTP issue tickets whatever the payment
  says; the webhook may issue a second ticket next to either of them; one ticket is
  issued whatever the quantity ordered; an order whose payment Midtrans refused stays
  pending.
- Gate: two overlapping scans both admit; the comment "Non-fatal: log but continue" is
  about a statement after whose failure Postgres refuses the commit.
- Payouts: an edit of the account between the auditor's comparison and the update gets
  an account verified that nobody saw (against `auditor/repository.go:2558-2561`; the
  row is not locked), the exception of `VerifiedWasShownUnlessSlipped`; only `pending`
  and `processed` count against the balance, so money in an approved, held or returned
  payout can be requested again, and a failed payout can be retried after that; Hold,
  Reject and Revise apply to decided payouts and reopen their checklists; the log of an
  approval is stale if a tick lands between the read and the update; the lock of the
  bank account is read before the update. UpdateApplication, the form of the organizer's
  application, writes the account too: it neither looks at the lock nor resets the
  verification, so that a verified account may be replaced, even by none, and stay
  verified (against `auditor/repository.go:2554-2561`, where only an edit that resets
  the verification is foreseen); the other exception of that property, `rewritten`.
- Review, status: five of the nine statuses the server takes for a point (Viewed, In
  Progress, Resubmitted, Verified, Expired) change the point and leave the event
  (`auditor/repository.go:1219-1247`). Marking an accepted point of an approved event
  Viewed leaves the event approved with an unresolved point, and marking the only open
  point Verified leaves an event to revise with nothing to answer. Further: accepting
  the last point approves an event whatever its status was, writes no approval log, and
  does so even when its COUNT fails; none of the moves that follow a point is in
  `event_status_log`, which `admin/repository.go:360-365` calls the unified trail.
  Answering the last open point sends even an approved or rejected event back to the
  queue, past the gates of PublishOrganizerEvent. The last count and the update may
  straddle a new point, so an event may be queued with an open one (against
  `organizer/repository.go:3250-3256`). "A response is final"
  (`organizer/repository.go:3197-3201`) is an unlocked read before an unconditional
  UPDATE: two answers race, or an answer and an acceptance. PublishOrganizerEvent does
  not look at open points.
- Review, consoles: "Request Changes" without a revision point leaves the organizer
  nothing to do: the banner says "Please update the details below and resubmit for
  approval" (`EventWorkspaceShell.tsx:343`), resubmitting is offered only for drafts,
  and the revisions page has no point to answer. The auditor's acceptance of the last
  unanswered point while another is answered has the same effect. UpdateEventReviewStage
  takes no lock, and no row is created on submission, against the comments of
  WithdrawEventFromReview.
- Review, publicity: the flags survive moves of the status, so a listed event that was
  sent back is public again as soon as it is approved ("approval is a precondition, not
  the trigger"), one that lost its approval cannot be unlisted, and an archived event
  that is approved may be listed and archived at once.
- Review, documents: VerifyEventDocument verifies by row id and a new upload keeps the
  id, so an auditor's stale page verifies a file nobody has seen; rejecting a document
  from the revision dialog passes an id where a key is looked up and has no effect; a
  draft revision is stored as sent.
- Venue designer: a reply to a save that arrives on another layout's page gives that
  plan the old layout's id and version, and the next save writes there (against
  `edit/page.tsx:4-8`). Duplicating a row copies its database ids: two seats, one row,
  and the save drops the copy. The version re-read after a commit may belong to another
  browser's save. When the layout is opened anew before a save is answered, and then
  saved, the first answer may re-read the second save's version: until the second answer
  comes, the tab has that version without the rows, and another save deletes these and
  inserts their seats again. Undo after a save brings back seats without rows, which the
  next save deletes and inserts again. An imported file keeps its ids, so it is refused
  by any other layout. A layout never saved keeps the previous one's stage. A key
  pressed in the middle of a group drag leaves `group_drag_active` set, and the next
  drag writes no history entry (against `SeatMapperCanvas.tsx:582`). Sliders write their
  entry after the change, a facility's drag none, a group's lock one per seat. Nothing
  disables Save while one is under way.
- Roles: the count before a Super Admin is revoked takes rows of every scope
  (`admin/repository.go:879-882`), and the grant accepts Super Admin with an event
  (`admin/handler.go:517-541`): next to such a row the last administrator of the
  platform can be revoked, with nothing overlapping (against lines 857-861), the
  exception `padded`. Two administrators may revoke each other, since the count and the
  DELETE are two statements, and approving an administrator's own organizer application
  deletes the role without a count (against `admin/repository.go:857-861`). A grant that
  crosses an invitation, or a change of scope that crosses an approval, escapes the
  conflict rule.
- Buyer's pages: the buyer's own held seats cannot be clicked (against the comment at
  `seats/page.tsx:338-340`); any failure of the lookup, even of the network, forgets a
  live hold; Proceed before the hold was restored leaves two live holds; a failed
  release is ignored; on checkout a failed event request says "Your seat hold has
  expired", and going from one checkout to another keeps the old page's hold and error.
  The payment window outlives the hold, and one hold may be ordered more than once,
  since an order knows no hold. The page of an order falls back to another ticket when
  none matches.

## 7. What is not modelled

Everything listed as not modelled in `PROJECT.json`, with its reason: queries and
reports, storage and mail, the HTTP middleware (no state that a second request
depends on, other than a rate-limit map behind one mutex), the frontend's pages
that load, render and post forms, and one small component with state, resale. Within modelled components: prices, fees and cart contents
(orders are issued one ticket whatever is in them), the rotation of QR secrets, OTP
digits, the text of the activity log, pagination and formatting; in `VenueEditor`
geometry, colours, labels and numbers of seats; in `BuyerPage` the buyer's contact
details and the payment itself; in `Review` the creation, editing and deletion of a
draft, documents, notes and deadlines, and the review stage, which no page sets; in
`Payouts` the deletion of an application and applying again; in
`Access` the platform-wide organizer role, the gate scanner's role, the status of accounts
and the deletion of users.

## 8. Plan

Done: `Booking`/`AtomicHolds`, `Session`, `Orders`, `Gate`, `Payouts`, `VenueEditor`,
`BuyerPage`, `Review` and `Access`, each with theorems (those of `Session` and `Access`
share `AccountProofs`). What would come next, most
important first:

1. A composition of `Orders` and `Gate` over one set of tickets: a guest is admitted
   only with a ticket issued for a paid order, or by the two named exceptions.
2. Documents in `Review`: uploads, versions and verification as a submission gate,
   with the verification by a stale page.
3. Proofs: `LockInv` with Redis restarts, for the calls that took no lock before the last
   one; and, once holds give their tickets back when they expire, that no tickets are lost.
4. `Resale`, once a listing can be bought.
