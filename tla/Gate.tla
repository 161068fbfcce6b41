-------------------------------- MODULE Gate --------------------------------
(***************************************************************************)
(* Checking tickets in at the gate: backend/internal/scanner (the scanner  *)
(* app) and CheckInAttendee of backend/internal/organizer (the console).   *)
(*                                                                         *)
(* Either is one Postgres transaction: read the ticket, refuse it unless   *)
(* its status allows entry, mark it used, record the check-in, commit.     *)
(* The read takes no lock; the UPDATE takes the ticket's row and does not  *)
(* look at its status again.  The scanner resolves its device and gate     *)
(* before the transaction and writes them into the record, whose foreign   *)
(* keys refuse a device or gate deleted meanwhile.  Nothing in the program *)
(* cancels or refunds a ticket, so a ticket is issued or used.             *)
(***************************************************************************)
EXTENDS Naturals, FiniteSets

CONSTANTS
    Tickets,     \* tickets of the event
    Scans,       \* scan requests, each handled once
    Devices,     \* registered scanner devices, each at a gate of its own
    Entrances,   \* which of {"app", "console"} are used
    FaultKinds,  \* which of AllFaults the environment produces
    MaxFaults,   \* bound: faults in one behaviour
    None         \* no ticket, no device, no scan

AllFaults == {"call", "crash", "reply"}

ASSUME GateAssumption ==
    /\ None \notin Tickets \cup Scans \cup Devices
    /\ Entrances \subseteq {"app", "console"}
    /\ FaultKinds \subseteq AllFaults
    /\ MaxFaults \in Nat

VARIABLES
    used,      \* tickets with ticket_status = 'used', committed
    checkins,  \* number of ticket_checkins rows of each ticket, committed
    rowLock,   \* the transaction that holds the ticket's row
    devices,   \* scanner_devices rows
    gated,     \* devices whose gate still exists
    pc,        \* per scan: where it is
    via,       \* through which entrance
    tkt,       \* the ticket it presents
    dev,       \* the device it resolved, None if there is none
    gate,      \* it resolved a gate with it
    aborted,   \* a statement of its transaction failed
    admitted,  \* number of times each ticket was answered VALID (history)
    raced,     \* tickets two of whose scans overlapped (history)
    faults     \* faults so far

database == <<used, checkins, rowLock>>
staff == <<devices, gated>>
scan == <<via, tkt, dev, gate>>
history == <<admitted, raced>>
vars == <<database, staff, pc, scan, aborted, history, faults>>

Steps == {"idle", "read", "mark", "record", "commit", "admitted", "refused",
          "dead"}

Go(s, step) == pc' = [pc EXCEPT ![s] = step]

Unlocked(s) == [k \in Tickets |-> IF rowLock[k] = s THEN None ELSE rowLock[k]]

Fault(kind) ==
    /\ kind \in FaultKinds
    /\ faults < MaxFaults
    /\ faults' = faults + 1

----------------------------------------------------------------------------
(* A scan arrives.  The app sends a device token with it, which resolves   *)
(* to a device and its gate or, when it was deleted, to nothing: the scan  *)
(* goes on without.                                                        *)
Present(s, k, d, e) ==
    /\ pc[s] = "idle"
    /\ e \in Entrances
    /\ e = "console" => d = None
    /\ Go(s, "read")
    /\ via' = [via EXCEPT ![s] = e]
    /\ tkt' = [tkt EXCEPT ![s] = k]
    /\ dev' = [dev EXCEPT ![s] = IF d \in devices THEN d ELSE None]
    /\ gate' = [gate EXCEPT ![s] = d \in devices /\ d \in gated]
    /\ UNCHANGED <<database, staff, aborted, history, faults>>

(* Scans that have seen the ticket unused and not yet finished. *)
Passing(s, k) == tkt[s] = k /\ pc[s] \in {"mark", "record", "commit"}

\* Mistake: the status is not looked at.
AllowedAlways(k) == TRUE

(* Neither used nor, which no ticket ever is, cancelled or refunded. *)
Allowed(k) == k \notin used

(* Read the ticket: an unreadable or expired code and a ticket of another  *)
(* event are refused as well.                                              *)
ReadTicket(s) ==
    LET k == tkt[s]
    IN  /\ pc[s] = "read"
        /\ \/ /\ Allowed(k)
              /\ raced' = IF \E r \in Scans : Passing(r, k)
                            THEN raced \cup {k} ELSE raced
              /\ Go(s, "mark")
           \/ /\ Go(s, "refused")
              /\ UNCHANGED raced
        /\ UNCHANGED <<database, staff, scan, aborted, admitted, faults>>

(* UPDATE tickets SET ticket_status = 'used': it waits for the row.        *)
MarkUsed(s) ==
    /\ pc[s] = "mark"
    /\ rowLock[tkt[s]] = None
    /\ rowLock' = [rowLock EXCEPT ![tkt[s]] = s]
    /\ Go(s, "record")
    /\ UNCHANGED <<used, checkins, staff, scan, aborted, history, faults>>

(* The device and the gate the record names are still there. *)
KeysExist(s) ==
    /\ dev[s] # None => dev[s] \in devices
    /\ gate[s] => dev[s] \in gated

RolledBack(s) ==
    /\ rowLock' = Unlocked(s)
    /\ Go(s, "refused")
    /\ UNCHANGED aborted

(* What a failed statement does: the console returns the error, the app    *)
(* ignores it and goes on in a transaction that Postgres has aborted.      *)
StatementFails(s, next) ==
    \/ /\ via[s] = "console"
       /\ RolledBack(s)
    \/ /\ via[s] = "app"
       /\ aborted' = [aborted EXCEPT ![s] = TRUE]
       /\ Go(s, next)
       /\ UNCHANGED rowLock

(* INSERT INTO ticket_checkins. *)
RecordCheckin(s) ==
    /\ pc[s] = "record"
    /\ \/ /\ KeysExist(s) /\ ~aborted[s]
          /\ Go(s, "commit")
          /\ UNCHANGED <<rowLock, aborted>>
       \/ /\ ~(KeysExist(s) /\ ~aborted[s])
          /\ StatementFails(s, "commit")
    /\ UNCHANGED <<used, checkins, staff, scan, history, faults>>

\* Mistake: what the transaction did before the failed statement is kept.
CommittedPartly(s) ==
    /\ used' = used \cup {tkt[s]}
    /\ checkins' = [checkins EXCEPT ![tkt[s]] = IF aborted[s] THEN @ ELSE @ + 1]

(* Both writes take effect, or neither. *)
Committed(s) ==
    \/ /\ ~aborted[s]
       /\ used' = used \cup {tkt[s]}
       /\ checkins' = [checkins EXCEPT ![tkt[s]] = @ + 1]
    \/ /\ aborted[s]
       /\ UNCHANGED <<used, checkins>>

\* Mistake: a failed commit is answered VALID.
AdmitsAlways(s) == TRUE

(* An aborted transaction fails to commit, and the scan is answered        *)
(* SERVER_ERROR.                                                           *)
Admits(s) == ~aborted[s]

Commit(s) ==
    /\ pc[s] = "commit"
    /\ Committed(s)
    /\ rowLock' = Unlocked(s)
    /\ \/ /\ Admits(s)
          /\ Go(s, "admitted")
          /\ admitted' = [admitted EXCEPT ![tkt[s]] = @ + 1]
       \/ /\ ~Admits(s)
          /\ Go(s, "refused")
          /\ UNCHANGED admitted
    /\ UNCHANGED <<staff, scan, aborted, raced, faults>>

----------------------------------------------------------------------------
(* The organizer removes a device or a gate.  A record that names it and   *)
(* is not committed yet holds a key-share lock on it, so the DELETE waits. *)
Inserted(s) == pc[s] = "commit" /\ ~aborted[s]

DeleteDevice(d) ==
    /\ d \in devices
    /\ \A s \in Scans : Inserted(s) => dev[s] # d
    /\ devices' = devices \ {d}
    /\ UNCHANGED <<database, gated, pc, scan, aborted, history, faults>>

(* The device stays, without a gate. *)
DeleteGate(d) ==
    /\ d \in gated
    /\ \A s \in Scans : Inserted(s) => ~(gate[s] /\ dev[s] = d)
    /\ gated' = gated \ {d}
    /\ UNCHANGED <<database, devices, pc, scan, aborted, history, faults>>

----------------------------------------------------------------------------
(* Faults. *)

(* A statement fails.  (The app ignores the error of the UPDATE too.)      *)
CallFails(s) ==
    /\ Fault("call")
    /\ \/ pc[s] = "read" /\ RolledBack(s)
       \/ pc[s] = "mark" /\ StatementFails(s, "record")
       \/ pc[s] = "record" /\ StatementFails(s, "commit")
       \/ pc[s] = "commit" /\ RolledBack(s)
    /\ UNCHANGED <<used, checkins, staff, scan, history>>

(* The commit takes effect and its reply is lost: the answer is an error.  *)
CommitReplyLost(s) ==
    /\ Fault("reply")
    /\ pc[s] = "commit"
    /\ Committed(s)
    /\ rowLock' = Unlocked(s)
    /\ Go(s, "refused")
    /\ UNCHANGED <<staff, scan, aborted, history>>

(* The server dies with the request; Postgres rolls back. *)
Crash(s) ==
    /\ Fault("crash")
    /\ pc[s] \in {"read", "mark", "record", "commit"}
    /\ rowLock' = Unlocked(s)
    /\ Go(s, "dead")
    /\ UNCHANGED <<used, checkins, staff, scan, aborted, history>>

----------------------------------------------------------------------------
Init ==
    /\ used = {}
    /\ checkins = [k \in Tickets |-> 0]
    /\ rowLock = [k \in Tickets |-> None]
    /\ devices = Devices
    /\ gated = Devices
    /\ pc = [s \in Scans |-> "idle"]
    /\ via = [s \in Scans |-> "app"]
    /\ tkt = [s \in Scans |-> None]
    /\ dev = [s \in Scans |-> None]
    /\ gate = [s \in Scans |-> FALSE]
    /\ aborted = [s \in Scans |-> FALSE]
    /\ admitted = [k \in Tickets |-> 0]
    /\ raced = {}
    /\ faults = 0

Advance(s) == ReadTicket(s) \/ MarkUsed(s) \/ RecordCheckin(s) \/ Commit(s)

Next ==
    \/ \E s \in Scans :
          \/ \E k \in Tickets, d \in Devices \cup {None}, e \in {"app", "console"} :
                Present(s, k, d, e)
          \/ Advance(s) \/ CallFails(s) \/ CommitReplyLost(s) \/ Crash(s)
    \/ \E d \in Devices : DeleteDevice(d) \/ DeleteGate(d)

Spec == Init /\ [][Next]_vars

----------------------------------------------------------------------------
(* Properties. *)

(* Every variable stays in its type; a row lock is held by a scan of that  *)
(* ticket, inside its transaction.                                         *)
TypeOK ==
    /\ used \subseteq Tickets
    /\ checkins \in [Tickets -> Nat]
    /\ rowLock \in [Tickets -> Scans \cup {None}]
    /\ devices \subseteq Devices
    /\ gated \subseteq Devices
    /\ pc \in [Scans -> Steps]
    /\ via \in [Scans -> {"app", "console"}]
    /\ tkt \in [Scans -> Tickets \cup {None}]
    /\ dev \in [Scans -> Devices \cup {None}]
    /\ gate \in [Scans -> BOOLEAN]
    /\ aborted \in [Scans -> BOOLEAN]
    /\ admitted \in [Tickets -> Nat]
    /\ raced \subseteq Tickets
    /\ faults \in Nat
    /\ \A s \in Scans : pc[s] # "idle" => tkt[s] \in Tickets
    /\ \A k \in Tickets : rowLock[k] # None =>
          tkt[rowLock[k]] = k /\ pc[rowLock[k]] \in {"record", "commit"}

(* A ticket is used exactly if a check-in of it is recorded: attendance    *)
(* and entry agree, through failed records, deleted devices, crashes and   *)
(* lost replies, at the scanner and at the console.                        *)
UsedIsRecorded == \A k \in Tickets : k \in used <=> checkins[k] > 0

(* No one is waved through without a record of it: each VALID answer has a *)
(* check-in of its own.                                                    *)
AdmissionsAreRecorded == \A k \in Tickets : admitted[k] <= checkins[k]

(* A ticket admits a second person only when two scans of it overlapped:   *)
(* scans that follow one another, at any gates, do not, even when the      *)
(* first was answered with an error after its commit.                      *)
AdmitsOnceUnlessRaced == \A k \in Tickets : checkins[k] > 1 => k \in raced
=============================================================================
