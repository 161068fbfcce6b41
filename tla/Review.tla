------------------------------- MODULE Review -------------------------------
(***************************************************************************)
(* The review of one event: the revision points an auditor raises, the     *)
(* organizer's answers, the auditor's verdicts on them, the status of the  *)
(* event that follows, and whether the organizer has put it on sale or     *)
(* into the archive (organizer/repository.go, auditor/repository.go,       *)
(* admin/repository.go).                                                   *)
(*                                                                         *)
(* An answer, a new point and a verdict write the point and the event in   *)
(* statements of their own, without a transaction: every statement is a    *)
(* step.  The buttons that decide an event as a whole run in a transaction *)
(* that holds its row from the first read to the last write: one step.     *)
(* The consoles hide a button once the page has been loaded again; a page  *)
(* that has not been may show any earlier state, so here a click may come  *)
(* on any point and at any status, and what the server checks decides.     *)
(***************************************************************************)
EXTENDS Naturals, FiniteSets

CONSTANTS
    Points,   \* ids of auditor_revisions rows of the event
    Calls,    \* requests that are handled at the same time
    Verdicts, \* bound: the statuses an auditor gives a point
    None      \* no point, no request

validRevisionStatuses ==
    {"Draft", "Sent", "Viewed", "In Progress", "Resubmitted", "Verified",
     "Resolved", "Rejected", "Expired"}

ASSUME ReviewAssumption ==
    /\ None \notin Points \cup Calls
    /\ Verdicts \subseteq validRevisionStatuses

VARIABLES
    status,     \* events.status
    listed,     \* events.published_at is set
    archived,   \* events.archived_at is set
    claimed,    \* auditor_event_reviews has a row past 'Submitted'
    points,     \* auditor_revisions.status, "none" for an id not used yet
    call,       \* per request: where it is, its point, and whether what it
                \* wrote, counted or read was overtaken by another's write
    lastWrite,  \* what the last write of a point was (history)
    aside,      \* since the points last decided the status, a point was
                \* given a status that leaves the event alone (history)
    excused,    \* the last decision on the status overlapped another, broke
                \* off, or was not about a point (history)
    carried     \* since it was last neither listed nor archived, the event
                \* was moved while it was, or a flag was set on an old status
                \* (history)

event == <<status, listed, archived, carried>>
review == <<claimed, points, lastWrite, aside>>
vars == <<event, review, call, excused>>

Statuses == {"draft", "pending_review", "approved", "rejected",
             "needs_revision"}

Raised == {p \in Points : points[p] # "none"}
With(some) == {p \in Points : points[p] \in some}

Idle == [at |-> "idle", point |-> None, late |-> FALSE]

At(steps) == {c \in Calls : call[c].at \in steps}
UnderWay == Calls \ At({"idle"})

(* The request c goes on as r; what it wrote overtakes those at `steps`.   *)
Overtaking(c, r, steps) ==
    call' = [d \in Calls |->
               IF d = c THEN r
               ELSE IF call[d].at \in steps THEN [call[d] EXCEPT !.late = TRUE]
                    ELSE call[d]]

Go(c, step) == call' = [call EXCEPT ![c].at = step]
End(c) == call' = [call EXCEPT ![c] = Idle]
Overtakes(c, step, p, steps) ==
    Overtaking(c, [at |-> step, point |-> p, late |-> FALSE], steps)

(* Steps at which a request has read or counted, or is about to write.     *)
Moving == {"send_back", "reject"}
Flagging == {"list", "archive"}

WritePoint(p, to) == points' = [points EXCEPT ![p] = to]

(* UPDATE events SET status, whatever it was before; the listing and the   *)
(* archive stay as they are.                                               *)
SetStatus(c, to) ==
    /\ status' = to
    /\ carried' = (carried \/ (to # status /\ (listed \/ archived)))
    /\ Overtaking(c, Idle, Flagging)
    /\ UNCHANGED <<listed, archived, points, lastWrite>>

MoveTo(c, to) ==
    /\ SetStatus(c, to)
    /\ excused' = call[c].late
    /\ aside' = FALSE
    /\ UNCHANGED claimed

----------------------------------------------------------------------------
(* The organizer answers a point: RespondToEventRevision.                  *)

Answered == {"Resubmitted", "In Review", "Resolved", "Verified"}

ReadPoint(c, p) ==
    /\ call[c].at = "idle"
    /\ p \in Raised \ With(Answered)
    /\ call' = [call EXCEPT ![c] = [at |-> "answer", point |-> p,
                                    late |-> FALSE]]
    /\ UNCHANGED <<event, review, excused>>

WriteAnswer(c) ==
    /\ call[c].at = "answer"
    /\ WritePoint(call[c].point, "Resubmitted")
    /\ Overtakes(c, "count", call[c].point, Moving \cup {"approve"})
    /\ lastWrite' = "answer"
    /\ UNCHANGED <<event, claimed, aside, excused>>

\* Mistake: the point just answered counts as open.
StillOpenAndAnswered == {"Draft", "Sent", "Viewed", "In Progress", "Rejected",
                         "Expired", "Resubmitted"}

\* Mistake: a rejected fix does not need another answer.
StillOpenNotRejected == {"Draft", "Sent", "Viewed", "In Progress", "Expired"}

StillOpen == {"Draft", "Sent", "Viewed", "In Progress", "Rejected", "Expired"}

CountOpen(c) ==
    /\ call[c].at = "count"
    /\ IF With(StillOpen) = {} THEN Go(c, "queue") ELSE End(c)
    /\ UNCHANGED <<event, review, excused>>

Queue(c) ==
    /\ call[c].at = "queue"
    /\ MoveTo(c, "pending_review")

----------------------------------------------------------------------------
(* The auditor raises a point, or judges one.  An answer overtaken by the  *)
(* auditor may be counted and queued after the auditor's own decision.     *)

Overtaken == Moving \cup {"approve", "count", "queue"}

(* AddEventRevision. *)
AddRevision(c, p) ==
    /\ call[c].at = "idle"
    /\ p \in Points \ Raised
    /\ WritePoint(p, "Sent")
    /\ Overtakes(c, "send_back", p, Overtaken)
    /\ lastWrite' = "Sent"
    /\ UNCHANGED <<event, claimed, aside, excused>>

(* UpdateRevisionStatus: four of the statuses go on to move the event.     *)
Returned == {"Draft", "Sent", "Rejected"}
MovesTheEvent == Returned \cup {"Resolved"}

After(verdict) ==
    CASE verdict = "Resolved"          -> "accept"
      [] verdict \in {"Sent", "Draft"} -> "send_back"
      [] verdict = "Rejected"          -> "reject"

(* Whatever the point's status was. *)
WriteVerdict(c, p, verdict) ==
    /\ call[c].at = "idle"
    /\ p \in Raised
    /\ verdict \in MovesTheEvent
    /\ WritePoint(p, verdict)
    /\ Overtakes(c, After(verdict), p, Overtaken)
    /\ lastWrite' = verdict
    /\ UNCHANGED <<event, claimed, aside, excused>>

(* The other statuses are written and leave the event as it is. *)
MarkPoint(c, p, verdict) ==
    /\ call[c].at = "idle"
    /\ p \in Raised
    /\ verdict \notin MovesTheEvent
    /\ WritePoint(p, verdict)
    /\ Overtaking(c, Idle, Overtaken)
    /\ lastWrite' = verdict
    /\ aside' = TRUE
    /\ UNCHANGED <<event, claimed, excused>>

Unresolved == Raised \ With({"Resolved"})

\* Mistake: the points already accepted are counted too.
CountAll(c) ==
    /\ call[c].at = "accept"
    /\ IF Raised = {} THEN Go(c, "approve") ELSE End(c)
    /\ UNCHANGED <<event, review, excused>>

CountUnresolved(c) ==
    /\ call[c].at = "accept"
    /\ IF Unresolved = {} THEN Go(c, "approve") ELSE End(c)
    /\ UNCHANGED <<event, review, excused>>

(* The error of the COUNT is dropped and the number stays zero.            *)
CountFails(c) ==
    /\ call[c].at = "accept"
    /\ call' = [call EXCEPT ![c].at = "approve", ![c].late = TRUE]
    /\ UNCHANGED <<event, review, excused>>

Approve(c) ==
    /\ call[c].at = "approve"
    /\ MoveTo(c, "approved")

SendBack(c) ==
    /\ call[c].at = "send_back"
    /\ MoveTo(c, "needs_revision")

Reject(c) ==
    /\ call[c].at = "reject"
    /\ MoveTo(c, "rejected")

----------------------------------------------------------------------------
(* Decisions on the event as a whole. *)

Decision(to) ==
    /\ SetStatus(None, to)
    /\ excused' = TRUE
    /\ UNCHANGED aside

(* PublishOrganizerEvent: the status is read without a lock; documents,    *)
(* bank account, venue and seats may refuse the event (CallStops).         *)
ReadStatus(c) ==
    /\ call[c].at = "idle"
    /\ status \notin {"pending_review", "approved"}
    /\ Go(c, "submit")
    /\ UNCHANGED <<event, review, excused>>

Submit(c) ==
    /\ call[c].at = "submit"
    /\ SetStatus(c, "pending_review")
    /\ excused' = TRUE
    /\ UNCHANGED <<claimed, aside>>

(* WithdrawEventFromReview. *)
Withdraw ==
    /\ status = "pending_review"
    /\ ~claimed
    /\ Decision("draft")
    /\ UNCHANGED claimed

(* ApproveEventReview. *)
ApproveEvent ==
    /\ status # "approved"
    /\ claimed' = TRUE
    /\ Decision("approved")

(* RejectEventReview. *)
RejectEvent ==
    /\ status # "rejected"
    /\ Decision("rejected")
    /\ UNCHANGED claimed

(* RequestEventChanges. *)
RequestChanges ==
    /\ claimed' = TRUE
    /\ Decision("needs_revision")

(* The admin's settleEvent and SetEventStatus. *)
SettleEvent(to) ==
    /\ to \in {"approved", "rejected"} \ {status}
    /\ Decision(to)
    /\ UNCHANGED claimed

SetEventStatus(to) ==
    /\ to \in {"draft", "pending_review"}
    /\ Decision(to)
    /\ UNCHANGED claimed

----------------------------------------------------------------------------
(* The organizer lists the event, takes it off the list, archives it or    *)
(* takes it out of the archive: SetEventListed and SetEventArchived.  The  *)
(* status is read without a lock before the flag is written.               *)

\* Mistake: any status will do.
ReadForListAny(c) ==
    /\ call[c].at = "idle"
    /\ ~archived
    /\ Go(c, "list")
    /\ UNCHANGED <<event, review, excused>>

ReadForList(c) ==
    /\ call[c].at = "idle"
    /\ status = "approved"
    /\ ~archived
    /\ Go(c, "list")
    /\ UNCHANGED <<event, review, excused>>

ReadForUnlist(c) ==
    /\ call[c].at = "idle"
    /\ status = "approved"
    /\ Go(c, "unlist")
    /\ UNCHANGED <<event, review, excused>>

ReadForArchive(c) ==
    /\ call[c].at = "idle"
    /\ status \in {"rejected", "draft"}
    /\ Go(c, "archive")
    /\ UNCHANGED <<event, review, excused>>

(* UPDATE events SET published_at, archived_at. *)
SetFlags(c, toListed, toArchived, old) ==
    /\ listed' = toListed
    /\ archived' = toArchived
    /\ carried' = ((carried \/ old) /\ (toListed \/ toArchived))
    /\ Overtaking(c, Idle, Flagging)
    /\ UNCHANGED <<status, review, excused>>

List(c) ==
    /\ call[c].at = "list"
    /\ SetFlags(c, TRUE, archived, call[c].late)

Unlist(c) ==
    /\ call[c].at = "unlist"
    /\ SetFlags(c, FALSE, archived, FALSE)

Archive(c) ==
    /\ call[c].at = "archive"
    /\ SetFlags(c, listed, TRUE, call[c].late)

Unarchive == SetFlags(None, listed, FALSE, FALSE)

----------------------------------------------------------------------------
(* A gate refuses, a statement fails, the deadline of the call passes or   *)
(* the process dies: what the call has written stays.                      *)
CallStops(c) ==
    /\ c \in UnderWay
    /\ End(c)
    /\ excused' = (excused \/ call[c].at \notin
                        {"answer", "submit", "list", "unlist", "archive"})
    /\ UNCHANGED <<event, review>>

----------------------------------------------------------------------------
Init ==
    /\ status = "draft"
    /\ listed = FALSE
    /\ archived = FALSE
    /\ claimed = FALSE
    /\ points = [p \in Points |-> "none"]
    /\ call = [c \in Calls |-> Idle]
    /\ lastWrite = "none"
    /\ aside = FALSE
    /\ excused = FALSE
    /\ carried = FALSE

Respond(c) ==
    \/ \E p \in Points : ReadPoint(c, p)
    \/ WriteAnswer(c) \/ CountOpen(c) \/ Queue(c)

Audit(c) ==
    \/ \E p \in Points : AddRevision(c, p)
    \/ \E p \in Points, verdict \in Verdicts :
          WriteVerdict(c, p, verdict) \/ MarkPoint(c, p, verdict)
    \/ CountUnresolved(c) \/ CountFails(c)
    \/ Approve(c) \/ SendBack(c) \/ Reject(c)

Decide ==
    \/ Withdraw
    \/ ApproveEvent \/ RejectEvent \/ RequestChanges
    \/ \E to \in Statuses : SettleEvent(to) \/ SetEventStatus(to)

Publicity(c) ==
    \/ ReadForList(c) \/ ReadForUnlist(c) \/ ReadForArchive(c)
    \/ List(c) \/ Unlist(c) \/ Archive(c)

Next ==
    \/ \E c \in Calls : \/ Respond(c) \/ Audit(c)
                        \/ ReadStatus(c) \/ Submit(c)
                        \/ Publicity(c)
                        \/ CallStops(c)
    \/ Decide
    \/ Unarchive

Spec == Init /\ [][Next]_vars

----------------------------------------------------------------------------
Steps == {"idle", "answer", "count", "queue", "accept", "approve",
          "send_back", "reject", "submit", "list", "unlist", "archive"}

(* Types; a request past its first write is about a point that was raised. *)
TypeOK ==
    /\ status \in Statuses
    /\ {listed, archived, claimed, aside, excused, carried} \subseteq BOOLEAN
    /\ points \in [Points -> validRevisionStatuses \cup {"none"}]
    /\ call \in [Calls -> [at : Steps, point : Points \cup {None},
                           late : BOOLEAN]]
    /\ lastWrite \in validRevisionStatuses \cup {"answer", "none"}
    /\ \A c \in At({"answer"}) : call[c].point \in Raised

(* What the organizer's page lets the organizer respond to: canRespond. *)
Respondable == Raised \ With(Answered)

(* RespondToEventRevision: "Only hand the event back to the auditor once   *)
(* every revision point has an answer", and "this must stay in step with   *)
(* the set the UI lets the organizer respond to".  However answers, new    *)
(* points and verdicts interleave, an event that waits for the auditor or  *)
(* is public has no point that the auditor sent back or rejected; it waits *)
(* only without a point to respond to, and is public only with every point *)
(* accepted, unless a point was given a status that leaves the event alone *)
(* (`aside`).  Not so decisions that overlapped a write, broke off         *)
(* half-way or were made over the points' heads (`excused`).               *)
StatusFitsThePoints ==
    UnderWay = {} /\ ~excused =>
        /\ status \in {"pending_review", "approved"} => With(Returned) = {}
        /\ ~aside /\ status = "pending_review" => Respondable = {}
        /\ ~aside /\ status = "approved" => Unresolved = {}

(* The organizer is never left with an event to revise and no point to     *)
(* respond to (the consoles offer nothing else), unless the auditor's own  *)
(* verdict took the last one away: an acceptance, or a status that counts  *)
(* as answered and leaves the event alone.                                 *)
RevisionIsAnswerable ==
    UnderWay = {} /\ ~excused /\ status = "needs_revision" =>
        Respondable # {} \/ lastWrite \in Answered

(* UpdateRevisionStatus: once an acceptance has left no point unresolved,  *)
(* the event is approved, however the acceptances of its points and the    *)
(* answers to them interleaved.                                            *)
AcceptedIsApproved ==
    UnderWay = {} /\ ~excused /\ lastWrite = "Resolved" /\ Unresolved = {} =>
        status = "approved"

(* SetEventListed and SetEventArchived: "approval is a precondition", and  *)
(* "only terminal events may be archived".  However their unlocked reads   *)
(* interleave with the decisions of the review, an event is on sale only   *)
(* approved and out of the archive, and in the archive only rejected or in *)
(* draft - unless it was moved while it was listed or archived, or between *)
(* such a read and its write.                                              *)
FlagsFitTheStatus ==
    ~carried =>
        /\ listed => status = "approved" /\ ~archived
        /\ archived => status \in {"rejected", "draft"}
=============================================================================
