---------------------------- MODULE ReviewProofs ----------------------------
(***************************************************************************)
(* Theorems about Review, for any number of points and requests: an event  *)
(* waits or is public only with the points that allow it, the organizer    *)
(* is not left without a point to respond to, and a last acceptance        *)
(* approves - each but for the decisions `excused` records.                *)
(***************************************************************************)
EXTENDS Review, TLAPS

(* What a variable may hold, and what a request about to answer is about. *)
CallType == [at : Steps, point : Points \cup {None}, late : BOOLEAN]

LEMMA IdleType == Idle \in CallType /\ Idle.at = "idle"
  BY DEF Idle, CallType, Steps

(* The initial state has the types. *)
LEMMA InitTypeOK == Init => TypeOK
  <1> SUFFICES ASSUME Init PROVE TypeOK
    OBVIOUS
  <1>1. call \in [Calls -> CallType] /\ At({"answer"}) = {}
    BY IdleType DEF Init, At
  <1> QED
    BY <1>1 DEF Init, TypeOK, CallType, Statuses, validRevisionStatuses

(* Steps that change only where a request is. *)
LEMMA CallTypeOK ==
    ASSUME TypeOK, NEW c \in Calls, NEW r \in CallType, r.at # "answer",
           call' = [call EXCEPT ![c] = r], UNCHANGED points
    PROVE  /\ call' \in [Calls -> CallType]
           /\ \A d \in At({"answer"})' : call'[d].point \in Raised'
  BY DEF TypeOK, CallType, At, Raised

(* Steps that overtake other requests. *)
LEMMA OvertakingTypeOK ==
    ASSUME TypeOK, NEW c \in Calls \cup {None}, NEW r \in CallType,
           r.at # "answer", NEW steps, Overtaking(c, r, steps),
           Raised \subseteq Raised'
    PROVE  /\ call' \in [Calls -> CallType]
           /\ \A d \in At({"answer"})' : call'[d].point \in Raised'
  <1>1. ASSUME NEW d \in Calls
        PROVE  /\ call'[d] \in CallType
               /\ call'[d].at = "answer" =>
                     call[d].at = "answer" /\ call'[d].point = call[d].point
    BY DEF TypeOK, CallType, Overtaking
  <1>2. call' \in [Calls -> CallType]
    BY <1>1 DEF Overtaking
  <1> QED
    BY <1>1, <1>2 DEF TypeOK, At

(* Steps that write a point. *)
LEMMA WriteTypeOK ==
    ASSUME TypeOK, NEW c \in Calls, NEW p \in Points, NEW to \in validRevisionStatuses,
           NEW step \in Steps \ {"answer"}, NEW steps,
           WritePoint(p, to), Overtakes(c, step, p, steps)
    PROVE  /\ points' \in [Points -> validRevisionStatuses \cup {"none"}]
           /\ call' \in [Calls -> CallType]
           /\ \A d \in At({"answer"})' : call'[d].point \in Raised'
  <1>1. points' \in [Points -> validRevisionStatuses \cup {"none"}]
    BY DEF TypeOK, WritePoint
  <1>2. Raised \subseteq Raised'
    BY DEF TypeOK, WritePoint, Raised, validRevisionStatuses
  <1>3. [at |-> step, point |-> p, late |-> FALSE] \in CallType
    BY DEF CallType
  <1> QED
    BY <1>1, <1>2, <1>3, OvertakingTypeOK DEF Overtakes

(* No step leaves the types. *)
LEMMA NextTypeOK == TypeOK /\ [Next]_vars => TypeOK'
  <1> SUFFICES ASSUME TypeOK, [Next]_vars PROVE TypeOK'
    OBVIOUS
  <1> DEFINE Rest == /\ status' \in Statuses
                     /\ {listed, archived, claimed, aside, excused, carried}'
                            \subseteq BOOLEAN
                     /\ lastWrite' \in validRevisionStatuses \cup {"answer", "none"}
  <1>1. ASSUME NEW c \in Calls, NEW p \in Points, ReadPoint(c, p) PROVE TypeOK'
    BY <1>1 DEF ReadPoint, event, review, TypeOK, Steps, At, Raised
  <1>2. ASSUME NEW c \in Calls, WriteAnswer(c) PROVE TypeOK'
    <2>1. call[c].point \in Points
      BY <1>2 DEF WriteAnswer, TypeOK, At, Raised
    <2> QED
      BY <1>2, <2>1, WriteTypeOK
         DEF WriteAnswer, event, TypeOK, CallType, Steps, validRevisionStatuses
  <1>3. ASSUME NEW c \in Calls,
               \/ CountOpen(c) \/ CountUnresolved(c) \/ CountFails(c)
               \/ ReadStatus(c) \/ CallStops(c)
               \/ ReadForList(c) \/ ReadForUnlist(c) \/ ReadForArchive(c)
        PROVE  TypeOK'
    <2>1. \E r \in CallType : r.at # "answer" /\ call' = [call EXCEPT ![c] = r]
      <3> DEFINE Left(step) == [call[c] EXCEPT !.at = step]
      <3>1. \A step \in Steps : /\ Left(step) \in CallType
                                /\ Left(step).at = step
                                /\ [Left(step) EXCEPT !.late = TRUE] \in CallType
                                /\ [Left(step) EXCEPT !.late = TRUE].at = step
        BY DEF TypeOK, CallType
      <3>2. \/ call' = [call EXCEPT ![c] = Idle]
            \/ \E step \in Steps \ {"answer"} :
                  \/ call' = [call EXCEPT ![c] = Left(step)]
                  \/ call' = [call EXCEPT ![c] = [Left(step) EXCEPT !.late = TRUE]]
        BY <1>3 DEF CountOpen, CountUnresolved, CountFails, ReadStatus,
                    CallStops, ReadForList, ReadForUnlist, ReadForArchive,
                    Go, End, Steps, TypeOK
      <3> QED
        BY <3>1, <3>2, IdleType
    <2>2. UNCHANGED points /\ Rest
      BY <1>3 DEF CountOpen, CountUnresolved, CountFails, ReadStatus,
                  CallStops, ReadForList, ReadForUnlist, ReadForArchive,
                  event, review, TypeOK, Statuses
    <2> QED
      BY <2>1, <2>2, CallTypeOK DEF TypeOK, CallType
  <1>4. ASSUME NEW c \in Calls,
               \/ Queue(c) \/ Approve(c) \/ SendBack(c) \/ Reject(c) \/ Submit(c)
               \/ List(c) \/ Unlist(c) \/ Archive(c)
        PROVE  TypeOK'
    <2>1. Overtaking(c, Idle, Flagging) /\ UNCHANGED points /\ Rest
      <3>1. CASE Queue(c) \/ Approve(c) \/ SendBack(c) \/ Reject(c) \/ Submit(c)
        BY <3>1 DEF Queue, Approve, SendBack, Reject, Submit, MoveTo, SetStatus,
                    TypeOK, Statuses
      <3>2. CASE List(c) \/ Unlist(c) \/ Archive(c)
        BY <3>2 DEF List, Unlist, Archive, SetFlags, review, TypeOK
      <3> QED
        BY <1>4, <3>1, <3>2
    <2>2. Raised \subseteq Raised'
      BY <2>1 DEF Raised
    <2> QED
      BY <2>1, <2>2, IdleType, OvertakingTypeOK DEF TypeOK, CallType
  <1>5. ASSUME NEW c \in Calls, NEW p \in Points, AddRevision(c, p)
        PROVE  TypeOK'
    BY <1>5, WriteTypeOK
       DEF AddRevision, event, TypeOK, CallType, Steps, validRevisionStatuses
  <1>6. ASSUME NEW c \in Calls, NEW p \in Points, NEW verdict \in Verdicts,
               WriteVerdict(c, p, verdict)
        PROVE  TypeOK'
    <2>1. After(verdict) \in Steps \ {"answer"}
      BY <1>6 DEF WriteVerdict, After, MovesTheEvent, Returned, Steps
    <2>2. verdict \in validRevisionStatuses
      BY ReviewAssumption
    <2> QED
      BY <1>6, <2>1, <2>2, WriteTypeOK DEF WriteVerdict, event, TypeOK, CallType
  <1>7. CASE Decide \/ Unarchive
    <2>1. Overtaking(None, Idle, Flagging) /\ UNCHANGED points /\ Rest
      <3>1. CASE Decide
        BY <3>1 DEF Decide, Decision, SetStatus, Withdraw, ApproveEvent,
                    RejectEvent, RequestChanges, SettleEvent, SetEventStatus,
                    TypeOK, Statuses
      <3>2. CASE Unarchive
        BY <3>2 DEF Unarchive, SetFlags, review, TypeOK
      <3> QED
        BY <1>7, <3>1, <3>2
    <2>2. Raised \subseteq Raised'
      BY <2>1 DEF Raised
    <2> QED
      BY <2>1, <2>2, IdleType, OvertakingTypeOK DEF TypeOK, CallType
  <1>8. ASSUME NEW c \in Calls, NEW p \in Points, NEW verdict \in Verdicts,
               MarkPoint(c, p, verdict)
        PROVE  TypeOK'
    <2>1. verdict \in validRevisionStatuses /\ verdict # "none"
      BY ReviewAssumption DEF validRevisionStatuses
    <2>2. points' \in [Points -> validRevisionStatuses \cup {"none"}]
      BY <1>8, <2>1 DEF MarkPoint, WritePoint, TypeOK
    <2>3. Raised \subseteq Raised'
      BY <1>8, <2>1 DEF MarkPoint, WritePoint, TypeOK, Raised
    <2> QED
      BY <1>8, <2>1, <2>2, <2>3, IdleType, OvertakingTypeOK
         DEF MarkPoint, event, TypeOK, CallType
  <1>9. CASE UNCHANGED vars
    BY <1>9 DEF vars, event, review, TypeOK, At, Raised
  <1> QED
    BY <1>1, <1>2, <1>3, <1>4, <1>5, <1>6, <1>7, <1>8, <1>9
       DEF Next, Respond, Audit, Publicity

(* Every variable of every behaviour stays in its type. *)
THEOREM TypeCorrect == Spec => []TypeOK
  BY InitTypeOK, NextTypeOK, PTL DEF Spec

----------------------------------------------------------------------------
(* The points of RespondToEventRevision's count are those the organizer's  *)
(* page lets the organizer respond to.                                     *)
LEMMA OpenIsRespondable ==
    TypeOK => With(StillOpen) = Respondable /\ Respondable \subseteq Unresolved
  BY DEF TypeOK, With, StillOpen, Respondable, Raised, Answered, Unresolved,
         validRevisionStatuses

(* What a write of one point does to the sets of points. *)
LEMMA WrittenPoints ==
    ASSUME TypeOK, NEW p \in Points, NEW to \in validRevisionStatuses,
           WritePoint(p, to)
    PROVE  /\ to \in Answered => Respondable' \subseteq Respondable
           /\ to \notin Answered => Respondable' # {}
           /\ to = "Resolved" => Unresolved' \subseteq Unresolved
           /\ to \notin Returned => With(Returned)' \subseteq With(Returned)
  <1>1. points'[p] = to /\ \A q \in Points \ {p} : points'[q] = points[q]
    BY DEF TypeOK, WritePoint
  <1>2. \A q \in Points : points[q] \notin Answered \cup {"none"} <=> q \in Respondable
    BY DEF Respondable, Raised, With
  <1>3. \A q \in Points : points'[q] \notin Answered \cup {"none"} <=> q \in Respondable'
    BY DEF Respondable, Raised, With
  <1>4. /\ Respondable' \subseteq Points /\ Respondable \subseteq Points
        /\ Unresolved' \subseteq Points /\ Unresolved \subseteq Points
    BY DEF Respondable, Unresolved, Raised
  <1>5. ASSUME to \in Answered
        PROVE  Respondable' \subseteq Respondable
    BY <1>1, <1>2, <1>3, <1>4, <1>5 DEF Answered
  <1>6. ASSUME to \notin Answered PROVE p \in Respondable'
    BY <1>1, <1>3, <1>6 DEF validRevisionStatuses
  <1>7. ASSUME to = "Resolved" PROVE Unresolved' \subseteq Unresolved
    <2>1. \A q \in Points : points[q] \notin {"none", "Resolved"} <=> q \in Unresolved
      BY DEF Unresolved, Raised, With
    <2>2. \A q \in Points : points'[q] \notin {"none", "Resolved"} <=> q \in Unresolved'
      BY DEF Unresolved, Raised, With
    <2> QED
      BY <1>1, <1>4, <1>7, <2>1, <2>2
  <1>8. ASSUME to \notin Returned PROVE With(Returned)' \subseteq With(Returned)
    BY <1>1, <1>8 DEF With
  <1> QED
    BY <1>5, <1>6, <1>7, <1>8

(* Some request is at one of the steps. *)
Some(steps) == \E c \in Calls : call[c].at \in steps

(* Steps that list or archive move nothing and overtake only such steps.   *)
LEMMA FlagSteps ==
    ASSUME Unarchive \/ \E c \in Calls : List(c) \/ Unlist(c) \/ Archive(c)
    PROVE  \E c \in Calls \cup {None} :
              /\ c \in Calls => call[c].at \in {"list", "unlist", "archive"}
              /\ Overtaking(c, Idle, Flagging)
              /\ UNCHANGED <<status, review, excused>>
  <1>1. CASE Unarchive
    <2>1. /\ None \notin Calls
          /\ Overtaking(None, Idle, Flagging) /\ UNCHANGED <<status, review, excused>>
      BY <1>1, ReviewAssumption DEF Unarchive, SetFlags
    <2> QED
      BY <2>1
  <1>2. ASSUME NEW c \in Calls, List(c) \/ Unlist(c) \/ Archive(c)
        PROVE  /\ call[c].at \in {"list", "unlist", "archive"}
               /\ Overtaking(c, Idle, Flagging)
               /\ UNCHANGED <<status, review, excused>>
    BY <1>2 DEF List, Unlist, Archive, SetFlags
  <1> QED
    BY <1>1, <1>2

(* The status fits the points, or a request that will move it is under     *)
(* way: an event in the queue with an open point is being sent back, and   *)
(* one that is public with an unresolved point is, or an answer is about   *)
(* to be counted.  What a request has counted holds until it is overtaken. *)
StatusInv ==
    /\ \A c \in Calls :
          ~call[c].late =>
              /\ call[c].at = "queue" => Respondable = {}
              /\ call[c].at = "approve" => Unresolved = {}
    /\ ~excused /\ status \in {"pending_review", "approved"} =>
          /\ With(Returned) # {} => Some(Moving)
          /\ ~aside /\ Respondable # {} => Some(Moving)
    /\ ~excused /\ ~aside /\ status = "approved" /\ Unresolved # {} =>
          Some(Moving \cup {"count", "queue"})

(* Every step keeps it. *)
LEMMA NextStatusInv == TypeOK /\ StatusInv /\ [Next]_vars => StatusInv'
  <1> SUFFICES ASSUME TypeOK, StatusInv, [Next]_vars PROVE StatusInv'
    OBVIOUS
  <1> USE OpenIsRespondable
  <1>0. \A c \in Calls : call[c] \in CallType
    BY DEF TypeOK, CallType
  <1>a. call = [c \in Calls |-> call[c]]
    BY DEF TypeOK
  <1>b. /\ UNCHANGED points =>
              UNCHANGED <<Respondable, Unresolved, With(Returned)>>
        /\ With(Returned) \subseteq Respondable
    BY DEF Respondable, Unresolved, Raised, With, Returned, Answered
  <1>1. ASSUME NEW c \in Calls, NEW p \in Points, ReadPoint(c, p)
        PROVE  StatusInv'
    BY <1>1, <1>b, <1>a DEF ReadPoint, event, review, StatusInv, Some, Moving
  <1>2. ASSUME NEW c \in Calls, WriteAnswer(c) PROVE StatusInv'
    <2>1. call[c].point \in Points
      BY <1>2 DEF WriteAnswer, TypeOK, At, Raised
    <2>2. /\ Respondable' \subseteq Respondable
          /\ With(Returned)' \subseteq With(Returned)
      BY <1>2, <2>1, WrittenPoints
         DEF WriteAnswer, validRevisionStatuses, Answered, Returned
    <2> QED
      BY <1>2, <2>2, <1>0, <1>a
         DEF WriteAnswer, Overtakes, Overtaking, event, StatusInv, Some, Moving, CallType
  <1>3. ASSUME NEW c \in Calls, CountOpen(c) PROVE StatusInv'
    BY <1>3, <1>b, <1>a, <1>0
       DEF CountOpen, Go, End, Idle, event, review, StatusInv, Some, Moving, CallType
  <1>4. ASSUME NEW c \in Calls,
               \/ CountUnresolved(c) \/ CountFails(c) \/ ReadStatus(c)
               \/ ReadForList(c) \/ ReadForUnlist(c) \/ ReadForArchive(c)
        PROVE  StatusInv'
    <2>1. CASE CountUnresolved(c)
      BY <2>1, <1>b, <1>a, <1>0
         DEF CountUnresolved, Go, End, Idle, event, review, StatusInv, Some, Moving, CallType
    <2>2. CASE CountFails(c)
      BY <2>2, <1>b, <1>a, <1>0
         DEF CountFails, event, review, StatusInv, Some, Moving, CallType
    <2>3. CASE \/ ReadStatus(c) \/ ReadForList(c) \/ ReadForUnlist(c)
               \/ ReadForArchive(c)
      BY <2>3, <1>b, <1>a, <1>0
         DEF ReadStatus, ReadForList, ReadForUnlist, ReadForArchive, Go, event,
             review, StatusInv, Some, Moving, CallType
    <2> QED
      BY <1>4, <2>1, <2>2, <2>3
  <1>5. ASSUME NEW c \in Calls,
               Queue(c) \/ Approve(c) \/ SendBack(c) \/ Reject(c)
        PROVE  StatusInv'
    BY <1>5, <1>b, <1>a, <1>0
       DEF Queue, Approve, SendBack, Reject, MoveTo, SetStatus, Overtaking, Flagging, Idle, StatusInv, Some,
           Moving, CallType
  <1>6. ASSUME NEW c \in Calls, NEW p \in Points, AddRevision(c, p)
        PROVE  StatusInv'
    BY <1>6, <1>0, <1>a
       DEF AddRevision, Overtakes, Overtaking, Overtaken, event, StatusInv, Some, Moving, CallType
  <1>7. ASSUME NEW c \in Calls, NEW p \in Points, NEW verdict \in Verdicts,
               WriteVerdict(c, p, verdict)
        PROVE  StatusInv'
    <2>1. CASE verdict = "Resolved"
      <3>1. /\ Respondable' \subseteq Respondable
            /\ Unresolved' \subseteq Unresolved
            /\ With(Returned)' \subseteq With(Returned)
        BY <1>7, <2>1, WrittenPoints
           DEF WriteVerdict, validRevisionStatuses, Answered, Returned
      <3> QED
        BY <1>7, <2>1, <3>1, <1>0, <1>a
           DEF WriteVerdict, After, Overtakes, Overtaking, Overtaken, event, StatusInv, Some, Moving,
               CallType
    <2>2. CASE verdict \in Returned
      <3>1. After(verdict) \in Moving
        BY <2>2 DEF After, Moving, Returned
      <3> QED
        BY <1>7, <3>1, <1>0, <1>a
           DEF WriteVerdict, Overtakes, Overtaking, Overtaken, event, StatusInv, Some, Moving, CallType
    <2> QED
      BY <1>7, <2>1, <2>2 DEF WriteVerdict, MovesTheEvent
  <1>8. ASSUME NEW c \in Calls, Submit(c) \/ CallStops(c) PROVE StatusInv'
    <2>1. CASE Submit(c)
      BY <2>1, <1>b, <1>a, <1>0 DEF Submit, SetStatus, Overtaking, Flagging, Idle, StatusInv, Some, CallType
    <2>2. CASE CallStops(c)
      BY <2>2, <1>b, <1>a, <1>0
         DEF CallStops, End, Idle, event, review, StatusInv, Some, Moving, CallType
    <2> QED
      BY <1>8, <2>1, <2>2
  <1>9. CASE Decide
    <2>1. Overtaking(None, Idle, Flagging) /\ excused' /\ UNCHANGED <<points, lastWrite>>
      BY <1>9 DEF Decide, Decision, SetStatus, Withdraw, ApproveEvent, RejectEvent,
                  RequestChanges, SettleEvent, SetEventStatus
    <2> QED
      BY <2>1, <1>a, <1>b, <1>0, ReviewAssumption
         DEF Overtaking, Flagging, Idle, StatusInv, Some, Moving, CallType
  <1>10. CASE Unarchive \/ \E c \in Calls : List(c) \/ Unlist(c) \/ Archive(c)
    <2>1. PICK c \in Calls \cup {None} :
             /\ c \in Calls => call[c].at \in {"list", "unlist", "archive"}
             /\ Overtaking(c, Idle, Flagging)
             /\ UNCHANGED <<status, review, excused>>
      BY <1>10, FlagSteps
    <2> QED
      BY <2>1, <1>a, <1>b, <1>0, ReviewAssumption
         DEF Overtaking, Flagging, Idle, review, StatusInv, Some, Moving, CallType
  <1>11. ASSUME NEW c \in Calls, NEW p \in Points, NEW verdict \in Verdicts,
                MarkPoint(c, p, verdict)
         PROVE  StatusInv'
    <2>1. With(Returned)' \subseteq With(Returned)
      BY <1>11, WrittenPoints, ReviewAssumption DEF MarkPoint, MovesTheEvent
    <2> QED
      BY <1>11, <2>1, <1>0, <1>a
         DEF MarkPoint, Overtaking, Overtaken, Idle, event, StatusInv, Some, Moving,
             CallType
  <1>12. CASE UNCHANGED vars
    BY <1>12, <1>b DEF vars, event, review, StatusInv, Some
  <1> QED
    BY <1>1, <1>2, <1>3, <1>4, <1>5, <1>6, <1>7, <1>8, <1>9, <1>10,
       <1>11, <1>12 DEF Next, Respond, Audit, Publicity

(* An event that waits for the auditor or is public has no point that was  *)
(* sent back or rejected; every point is answered or accepted, unless one  *)
(* was given a status that leaves the event alone.                         *)
THEOREM StatusFits == Spec => []StatusFitsThePoints
  <1>1. Init => StatusInv
    BY DEF Init, StatusInv, Idle
  <1>2. TypeOK /\ StatusInv => StatusFitsThePoints
    BY DEF TypeOK, StatusInv, StatusFitsThePoints, Some, UnderWay, At, Moving
  <1> QED
    BY <1>1, <1>2, TypeCorrect, NextStatusInv, PTL DEF Spec

----------------------------------------------------------------------------
(* What the last write of a point leaves behind: a point raised or given   *)
(* a status that is not an answer is open; after an answer, whoever is     *)
(* still about to send the event back or to reject it was overtaken, and   *)
(* an event to revise without an open point is about to be queued.         *)
AnswerInv ==
    /\ lastWrite \in validRevisionStatuses \ Answered => Respondable # {}
    /\ lastWrite = "answer" =>
          /\ \A c \in Calls : call[c].at \in Moving => call[c].late
          /\ status = "needs_revision" /\ ~excused /\ Respondable = {} =>
                Some({"count", "queue"})
    /\ lastWrite = "none" =>
          /\ ~Some(Moving)
          /\ status = "needs_revision" => excused

(* Every step keeps it. *)
LEMMA NextAnswerInv == TypeOK /\ AnswerInv /\ [Next]_vars => AnswerInv'
  <1> SUFFICES ASSUME TypeOK, AnswerInv, [Next]_vars PROVE AnswerInv'
    OBVIOUS
  <1> USE OpenIsRespondable
  <1>a. /\ \A c \in Calls : call[c] \in CallType
        /\ call = [c \in Calls |-> call[c]]
    BY DEF TypeOK, CallType
  <1>b. UNCHANGED points => UNCHANGED Respondable
    BY DEF Respondable, Raised, With
  <1>1. ASSUME NEW c \in Calls, NEW p \in Points, ReadPoint(c, p)
        PROVE  AnswerInv'
    BY <1>1, <1>a, <1>b DEF ReadPoint, event, review, AnswerInv, Some, Moving
  <1>2. ASSUME NEW c \in Calls, WriteAnswer(c) PROVE AnswerInv'
    BY <1>2, <1>a
       DEF WriteAnswer, Overtakes, Overtaking, event, AnswerInv, Some, Moving, CallType,
           validRevisionStatuses
  <1>3. ASSUME NEW c \in Calls, CountOpen(c) PROVE AnswerInv'
    BY <1>3, <1>a, <1>b
       DEF CountOpen, Go, End, Idle, event, review, AnswerInv, Some, Moving, CallType
  <1>4. ASSUME NEW c \in Calls,
               \/ CountUnresolved(c) \/ CountFails(c) \/ ReadStatus(c)
               \/ ReadForList(c) \/ ReadForUnlist(c) \/ ReadForArchive(c)
        PROVE  AnswerInv'
    <2>1. CASE CountUnresolved(c)
      BY <2>1, <1>a, <1>b
         DEF CountUnresolved, Go, End, Idle, event, review, AnswerInv, Some, Moving, CallType
    <2>2. CASE CountFails(c)
      BY <2>2, <1>a, <1>b DEF CountFails, event, review, AnswerInv, Some, Moving, CallType
    <2>3. CASE \/ ReadStatus(c) \/ ReadForList(c) \/ ReadForUnlist(c)
               \/ ReadForArchive(c)
      BY <2>3, <1>b, <1>a
         DEF ReadStatus, ReadForList, ReadForUnlist, ReadForArchive, Go, event,
             review, AnswerInv, Some, Moving, CallType
    <2> QED
      BY <1>4, <2>1, <2>2, <2>3
  <1>5. ASSUME NEW c \in Calls, Queue(c) \/ Approve(c) PROVE AnswerInv'
    BY <1>5, <1>a, <1>b
       DEF Queue, Approve, MoveTo, SetStatus, Overtaking, Flagging, Idle, AnswerInv, Some, Moving, CallType
  <1>6. ASSUME NEW c \in Calls, SendBack(c) \/ Reject(c) PROVE AnswerInv'
    BY <1>6, <1>a, <1>b
       DEF SendBack, Reject, MoveTo, SetStatus, Overtaking, Flagging, Idle, AnswerInv, Some, Moving, CallType
  <1>7. ASSUME NEW c \in Calls, NEW p \in Points, AddRevision(c, p)
        PROVE  AnswerInv'
    <2>1. Respondable' # {}
      BY <1>7, WrittenPoints DEF AddRevision, validRevisionStatuses, Answered
    <2> QED
      BY <1>7, <2>1 DEF AddRevision, event, AnswerInv
  <1>8. ASSUME NEW c \in Calls, NEW p \in Points, NEW verdict \in Verdicts,
               WriteVerdict(c, p, verdict) \/ MarkPoint(c, p, verdict)
        PROVE  AnswerInv'
    <2>1. verdict \in validRevisionStatuses \ Answered => Respondable' # {}
      BY <1>8, WrittenPoints DEF WriteVerdict, MarkPoint
    <2>2. lastWrite' = verdict /\ verdict \notin {"answer", "none"}
      BY <1>8, ReviewAssumption DEF WriteVerdict, MarkPoint, validRevisionStatuses
    <2> QED
      BY <2>1, <2>2 DEF AnswerInv
  <1>9. ASSUME NEW c \in Calls, Submit(c) \/ CallStops(c) PROVE AnswerInv'
    <2>1. CASE Submit(c)
      BY <2>1, <1>a, <1>b DEF Submit, SetStatus, Overtaking, Flagging, Idle, AnswerInv, Some, Moving, CallType
    <2>2. CASE CallStops(c)
      BY <2>2, <1>a, <1>b
         DEF CallStops, End, Idle, event, review, AnswerInv, Some, Moving, CallType
    <2> QED
      BY <1>9, <2>1, <2>2
  <1>10. CASE Decide
    <2>1. Overtaking(None, Idle, Flagging) /\ excused' /\ UNCHANGED <<points, lastWrite>>
      BY <1>10 DEF Decide, Decision, SetStatus, Withdraw, ApproveEvent, RejectEvent,
                  RequestChanges, SettleEvent, SetEventStatus
    <2> QED
      BY <2>1, <1>a, <1>b, ReviewAssumption
         DEF Overtaking, Flagging, Idle, AnswerInv, Some, Moving, CallType
  <1>11. CASE Unarchive \/ \E c \in Calls : List(c) \/ Unlist(c) \/ Archive(c)
    <2>1. PICK c \in Calls \cup {None} :
             /\ c \in Calls => call[c].at \in {"list", "unlist", "archive"}
             /\ Overtaking(c, Idle, Flagging)
             /\ UNCHANGED <<status, review, excused>>
      BY <1>11, FlagSteps
    <2> QED
      BY <2>1, <1>a, <1>b, ReviewAssumption
         DEF Overtaking, Flagging, Idle, review, AnswerInv, Some, Moving, CallType
  <1>12. CASE UNCHANGED vars
    BY <1>12, <1>b DEF vars, event, review, AnswerInv, Some
  <1> QED
    BY <1>1, <1>2, <1>3, <1>4, <1>5, <1>6, <1>7, <1>8, <1>9, <1>10, <1>11,
       <1>12 DEF Next, Respond, Audit, Publicity

(* An event to revise has a point the organizer can respond to, unless the *)
(* auditor's verdict took the last one away.                               *)
THEOREM Answerable == Spec => []RevisionIsAnswerable
  <1>1. Init => AnswerInv
    BY DEF Init, AnswerInv, Idle, Some, Moving, validRevisionStatuses
  <1>2. TypeOK /\ AnswerInv => RevisionIsAnswerable
    BY DEF TypeOK, AnswerInv, RevisionIsAnswerable, Some, UnderWay, At
  <1> QED
    BY <1>1, <1>2, TypeCorrect, NextAnswerInv, PTL DEF Spec

----------------------------------------------------------------------------
(* After an acceptance, whoever else is still about to move the event was  *)
(* overtaken, and an event whose points are all accepted is approved or    *)
(* about to be.                                                            *)
AcceptInv ==
    lastWrite = "Resolved" =>
        /\ \A c \in Calls :
              call[c].at \in Moving \cup {"count", "queue"} => call[c].late
        /\ Unresolved = {} /\ ~excused /\ status # "approved" =>
              Some({"accept", "approve"})

(* Every step keeps it. *)
LEMMA NextAcceptInv == TypeOK /\ AcceptInv /\ [Next]_vars => AcceptInv'
  <1> SUFFICES ASSUME TypeOK, AcceptInv, [Next]_vars PROVE AcceptInv'
    OBVIOUS
  <1>a. /\ \A c \in Calls : call[c] \in CallType
        /\ call = [c \in Calls |-> call[c]]
    BY DEF TypeOK, CallType
  <1>b. UNCHANGED points => UNCHANGED Unresolved
    BY DEF Unresolved, Raised, With
  <1>1. ASSUME NEW c \in Calls, NEW p \in Points, ReadPoint(c, p)
        PROVE  AcceptInv'
    BY <1>1, <1>a, <1>b DEF ReadPoint, event, review, AcceptInv, Some, Moving
  <1>2. ASSUME NEW c \in Calls, WriteAnswer(c) PROVE AcceptInv'
    BY <1>2 DEF WriteAnswer, event, AcceptInv
  <1>3. ASSUME NEW c \in Calls, CountOpen(c) PROVE AcceptInv'
    BY <1>3, <1>a, <1>b
       DEF CountOpen, Go, End, Idle, event, review, AcceptInv, Some, Moving, CallType
  <1>4. ASSUME NEW c \in Calls,
               \/ CountUnresolved(c) \/ CountFails(c) \/ ReadStatus(c)
               \/ ReadForList(c) \/ ReadForUnlist(c) \/ ReadForArchive(c)
        PROVE  AcceptInv'
    <2>1. CASE CountUnresolved(c)
      BY <2>1, <1>a, <1>b
         DEF CountUnresolved, Go, End, Idle, event, review, AcceptInv, Some, Moving, CallType
    <2>2. CASE CountFails(c)
      BY <2>2, <1>a, <1>b DEF CountFails, event, review, AcceptInv, Some, Moving, CallType
    <2>3. CASE \/ ReadStatus(c) \/ ReadForList(c) \/ ReadForUnlist(c)
               \/ ReadForArchive(c)
      BY <2>3, <1>b, <1>a
         DEF ReadStatus, ReadForList, ReadForUnlist, ReadForArchive, Go, event,
             review, AcceptInv, Some, Moving, CallType
    <2> QED
      BY <1>4, <2>1, <2>2, <2>3
  <1>5. ASSUME NEW c \in Calls, Queue(c) \/ Approve(c) PROVE AcceptInv'
    BY <1>5, <1>a, <1>b
       DEF Queue, Approve, MoveTo, SetStatus, Overtaking, Flagging, Idle, AcceptInv, Some, Moving, CallType
  <1>6. ASSUME NEW c \in Calls, SendBack(c) \/ Reject(c) PROVE AcceptInv'
    BY <1>6, <1>a, <1>b
       DEF SendBack, Reject, MoveTo, SetStatus, Overtaking, Flagging, Idle, AcceptInv, Some, Moving, CallType
  <1>7. ASSUME NEW c \in Calls, NEW p \in Points, AddRevision(c, p)
        PROVE  AcceptInv'
    BY <1>7 DEF AddRevision, event, AcceptInv
  <1>8. ASSUME NEW c \in Calls, NEW p \in Points, NEW verdict \in Verdicts,
               WriteVerdict(c, p, verdict) \/ MarkPoint(c, p, verdict)
        PROVE  AcceptInv'
    <2>1. CASE verdict = "Resolved"
      BY <1>8, <2>1, <1>a
         DEF WriteVerdict, MarkPoint, MovesTheEvent, After, Overtakes, Overtaking,
             Overtaken, event, AcceptInv, Some, Moving, CallType
    <2>2. CASE verdict # "Resolved"
      BY <1>8, <2>2 DEF WriteVerdict, MarkPoint, AcceptInv
    <2> QED
      BY <2>1, <2>2
  <1>9. ASSUME NEW c \in Calls, Submit(c) \/ CallStops(c) PROVE AcceptInv'
    <2>1. CASE Submit(c)
      BY <2>1, <1>a, <1>b DEF Submit, SetStatus, Overtaking, Flagging, Idle, AcceptInv, Some, Moving, CallType
    <2>2. CASE CallStops(c)
      BY <2>2, <1>a, <1>b
         DEF CallStops, End, Idle, event, review, AcceptInv, Some, Moving, CallType
    <2> QED
      BY <1>9, <2>1, <2>2
  <1>10. CASE Decide
    <2>1. Overtaking(None, Idle, Flagging) /\ excused' /\ UNCHANGED <<points, lastWrite>>
      BY <1>10 DEF Decide, Decision, SetStatus, Withdraw, ApproveEvent, RejectEvent,
                  RequestChanges, SettleEvent, SetEventStatus
    <2> QED
      BY <2>1, <1>a, <1>b, ReviewAssumption
         DEF Overtaking, Flagging, Idle, AcceptInv, Some, Moving, CallType
  <1>11. CASE Unarchive \/ \E c \in Calls : List(c) \/ Unlist(c) \/ Archive(c)
    <2>1. PICK c \in Calls \cup {None} :
             /\ c \in Calls => call[c].at \in {"list", "unlist", "archive"}
             /\ Overtaking(c, Idle, Flagging)
             /\ UNCHANGED <<status, review, excused>>
      BY <1>11, FlagSteps
    <2> QED
      BY <2>1, <1>a, <1>b, ReviewAssumption
         DEF Overtaking, Flagging, Idle, review, AcceptInv, Some, Moving, CallType
  <1>12. CASE UNCHANGED vars
    BY <1>12, <1>b DEF vars, event, review, AcceptInv, Some
  <1> QED
    BY <1>1, <1>2, <1>3, <1>4, <1>5, <1>6, <1>7, <1>8, <1>9, <1>10, <1>11,
       <1>12 DEF Next, Respond, Audit, Publicity

(* Once an acceptance leaves no point unresolved, the event is approved.   *)
THEOREM AcceptedApproved == Spec => []AcceptedIsApproved
  <1>1. Init => AcceptInv
    BY DEF Init, AcceptInv
  <1>2. TypeOK /\ AcceptInv => AcceptedIsApproved
    BY DEF TypeOK, AcceptInv, AcceptedIsApproved, Some, UnderWay, At
  <1> QED
    BY <1>1, <1>2, TypeCorrect, NextAcceptInv, PTL DEF Spec

----------------------------------------------------------------------------
(* What an unlocked read of SetEventListed or SetEventArchived has seen    *)
(* still holds, unless a later write has overtaken it.                     *)
FlagInv ==
    /\ FlagsFitTheStatus
    /\ \A c \in Calls :
          ~call[c].late =>
              /\ call[c].at = "list" => status = "approved" /\ ~archived
              /\ call[c].at = "archive" => status \in {"rejected", "draft"}

(* A step that leaves the event alone may bring a request to its flag only *)
(* when the status allows it.                                              *)
LEMMA OtherSteps ==
    ASSUME FlagInv, UNCHANGED event,
           \A d \in Calls :
              call'[d].at \in Flagging /\ ~call'[d].late =>
                 \/ call[d].at = call'[d].at /\ ~call[d].late
                 \/ call'[d].at = "list" /\ status = "approved" /\ ~archived
                 \/ call'[d].at = "archive" /\ status \in {"rejected", "draft"}
    PROVE  FlagInv'
  BY DEF FlagInv, FlagsFitTheStatus, event, Flagging

(* A request that overtakes those about to write a flag leaves none that   *)
(* has not been overtaken.                                                 *)
LEMMA AllOvertaken ==
    ASSUME TypeOK, NEW c \in Calls \cup {None}, Overtaking(c, Idle, Flagging),
           NEW d \in Calls, call'[d].at \in Flagging
    PROVE  call'[d].late
  BY DEF TypeOK, CallType, Overtaking, Idle, Flagging

(* Every step keeps it. *)
LEMMA NextFlagInv == TypeOK /\ FlagInv /\ [Next]_vars => FlagInv'
  <1> SUFFICES ASSUME TypeOK, FlagInv, [Next]_vars PROVE FlagInv'
    OBVIOUS
  <1>a. /\ \A c \in Calls : call[c] \in CallType
        /\ call = [c \in Calls |-> call[c]]
    BY DEF TypeOK, CallType
  <1>1. ASSUME NEW c \in Calls,
               \/ \E p \in Points : ReadPoint(c, p)
               \/ CountOpen(c) \/ CountUnresolved(c) \/ CountFails(c)
               \/ ReadStatus(c) \/ CallStops(c)
               \/ ReadForList(c) \/ ReadForUnlist(c) \/ ReadForArchive(c)
        PROVE  FlagInv'
    <2>1. UNCHANGED event
      BY <1>1 DEF ReadPoint, CountOpen, CountUnresolved, CountFails, ReadStatus,
                  CallStops, ReadForList, ReadForUnlist, ReadForArchive
    <2>2. \A d \in Calls \ {c} : call'[d] = call[d]
      BY <1>1, <1>a DEF ReadPoint, CountOpen, CountUnresolved, CountFails, Go, End,
                  ReadStatus, CallStops, ReadForList, ReadForUnlist, ReadForArchive
    <2>3. CASE ReadForList(c) \/ ReadForArchive(c)
      <3>1. \/ call'[c].at = "list" /\ status = "approved" /\ ~archived
            \/ call'[c].at = "archive" /\ status \in {"rejected", "draft"}
        BY <2>3, <1>a DEF ReadForList, ReadForArchive, Go, CallType
      <3> QED
        BY <2>1, <2>2, <3>1, OtherSteps
    <2>4. CASE ~(ReadForList(c) \/ ReadForArchive(c))
      <3>1. call'[c].at \notin Flagging
        BY <1>1, <2>4, <1>a
           DEF ReadPoint, CountOpen, CountUnresolved, CountFails, ReadStatus,
               CallStops, ReadForUnlist, Go, End, Idle, Flagging, CallType
      <3> QED
        BY <2>1, <2>2, <3>1, OtherSteps
    <2> QED
      BY <2>3, <2>4
  <1>2. ASSUME NEW c \in Calls, NEW r, NEW steps,
               Overtaking(c, r, steps), r.at \notin Flagging,
               UNCHANGED event
        PROVE  FlagInv'
    <2>1. call'[c].at \notin Flagging
      BY <1>2, <1>a DEF Overtaking
    <2>2. \A d \in Calls \ {c} :
             call'[d].at = call[d].at /\ (call[d].late => call'[d].late)
      BY <1>2, <1>a DEF Overtaking, CallType
    <2> QED
      BY <1>2, <2>1, <2>2, OtherSteps
  <1>3. ASSUME NEW c \in Calls,
               \/ WriteAnswer(c)
               \/ \E p \in Points : AddRevision(c, p)
               \/ \E p \in Points, verdict \in Verdicts :
                     WriteVerdict(c, p, verdict) \/ MarkPoint(c, p, verdict)
        PROVE  FlagInv'
    <2>1. \A verdict \in MovesTheEvent : After(verdict) \notin Flagging
      BY DEF MovesTheEvent, Returned, After, Flagging
    <2>2. CASE WriteAnswer(c) \/ \E p \in Points : AddRevision(c, p)
      BY <1>2, <2>2 DEF WriteAnswer, AddRevision, Overtakes, Flagging
    <2>3. ASSUME NEW p \in Points, NEW verdict \in Verdicts,
                 WriteVerdict(c, p, verdict)
          PROVE  FlagInv'
      BY <1>2, <2>1, <2>3 DEF WriteVerdict, Overtakes
    <2>4. ASSUME NEW p \in Points, NEW verdict \in Verdicts, MarkPoint(c, p, verdict)
          PROVE  FlagInv'
      BY <1>2, <2>4 DEF MarkPoint, Idle, Flagging
    <2> QED
      BY <1>3, <2>2, <2>3, <2>4
  <1>4. ASSUME NEW c \in Calls \cup {None}, NEW to, SetStatus(c, to)
        PROVE  FlagInv'
    BY <1>4, AllOvertaken
       DEF SetStatus, FlagInv, FlagsFitTheStatus, Flagging
  <1>5. CASE \/ Decide
             \/ \E c \in Calls : \/ Queue(c) \/ Approve(c) \/ SendBack(c)
                                 \/ Reject(c) \/ Submit(c)
    BY <1>4, <1>5
       DEF Decide, Decision, Withdraw, ApproveEvent, RejectEvent, RequestChanges,
           SettleEvent, SetEventStatus, Queue, Approve, SendBack, Reject, MoveTo,
           Submit
  <1>6. ASSUME NEW c \in Calls, List(c) \/ Unlist(c) \/ Archive(c)
        PROVE  FlagInv'
    <2>1. Overtaking(c, Idle, Flagging) /\ UNCHANGED status
      BY <1>6 DEF List, Unlist, Archive, SetFlags
    <2>2. FlagsFitTheStatus'
      BY <1>6 DEF List, Unlist, Archive, SetFlags, FlagInv, FlagsFitTheStatus
    <2> QED
      BY <2>1, <2>2, AllOvertaken DEF FlagInv, Flagging
  <1>7. CASE Unarchive
    <2>1. Overtaking(None, Idle, Flagging) /\ UNCHANGED status
      BY <1>7 DEF Unarchive, SetFlags
    <2>2. FlagsFitTheStatus'
      BY <1>7 DEF Unarchive, SetFlags, FlagInv, FlagsFitTheStatus
    <2> QED
      BY <2>1, <2>2, AllOvertaken DEF FlagInv, Flagging
  <1>8. CASE UNCHANGED vars
    BY <1>8 DEF vars, event, FlagInv, FlagsFitTheStatus
  <1> QED
    BY <1>1, <1>3, <1>5, <1>6, <1>7, <1>8 DEF Next, Respond, Audit, Publicity

(* An event is on sale only approved and out of the archive, and in the    *)
(* archive only rejected or in draft, but for what `carried` records.      *)
THEOREM FlagsFit == Spec => []FlagsFitTheStatus
  <1>1. Init => FlagInv
    BY DEF Init, FlagInv, FlagsFitTheStatus, Idle
  <1>2. FlagInv => FlagsFitTheStatus
    BY DEF FlagInv
  <1> QED
    BY <1>1, <1>2, TypeCorrect, NextFlagInv, PTL DEF Spec
=============================================================================
