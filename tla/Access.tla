------------------------------- MODULE Access -------------------------------
(***************************************************************************)
(* Who may organize and who audits an event: the roles a Super Admin       *)
(* grants and revokes (admin/repository.go), and the delegations by which  *)
(* an owner lets co-organizers manage events (delegation/service.go,       *)
(* delegation/repository.go).                                              *)
(*                                                                         *)
(* Grants and delegations check in statements of their own what the last   *)
(* statement then writes, without a transaction around them: a check is a  *)
(* step and the write is another.  A request may be refused at any time    *)
(* for what is not modelled here (an account that is not verified, a       *)
(* delegate that is no organizer, a failed statement).                     *)
(*                                                                         *)
(* The names Init, Next, Spec and the like carry a prefix here: one module *)
(* of theorems, AccountProofs, extends both this module and Session.       *)
(***************************************************************************)
EXTENDS Naturals, FiniteSets

CONSTANTS
    Users,
    Events,
    Owners,      \* the users that create events
    Founders,    \* Super Admins from the start
    Applicants,  \* users with a row in organizer_applications
    Calls,       \* requests that are handled at the same time
    MaxWrites,   \* bound on the writes of a run
    NoUser,      \* no user
    Unborn,      \* an event that is yet to be created
    Gone         \* one that has been deleted

ASSUME AccessAssumption ==
    /\ Owners \cup Founders \cup Applicants \subseteq Users
    /\ {NoUser, Unborn, Gone} \cap Users = {}
    /\ Unborn # Gone
    /\ IsFiniteSet(Users)
    /\ MaxWrites \in Nat

VARIABLES
    admins,     \* user_roles: Super Admin, platform-wide
    eventAdmins, \* user_roles: Super Admin of an event, which gives no right
    auditors,   \* user_roles: Auditor of an event
    managers,   \* user_roles: Event Organizer of an event
    owner,      \* events.organizer_id
    delegation, \* organizer_delegations with their events, one per pair
    call,       \* per request: operation, what it is about, its next step,
                \* and whether another write came after its check
    writes,     \* number of writes so far
    excused,    \* conflicts made by an overtaken write, or by an approval,
                \* which checks nothing (history)
    unguarded,  \* admins were taken away by an overtaken revocation, or by
                \* the approval of an application (history)
    padded      \* the last admin was taken away while a Super Admin of an
                \* event made up the count (history)

roles == <<auditors, managers>>
seniors == <<admins, eventAdmins, unguarded, padded>>
accessVars == <<seniors, roles, owner, delegation, call, writes, excused>>

Pairs == {p \in Owners \X Users : p[1] # p[2]}

Live == {e \in Events : owner[e] \in Users}
Owned(u) == {e \in Events : owner[e] = u}

Everything == [all |-> TRUE, events |-> {}]
Only(S) == [all |-> FALSE, events |-> S]
NoRow == [status |-> "none", scope |-> Only({})]

(* The events a delegation of this scope reaches; all means also later     *)
(* ones.                                                                   *)
Reach(o, scope) == IF scope.all THEN Owned(o) ELSE scope.events

(* eventAccessQuery, RequireEventRole: what a user may manage.             *)
Active(u) == {p \in Pairs : p[2] = u /\ delegation[p].status = "active"}

Delegated(u) == UNION {Reach(p[1], delegation[p].scope) : p \in Active(u)}

Manages(u) ==
    Owned(u) \cup Delegated(u) \cup {e \in Events : <<u, e>> \in managers}

Audits(u) == {e \in Events : <<u, e>> \in auditors}

(* Separation of duties is broken for a user and an event.                 *)
Conflicts == {r \in auditors : r[2] \in Manages(r[1])}

----------------------------------------------------------------------------
Idle == [op |-> "idle", user |-> NoUser, owner |-> NoUser,
         scope |-> Only({}), step |-> "idle", late |-> FALSE]

Begin(c, r) ==
    /\ call[c] = Idle
    /\ call' = [call EXCEPT ![c] = r]
    /\ UNCHANGED <<seniors, roles, owner, delegation, writes, excused>>

End(c) == call' = [call EXCEPT ![c] = Idle]

Request(op, u, o, s, step) ==
    [op |-> op, user |-> u, owner |-> o, scope |-> s, step |-> step,
     late |-> FALSE]

Pair(c) == <<call[c].owner, call[c].user>>

Written ==
    /\ writes < MaxWrites
    /\ writes' = writes + 1

(* The request c is answered; its write overtakes the others at work for   *)
(* which `about` holds.                                                    *)
Answer(c, about(_)) ==
    call' = [d \in Calls |->
               IF d = c THEN Idle
               ELSE IF call[d] # Idle /\ about(call[d])
                    THEN [call[d] EXCEPT !.late = TRUE]
                    ELSE call[d]]

(* Conflicts that this step makes are excused if it has a cause.           *)
Settle(cause) ==
    excused' = (excused \cap Conflicts')
                 \cup (IF cause THEN Conflicts' \ Conflicts ELSE {})

(* The last step of a request that changes the rights of its user.         *)
Rights(c, cause) ==
    /\ Written
    /\ LET Same(r) == r.user = call[c].user
       IN  Answer(c, Same)
    /\ UNCHANGED <<seniors, owner>>
    /\ Settle(cause)

----------------------------------------------------------------------------
(* Roles of one event: GrantUserRole and RevokeUserRole.                   *)

\* Mistake: only delegations of the whole portfolio are looked up.
OrganizesByPortfolio(u) ==
    Owned(u) \cup {e \in Events : <<u, e>> \in managers}
      \cup {e \in Events : \E p \in Active(u) :
               delegation[p].scope.all /\ e \in Owned(p[1])}

(* checkAuditorOrganizerConflict, "Auditor".                               *)
Organizes(u) == Manages(u)

CheckAuditor(c, u, e) ==
    /\ e \in Live \ Audits(u)
    /\ e \notin Organizes(u)
    /\ Begin(c, Request("auditor", u, NoUser, Only({e}), "write"))

CheckManager(c, u, e) ==
    /\ e \in Live /\ <<u, e>> \notin managers
    /\ e \notin Audits(u)
    /\ Begin(c, Request("manager", u, NoUser, Only({e}), "write"))

(* The INSERT fails if the event is gone or the row is there already.      *)
InsertRole(c) ==
    /\ call[c].step = "write"
    /\ LET new == {<<call[c].user, e>> : e \in call[c].scope.events \cap Live}
       IN  \/ /\ call[c].op = "auditor"
              /\ new # {} /\ new \cap auditors = {}
              /\ auditors' = auditors \cup new
              /\ UNCHANGED managers
           \/ /\ call[c].op = "manager"
              /\ new # {} /\ new \cap managers = {}
              /\ managers' = managers \cup new
              /\ UNCHANGED auditors
    /\ UNCHANGED delegation
    /\ Rights(c, call[c].late)

RevokeRole(u, e) ==
    /\ \/ /\ <<u, e>> \in auditors
          /\ auditors' = auditors \ {<<u, e>>}
          /\ UNCHANGED managers
       \/ /\ <<u, e>> \in managers
          /\ managers' = managers \ {<<u, e>>}
          /\ UNCHANGED auditors
    /\ Written
    /\ UNCHANGED <<seniors, owner, delegation, call>>
    /\ Settle(FALSE)

----------------------------------------------------------------------------
(* The role of Super Admin.  Tokens carry the platform-wide roles only.    *)

GrantAdmin(u) ==
    /\ u \notin admins
    /\ admins' = admins \cup {u}
    /\ Written
    /\ UNCHANGED <<eventAdmins, roles, owner, delegation, call, excused,
                   unguarded, padded>>

(* Nothing refuses a Super Admin of one event.                             *)
GrantEventAdmin(u, e) ==
    /\ e \in Live /\ <<u, e>> \notin eventAdmins
    /\ eventAdmins' = eventAdmins \cup {<<u, e>>}
    /\ Written
    /\ UNCHANGED <<admins, roles, owner, delegation, call, excused,
                   unguarded, padded>>

\* Mistake: the last row may go as well.
EnoughWithoutCount == TRUE

(* All rows of the role count, those of an event too.                      *)
EnoughAdmins == Cardinality(admins) + Cardinality(eventAdmins) > 1

(* The request is about the platform-wide row, or that of an event.  The   *)
(* role is read from the token of the one who sends it, which may outlive  *)
(* it: all that is asked of them is not to revoke their own.               *)
CountAdmins(c, by, u, S) ==
    /\ by # u /\ S \subseteq Live
    /\ EnoughAdmins
    /\ Begin(c, Request("admin", u, NoUser, Only(S), "write"))

TakeAdmin(u, cause) ==
    /\ u \in admins
    /\ admins' = admins \ {u}
    /\ unguarded' = (unguarded \/ cause)
    /\ padded' = (padded \/ (admins = {u} /\ eventAdmins # {}))
    /\ Written
    /\ UNCHANGED <<eventAdmins, roles, owner, delegation, excused>>

TakeEventAdmin(u, e) ==
    /\ <<u, e>> \in eventAdmins
    /\ eventAdmins' = eventAdmins \ {<<u, e>>}
    /\ Written
    /\ UNCHANGED <<admins, roles, owner, delegation, excused, unguarded, padded>>

RevokesAdmin(r) == r.op = "admin"

DeleteAdmin(c) ==
    /\ RevokesAdmin(call[c])
    /\ \/ /\ call[c].scope.events = {}
          /\ TakeAdmin(call[c].user, call[c].late)
       \/ \E e \in call[c].scope.events : TakeEventAdmin(call[c].user, e)
    /\ Answer(c, RevokesAdmin)

(* Revocations at work are overtaken.                                      *)
Overtaken ==
    [c \in Calls |-> [call[c] EXCEPT !.late = @ \/ RevokesAdmin(call[c])]]

(* ApproveOrganizer deletes all platform-wide roles of the applicant.      *)
ApproveApplication(u) ==
    /\ TakeAdmin(u, TRUE)
    /\ call' = Overtaken

----------------------------------------------------------------------------
(* Delegations.                                                            *)

Scopes(o) == {Everything} \cup {Only(S) : S \in SUBSET Owned(o) \ {{}}}

(* validateScope and checkSoD.                                             *)
Checked(o, u, s) ==
    /\ s \in Scopes(o)
    /\ Reach(o, s) \cap Audits(u) = {}

(* Invite, by the owner, and RequestAccess, by the delegate.               *)
CheckNew(c, op, p, s) ==
    /\ Checked(p[1], p[2], s)
    /\ Begin(c, Request(op, p[2], p[1], s, "look"))

(* EditScope reads the row by its id, whatever its status.                 *)
CheckScope(c, p, s) ==
    /\ delegation[p].status # "none"
    /\ Checked(p[1], p[2], s)
    /\ Begin(c, Request("edit", p[2], p[1], s, "write"))

(* GetByOwnerAndDelegate: no second row for a pair, and none replaced that *)
(* is in use.                                                              *)
LookForRow(c) ==
    /\ call[c].step = "look"
    /\ delegation[Pair(c)].status \notin {"active", "pending"}
    /\ call' = [call EXCEPT ![c].step = "write"]
    /\ UNCHANGED <<seniors, roles, owner, delegation, writes, excused>>

(* Upsert and UpdateScope: one transaction, which fails if an event of the *)
(* scope is gone.                                                          *)
WriteRow(c) ==
    /\ call[c].step = "write" /\ call[c].op \in {"invite", "access", "edit"}
    /\ call[c].scope.events \subseteq Live
    /\ delegation' = [delegation EXCEPT ![Pair(c)] =
                        [status |-> CASE call[c].op = "invite" -> "active"
                                      [] call[c].op = "access" -> "pending"
                                      [] OTHER -> @.status,
                         scope |-> call[c].scope]]
    /\ UNCHANGED roles
    /\ Rights(c, call[c].late)

(* Approve, Decline, Revoke and AdminRevoke read the row and then write    *)
(* its status by its id.                                                   *)
Decide(c, p, op) ==
    /\ \/ op \in {"approve", "decline"} /\ delegation[p].status = "pending"
       \/ op = "revoke" /\ delegation[p].status \in {"active", "pending"}
    /\ Begin(c, Request(op, p[2], p[1], Only({}), "write"))

WriteStatus(c) ==
    /\ call[c].op \in {"approve", "decline", "revoke"}
    /\ delegation' = [delegation EXCEPT ![Pair(c)].status =
                        CASE call[c].op = "approve" -> "active"
                          [] call[c].op = "decline" -> "declined"
                          [] call[c].op = "revoke" -> "revoked"]
    /\ UNCHANGED roles
    /\ Rights(c, call[c].op = "approve")

----------------------------------------------------------------------------
(* Events come with the owner's own role, and drafts may be deleted; the   *)
(* rows that name them go with them.                                       *)
CreateEvent(u, e) ==
    /\ owner[e] = Unborn
    /\ owner' = [owner EXCEPT ![e] = u]
    /\ managers' = managers \cup {<<u, e>>}
    /\ Written
    /\ UNCHANGED <<seniors, auditors, delegation, call, excused>>


\* Mistake: the rows of user_roles stay.
LeftBehind(R, e) == R

Without(R, e) == {r \in R : r[2] # e}

DeleteEvent(e) ==
    /\ e \in Live
    /\ owner' = [owner EXCEPT ![e] = Gone]
    /\ auditors' = Without(auditors, e)
    /\ managers' = Without(managers, e)
    /\ delegation' = [p \in Pairs |->
                        [delegation[p] EXCEPT !.scope.events = @ \ {e}]]
    /\ eventAdmins' = Without(eventAdmins, e)
    /\ call' = IF eventAdmins' = eventAdmins THEN call ELSE Overtaken
    /\ Settle(FALSE)
    /\ Written
    /\ UNCHANGED <<admins, unguarded, padded>>

(* A request is refused for another reason, or fails.                      *)
CallStops(c) ==
    /\ call[c] # Idle
    /\ End(c)
    /\ UNCHANGED <<seniors, roles, owner, delegation, writes, excused>>

AccessInit ==
    /\ admins = Founders /\ eventAdmins = {}
    /\ auditors = {} /\ managers = {}
    /\ owner = [e \in Events |-> Unborn]
    /\ delegation = [p \in Pairs |-> NoRow]
    /\ call = [c \in Calls |-> Idle]
    /\ writes = 0
    /\ excused = {}
    /\ unguarded = FALSE /\ padded = FALSE

AccessNext ==
    \/ \E c \in Calls :
          \/ \E u \in Users, e \in Events : CheckAuditor(c, u, e)
          \/ \E u \in Users, e \in Events : CheckManager(c, u, e)
          \/ InsertRole(c)
          \/ \E by, u \in Users :
                \E S \in {{}} \cup {{e} : e \in Events} : CountAdmins(c, by, u, S)
          \/ DeleteAdmin(c)
          \/ \E p \in Pairs :
                \/ \E op \in {"invite", "access"}, s \in Scopes(p[1]) :
                      CheckNew(c, op, p, s)
                \/ \E s \in Scopes(p[1]) : CheckScope(c, p, s)
                \/ \E op \in {"approve", "decline", "revoke"} : Decide(c, p, op)
          \/ LookForRow(c)
          \/ WriteRow(c)
          \/ WriteStatus(c)
          \/ CallStops(c)
    \/ \E u \in Users, e \in Events : RevokeRole(u, e)
    \/ \E u \in Users : GrantAdmin(u)
    \/ \E u \in Users, e \in Events : GrantEventAdmin(u, e)
    \/ \E u \in Applicants : ApproveApplication(u)
    \/ \E u \in Owners, e \in Events : CreateEvent(u, e)
    \/ \E e \in Events : DeleteEvent(e)

AccessSpec == AccessInit /\ [][AccessNext]_accessVars

----------------------------------------------------------------------------
Scoped == [all : BOOLEAN, events : SUBSET Events]

Ops == {"idle", "auditor", "manager", "admin", "invite", "access", "edit",
        "approve", "decline", "revoke"}

(* Every variable is in its domain; a role or a scope names only events    *)
(* that exist, and one that reaches everything lists none.                 *)
AccessTypeOK ==
    /\ admins \subseteq Users
    /\ eventAdmins \subseteq Users \X Live
    /\ auditors \cup managers \subseteq Users \X Live
    /\ owner \in [Events -> Owners \cup {Unborn, Gone}]
    /\ delegation \in
          [Pairs -> [status : {"none", "pending", "active", "declined",
                               "revoked"}, scope : Scoped]]
    /\ \A p \in Pairs :
          LET scope == delegation[p].scope
          IN  /\ scope.all => scope.events = {}
              /\ scope.events \subseteq Owned(p[1])
    /\ call \in [Calls -> [op : Ops, user : Users \cup {NoUser},
                           owner : Owners \cup {NoUser}, scope : Scoped,
                           step : {"idle", "look", "write"}, late : BOOLEAN]]
    /\ writes \in 0..MaxWrites
    /\ excused \subseteq Users \X Events
    /\ unguarded \in BOOLEAN /\ padded \in BOOLEAN

(* checkSoD and checkAuditorOrganizerConflict: nobody audits an event they *)
(* own, organize or co-organize, however grants, invitations, requests,    *)
(* changes of scope and new events follow each other - unless another      *)
(* change of that user's rights was written between the check and the      *)
(* write that made it so, or the owner approved a request.                 *)
SeparationUnlessRaced == Conflicts \subseteq excused

(* delegation/service.go: checkSoD "blocks a delegation that would let a   *)
(* user co-organize an event they audit".                                  *)
SeparationOfDuties == Conflicts = {}

(* RevokeUserRole: "Guards against locking the platform out of Super       *)
(* Admin", "nor the last remaining one".  Somebody is Super Admin of the   *)
(* platform, even if revocations come from tokens that outlive their role, *)
(* unless a revocation was overtaken by another or by the deletion of an   *)
(* event, an admin's own application to organize was approved, or a Super  *)
(* Admin of an event, who may do nothing with that, was counted.           *)
AdminRemains == admins = {} => unguarded \/ padded
=============================================================================
