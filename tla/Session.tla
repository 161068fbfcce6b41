------------------------------ MODULE Session ------------------------------
(***************************************************************************)
(* Refresh-token sessions of one user: backend/internal/auth (session.go,  *)
(* the service and handlers that call it) and the browser that holds the   *)
(* refresh_token cookie.  The store is partitioned by user, so one user is *)
(* enough.                                                                 *)
(*                                                                         *)
(* A session is a family id with the hash of its current secret; a refresh *)
(* swaps the secret in one Lua script, and a stale secret deletes the      *)
(* family.  Secrets are random, so the n-th secret of a family is modelled *)
(* by n.  A tab sends one request at a time (utils/api.ts serializes its   *)
(* refreshes); tabs of one browser share the cookie.  Every Redis command  *)
(* or transaction, the database lookup and the reply are separate steps.   *)
(***************************************************************************)
EXTENDS Naturals, FiniteSets

CONSTANTS
    Families,  \* session ids that logins draw
    Tabs,      \* browser tabs, one request in flight each
    Browsers,  \* cookie jars
    JarOf,     \* JarOf[t]: the browser of tab t
    Requests,  \* which of AllRequests users make
    MaxGen,    \* bound: secrets of one family
    MaxLost,   \* bound: replies lost, lookups and commands failed
    None

AllRequests == {"login", "refresh", "logout", "logoutAll"}

Token == [fam : Families, gen : 0..MaxGen]

ASSUME SessionAssumption ==
    /\ JarOf \in [Tabs -> Browsers]
    /\ Requests \subseteq AllRequests
    /\ MaxGen \in Nat
    /\ MaxLost \in Nat
    /\ None \notin Token \cup Nat

VARIABLES
    secret,    \* session:<f>: number of the current secret, None if no key
    index,     \* user_sessions:<u>
    unused,    \* families not drawn yet
    at,        \* per tab: where its request is
    tok,       \* per tab: the token its request carries, or its reply
    seen,      \* per tab: the families SMEMBERS returned
    cookie,    \* per browser: refresh_token
    won,       \* tokens that were exchanged for a new one (history)
    raced,     \* families drawn while a logout of all was under way (history)
    lost       \* replies lost, lookups and commands failed so far

store == <<secret, index, unused>>
calls == <<at, tok, seen, cookie>>
history == <<won, raced>>
vars == <<store, calls, history, lost>>

Steps == {"idle", "open", "rotate", "drop", "lookup", "find", "end", "list",
          "endAll", "give", "clear"}

Alive(f) == secret[f] # None
Jar(t) == cookie[JarOf[t]]
Step(t, s) == at' = [at EXCEPT ![t] = s]
Carry(t, x) == tok' = [tok EXCEPT ![t] = x]
Mishap == lost < MaxLost /\ lost' = lost + 1

----------------------------------------------------------------------------
(* What a tab sends: the request carries the cookie as it is now. *)

Send(t, kind, first) ==
    /\ kind \in Requests
    /\ at[t] = "idle"
    /\ Step(t, first)
    /\ UNCHANGED <<store, seen, cookie, history, lost>>

SendLogin(t) == Send(t, "login", "open") /\ Carry(t, None)

SendRefresh(t) ==
    /\ Jar(t) # None
    /\ Jar(t).gen < MaxGen
    /\ Send(t, "refresh", "rotate")
    /\ Carry(t, Jar(t))

SendLogout(t) ==
    /\ Jar(t) # None
    /\ Send(t, "logout", "find")
    /\ Carry(t, Jar(t))

(* It is authenticated by the access token, not by the refresh cookie. *)
SendLogoutAll(t) == Send(t, "logoutAll", "list") /\ Carry(t, None)

----------------------------------------------------------------------------
\* Mistake: the session is not added to the index.
IndexedNot(f) == index

(* SADD user_sessions:<u>. *)
Indexed(f) == index \cup {f}

(* Some logout of all devices has listed the sessions, not yet deleted.    *)
LoggingOutAll == \E t \in Tabs : at[t] = "endAll"

(* SessionStore.Create, one MULTI/EXEC: the session and its index entry. *)
OpenSession(t, f) ==
    /\ at[t] = "open"
    /\ f \in unused
    /\ unused' = unused \ {f}
    /\ secret' = [secret EXCEPT ![f] = 0]
    /\ index' = Indexed(f)
    /\ Carry(t, [fam |-> f, gen |-> 0])
    /\ raced' = IF LoggingOutAll THEN raced \cup {f} ELSE raced
    /\ Step(t, "give")
    /\ UNCHANGED <<seen, cookie, won, lost>>

\* Mistake: the script compares the secrets but keeps the old one.
RotatedNot(x) == secret

\* Mistake: it writes the number of the secret after the next.
RotatedTwice(x) == [secret EXCEPT ![x.fam] = x.gen + 2]

(* HSET secret_hash of the fresh secret. *)
Rotated(x) == [secret EXCEPT ![x.fam] = x.gen + 1]

(* current ~= ARGV[1] is a replay. *)
Current(x) == secret[x.fam] = x.gen

\* Mistake: it blanks the secret's hash instead of deleting the key.
EndedBlank(x) == [secret EXCEPT ![x.fam] = 0]

(* DEL session:<f>. *)
Ended(x) == [secret EXCEPT ![x.fam] = None]

(* rotateScript: missing session, stale secret, or rotation. *)
Rotate(t) ==
    LET x == tok[t]
    IN  /\ at[t] = "rotate"
        /\ \/ /\ ~Alive(x.fam)
              /\ Step(t, "clear")
              /\ UNCHANGED <<secret, tok, won>>
           \/ /\ Alive(x.fam) /\ ~Current(x)
              /\ secret' = Ended(x)
              /\ Step(t, "drop")
              /\ UNCHANGED <<tok, won>>
           \/ /\ Alive(x.fam) /\ Current(x)
              /\ secret' = Rotated(x)
              /\ Carry(t, [x EXCEPT !.gen = @ + 1])
              /\ won' = won \cup {x}
              /\ Step(t, "lookup")
        /\ UNCHANGED <<index, unused, seen, cookie, raced, lost>>

(* The script takes effect, its reply is lost and the client sends it      *)
(* again, with the same two secrets: now the first of them is stale.       *)
RotateUnheard(t) ==
    LET x == tok[t]
    IN  /\ Mishap
        /\ at[t] = "rotate"
        /\ Alive(x.fam)
        /\ \/ /\ ~Current(x)
              /\ secret' = Ended(x)
              /\ UNCHANGED won
           \/ /\ Current(x)
              /\ secret' = Rotated(x)
              /\ won' = won \cup {x}
        /\ UNCHANGED <<index, unused, calls, raced>>

(* After a replay: SREM of the dangling index entry. *)
DropIndexEntry(t) ==
    /\ at[t] = "drop"
    /\ index' = index \ {tok[t].fam}
    /\ Step(t, "clear")
    /\ UNCHANGED <<secret, unused, tok, seen, cookie, history, lost>>

(* RefreshTokens looks the user up after the rotation; an error clears the *)
(* cookies and leaves the rotated session behind.                          *)
LookUpUser(t) ==
    /\ at[t] = "lookup"
    /\ \/ Step(t, "give") /\ UNCHANGED lost
       \/ Step(t, "clear") /\ Mishap
    /\ UNCHANGED <<store, tok, seen, cookie, history>>

(* Revoke: HGET the user id, then DEL and SREM in one transaction. *)
FindSession(t) ==
    /\ at[t] = "find"
    /\ Step(t, IF Alive(tok[t].fam) THEN "end" ELSE "clear")
    /\ UNCHANGED <<store, tok, seen, cookie, history, lost>>

EndSession(t) ==
    /\ at[t] = "end"
    /\ secret' = Ended(tok[t])
    /\ index' = index \ {tok[t].fam}
    /\ Step(t, "clear")
    /\ UNCHANGED <<unused, tok, seen, cookie, history, lost>>

(* RevokeAllForUser: SMEMBERS, then DEL of what it returned and of the set. *)
ListSessions(t) ==
    /\ at[t] = "list"
    /\ seen' = [seen EXCEPT ![t] = index]
    /\ Step(t, "endAll")
    /\ UNCHANGED <<store, tok, cookie, history, lost>>

EndAllSessions(t) ==
    /\ at[t] = "endAll"
    /\ secret' = [f \in Families |-> IF f \in seen[t] THEN None ELSE secret[f]]
    /\ index' = {}
    /\ seen' = [seen EXCEPT ![t] = {}]
    /\ Step(t, "clear")
    /\ UNCHANGED <<unused, tok, cookie, history, lost>>

(* A Redis command fails: a refresh and a logout clear the cookies all the *)
(* same, a login and a logout of all devices answer 500.  (A transaction   *)
(* that takes effect and loses its reply looks like a step that succeeds   *)
(* whose own reply is lost; a command is sent again, see RotateUnheard.)   *)
StoreFails(t) ==
    /\ Mishap
    /\ \/ at[t] \in {"rotate", "drop", "find", "end"} /\ Step(t, "clear")
       \/ at[t] \in {"open", "list", "endAll"} /\ Step(t, "idle")
    /\ seen' = [seen EXCEPT ![t] = {}]
    /\ UNCHANGED <<store, tok, cookie, history>>

(* The reply sets the cookie or clears it, or never arrives. *)
Reply(t) ==
    /\ at[t] \in {"give", "clear"}
    /\ cookie' = [cookie EXCEPT ![JarOf[t]] =
                    IF at[t] = "give" THEN tok[t] ELSE None]
    /\ Step(t, "idle")
    /\ Carry(t, None)
    /\ UNCHANGED <<store, seen, history, lost>>

LoseReply(t) ==
    /\ Mishap
    /\ at[t] \in {"give", "clear"}
    /\ Step(t, "idle")
    /\ Carry(t, None)
    /\ UNCHANGED <<store, seen, cookie, history>>

(* Absolute lifetime.  Each Create renews the index's, so it outlives every *)
(* session it lists.                                                        *)
SessionExpires(f) ==
    /\ Alive(f)
    /\ secret' = [secret EXCEPT ![f] = None]
    /\ UNCHANGED <<index, unused, calls, history, lost>>

IndexExpires ==
    /\ index # {}
    /\ \A f \in index : ~Alive(f)
    /\ index' = {}
    /\ UNCHANGED <<secret, unused, calls, history, lost>>

----------------------------------------------------------------------------
Init ==
    /\ secret = [f \in Families |-> None]
    /\ index = {}
    /\ unused = Families
    /\ at = [t \in Tabs |-> "idle"]
    /\ tok = [t \in Tabs |-> None]
    /\ seen = [t \in Tabs |-> {}]
    /\ cookie = [b \in Browsers |-> None]
    /\ won = {}
    /\ raced = {}
    /\ lost = 0

TabStep(t) ==
    \/ SendLogin(t) \/ SendRefresh(t) \/ SendLogout(t) \/ SendLogoutAll(t)
    \/ \E f \in Families : OpenSession(t, f)
    \/ Rotate(t) \/ RotateUnheard(t) \/ DropIndexEntry(t) \/ LookUpUser(t)
    \/ FindSession(t) \/ EndSession(t)
    \/ ListSessions(t) \/ EndAllSessions(t) \/ StoreFails(t)
    \/ Reply(t) \/ LoseReply(t)

Next ==
    \/ \E t \in Tabs : TabStep(t)
    \/ \E f \in Families : SessionExpires(f)
    \/ IndexExpires

Spec == Init /\ [][Next]_vars

----------------------------------------------------------------------------
(* Properties. *)

(* Every variable stays in its type.  A reply that hands out a token and a *)
(* request that rotates or ends a session carry one.                       *)
TypeOK ==
    /\ secret \in [Families -> 0..MaxGen \cup {None}]
    /\ index \subseteq Families
    /\ unused \subseteq Families
    /\ at \in [Tabs -> Steps]
    /\ tok \in [Tabs -> Token \cup {None}]
    /\ seen \in [Tabs -> SUBSET Families]
    /\ cookie \in [Browsers -> Token \cup {None}]
    /\ won \subseteq Token
    /\ raced \subseteq Families
    /\ lost \in Nat
    /\ \A t \in Tabs : at[t] \in {"rotate", "drop", "lookup", "find", "end", "give"}
                         => tok[t] # None
    /\ \A t \in Tabs : at[t] = "rotate" => tok[t].gen < MaxGen

(* Two refreshes with one token never both win, however they interleave    *)
(* and whatever tab they come from: a token that was exchanged is never    *)
(* exchanged again (session.go: "so two concurrent refreshes can't both    *)
(* 'win'").                                                                *)
ExchangesFreshToken ==
    \A t \in Tabs : at[t] = "rotate" /\ at'[t] = "lookup" => tok[t] \notin won
TokensWinOnce == [][ExchangesFreshToken]_vars

(* Why: an exchanged token is older than its session's current secret.     *)
ExchangedTokensAreStale ==
    \A x \in won : Alive(x.fam) => x.gen < secret[x.fam]

(* A drawn family never comes back to life once it is gone: no rotation or *)
(* late reply revives a session that was logged out, revoked or expired.   *)
EndedSessionsStayEnded ==
    [][\A f \in Families : ~Alive(f) /\ f \notin unused => secret'[f] = None]_vars

(* The only tab of a browser holds the current secret of its session       *)
(* whenever that session is alive, nothing was lost and no request is      *)
(* under way: its next refresh works, whatever other browsers do.          *)
Alone(t) == \A u \in Tabs : JarOf[u] = JarOf[t] => u = t

CookieIsCurrent ==
    lost = 0 => \A t \in Tabs :
        Alone(t) /\ at[t] = "idle" /\ Jar(t) # None /\ Alive(Jar(t).fam)
            => Current(Jar(t))

(* A user's own browser trips the replay alarm only when it has several    *)
(* tabs, or after a reply was lost, the script's or the server's           *)
(* (session.go: "legitimate clients never double-refresh", which leaves    *)
(* the other tabs and the Redis client's own repeats out).                 *)
AlarmHasACause == \A t \in Tabs : at[t] = "drop" => lost > 0 \/ ~Alone(t)

(* Every live session can be found through the user's index, so logging    *)
(* out all devices ends it, unless the login itself raced with a logout of *)
(* all devices (session.go: "so RevokeAllForUser can find every session"). *)
SessionsAreIndexed ==
    \A f \in Families : Alive(f) => f \in index \cup raced
=============================================================================
